----------------------------- MODULE MCDispatch -----------------------------
(* Values for the constants of Dispatch that a cfg cannot write down. *)
EXTENDS Dispatch, TLC

Limits(crash, exit, loss, error, cancel, close) ==
  [f \in Fault |->
     CASE f = "crash" -> crash [] f = "exit" -> exit [] f = "loss" -> loss
       [] f = "error" -> error [] f = "cancel" -> cancel [] f = "close" -> close]

(* Two faults of any kind but a closing window.                            *)
MCDockerLimit == Limits(2, 2, 2, 2, 2, 0)

(* One cancel and one closing of the window.                               *)
MCStaticLimit == Limits(0, 0, 0, 0, 1, 1)

MCLiveLimit == Limits(1, 1, 1, 1, 1, 1)

MCSymmetry ==
  Permutations(Job) \cup Permutations(Batch) \cup Permutations(Runner)

MCBatchSymmetry == Permutations(Batch)
=============================================================================
