------------------------------- MODULE Faults -------------------------------
(***************************************************************************)
(* What the environment does wrong, counted over all kinds and bounded so  *)
(* that a behaviour has few of them.                                       *)
(***************************************************************************)
EXTENDS Naturals

CONSTANT MaxFaults

ASSUME FaultAssumption == MaxFaults \in Nat

VARIABLE faults

Fault == faults < MaxFaults /\ faults' = faults + 1
=============================================================================
