--------------------------- MODULE MCRunnerServer ---------------------------
(* Values for TLC.  Jobs of one batch can be exchanged.                    *)
EXTENDS RunnerServer, TLC

CONSTANTS j1, j2, b1, b2

Jobs == {j1, j2}
Batches == {b1, b2}
=============================================================================
