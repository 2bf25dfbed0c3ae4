------------------------------ MODULE MCGraph -------------------------------
(***************************************************************************)
(* SessionGraph with interchangeable runs.                                 *)
(***************************************************************************)
EXTENDS SessionGraph, TLC

CONSTANTS app, c1, r1, r2, r3

MCProcs == {app, c1}
MCAppOnly == {app}
MCOneRun == {r1}
MCThreeRuns == {r1, r2, r3}
MCSymmetry == Permutations(MCThreeRuns)

=============================================================================
