----------------------------- MODULE MCThreads ------------------------------
(***************************************************************************)
(* AgentThreads with three threads, which are enough for one that is       *)
(* replaced, its successor and one of a check.                             *)
(***************************************************************************)
EXTENDS AgentThreads

CONSTANTS r1, k1

MCThreadIds == 1 .. 3
MCRunIds    == {r1}
MCCheckIds  == {k1}

=============================================================================
