------------------------------ MODULE MCRouter ------------------------------
(***************************************************************************)
(* NotificationRouter with two turns of one thread and one of another.     *)
(***************************************************************************)
EXTENDS NotificationRouter

CONSTANTS t1, t2, u1, u2, u3

MCThreads == {t1, t2}
MCTurns == {u1, u2, u3}
MCThreadOf == [u \in MCTurns |-> IF u = u3 THEN t2 ELSE t1]

=============================================================================
