----------------------------- MODULE MCProcess ------------------------------
(***************************************************************************)
(* CodexProcess with two callers.                                          *)
(***************************************************************************)
EXTENDS CodexProcess

CONSTANTS c1, c2

MCClients == {c1, c2}

=============================================================================
