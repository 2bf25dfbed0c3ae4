---------------------------- MODULE MCArtifacts ----------------------------
(* Two artifacts, a task of the application beside the main thread, a command. *)
EXTENDS Artifacts, TLC

CONSTANTS a1, a2, u, t1, c1

MCArts == {a1, a2}
MCTasks == {t1}
MCCommands == {c1}
MCSymmetry == Permutations(MCArts)

=============================================================================
