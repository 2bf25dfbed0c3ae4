---------------------------- MODULE MCCoordinator ----------------------------
EXTENDS ValidationCoordinator, TLC

CONSTANTS b1, r1, structural, vlm, s1, t1, t2, turn1

MCBatches == {b1}
MCKinds   == {structural, vlm}
MCRevs    == {r1}
MCStamps  == {s1}
MCTokens  == {t1, t2}
MCTurns   == {turn1}

MCSymmetry == Permutations(MCTokens)

\* Of the run the coordinator tests no more than this: states that agree on it
\* (and on everything else) have the same behaviours.
TestedOfRun == <<IF run.status = "cancelled" THEN "failed" ELSE run.status, run.step = "refining">>

MCView == <<storeVars, TestedOfRun, phase, cacheVars, coordVars, spawned>>
=============================================================================
