------------------------------- MODULE MCRuns -------------------------------
EXTENDS AgentRuns, TLC

CONSTANTS b1, b2, r1, r2, vlm, s1, t1, t2, t3, turn1, turn2

MCBatches == {b1, b2}
MCRevs    == {r1, r2}
MCKinds   == {vlm}
MCStamps  == {s1}
MCTokens  == {t1, t2, t3}
MCTurns   == {turn1, turn2}

MCSymmetry == Permutations(MCBatches) \cup Permutations(MCRevs) \cup Permutations(MCTokens)
                 \cup Permutations(MCTurns)
=============================================================================
