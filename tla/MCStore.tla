------------------------------- MODULE MCStore -------------------------------
EXTENDS StoreRefinement, TLC

CONSTANTS b1, b2, r1, r2, structural, vlm, s1, t1, t2, t3, turn1

MCBatches == {b1, b2}
MCRevs    == {r1, r2}
MCKinds   == {structural, vlm}
MCStamps  == {s1}
MCTokens  == {t1, t2, t3}
MCTurns   == {turn1}

MCSymmetry == Permutations(MCBatches) \cup Permutations(MCRevs) \cup Permutations(MCTokens)
=============================================================================
