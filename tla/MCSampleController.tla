------------------------- MODULE MCSampleController -------------------------
EXTENDS BKSampleController, TLC

CONSTANT coin

MCNoRewards == {<<>>}
MCSymmetry == Permutations(Users)
=============================================================================
