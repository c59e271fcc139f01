---------------------------- MODULE MCBadgeKeeper ----------------------------
EXTENDS BadgeKeeper, TLC

CONSTANTS coin, gem

MCResults == {<<>>, <<coin, gem>>}
MCSymmetry == Permutations(Users)
=============================================================================
