---------------------------- MODULE MCDirectory ----------------------------
EXTENDS Directory, TLC

KeySymmetry == Permutations(Keys)
=============================================================================
