---------------------------- MODULE MCToneOwner ----------------------------
EXTENDS ToneOwner, TLC

\* The host names are interchangeable.
TokenSymmetry == Permutations(Tokens)
=============================================================================
