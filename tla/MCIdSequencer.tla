--------------------------- MODULE MCIdSequencer ---------------------------
EXTENDS IdSequencer, TLC

\* The calls of one key are interchangeable: keyOf is a variable of the behaviour.
CallSymmetry == Permutations(Calls)
=============================================================================
