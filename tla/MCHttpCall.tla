----------------------------- MODULE MCHttpCall -----------------------------
EXTENDS HttpCall, TLC

\* The calls of a factory are interchangeable.
CallSymmetry == Permutations(Calls)
=============================================================================
