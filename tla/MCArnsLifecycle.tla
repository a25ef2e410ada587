--------------------------- MODULE MCArnsLifecycle ---------------------------
EXTENDS ArnsLifecycle, TLC
Symmetry == Permutations(Names)
NoSkew == {0}
Behind == {-1, 0}
OneTick == {1}
=============================================================================
