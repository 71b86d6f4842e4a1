----------------------------- MODULE MCAuthSession -----------------------------
EXTENDS AuthSession, TLC

Symmetry == Permutations(Visits)
================================================================================
