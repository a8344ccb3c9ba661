---------------------------- MODULE MCNamespace -----------------------------
EXTENDS Namespace, TLC
NameSymmetry == Permutations(Name)
=============================================================================
