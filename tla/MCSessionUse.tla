---------------------------- MODULE MCSessionUse ----------------------------
EXTENDS SessionUse, TLC

Symmetric == Permutations(Handlers)
=============================================================================
