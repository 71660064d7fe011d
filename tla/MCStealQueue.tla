----------------------------- MODULE MCStealQueue -----------------------------
EXTENDS StealQueue, TLC

CONSTANTS w1, w2, w3

Thieves == Permutations({w2, w3})
=============================================================================
