----------------------------- MODULE MCGlPrograms -----------------------------
EXTENDS GlPrograms, TLC

CONSTANTS u1, u2

UniformSymmetry == Permutations({u1, u2})
=============================================================================
