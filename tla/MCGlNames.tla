------------------------------ MODULE MCGlNames ------------------------------
\* The names of a GL context and, beside them, its pixel store.
EXTENDS GlNames, PixelUpload, TLC

CONSTANTS o1, o2, o3

ObjectSymmetry == Permutations({o1, o2, o3})

ContextInit == Init /\ PixelStoreInit

ContextNext ==
    \/ Next /\ UNCHANGED pixelStore
    \/ glPixelStorei /\ UNCHANGED vars

ContextSpec == ContextInit /\ [][ContextNext]_<<vars, pixelStore>>
=============================================================================
