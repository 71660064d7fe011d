CONSTANTS
    u1 = u1
    u2 = u2
    Uniforms = {u1, u2}
    MaxPrograms = 2
    MaxLinks = 2
SPECIFICATION Spec
SYMMETRY UniformSymmetry
INVARIANTS CurrentIsInUse GivenIdsResolve UploadLands
CHECK_DEADLOCK FALSE
