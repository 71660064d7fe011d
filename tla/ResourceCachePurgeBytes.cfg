CONSTANTS
    r1 = r1
    r2 = r2
    r3 = r3
    Resources = {r1, r2, r3}
    NoResource = NoResource
    u = u
    v = v
    UniqueKeys = {u, v}
    ScratchKeys = {s}
    NoKey = NoKey
    Size <- Sizes
    Limits = {1, 3}
    Amounts = {1, 2}
    SizeModulus = 256
    Wrap = 4
    MaxRefs = 2
    MaxPosted = 1
    Clients <- Unbudgeting
SPECIFICATION Spec
SYMMETRY ResourceSymmetry
INVARIANT PurgesTheBytes
CHECK_DEADLOCK FALSE
