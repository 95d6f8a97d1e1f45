SPECIFICATION Spec
CONSTANTS
    p1 = p1
    p2 = p2
    p3 = p3
    verus = verus
    rust_verify = rust_verify
    vstd = vstd
    i1 = i1
    i2 = i2
    None = None
    Procs = {p1, p2, p3}
    Components = {verus, rust_verify, vstd}
    Tested = {verus, vstd}
    Pins = {1, 2}
    Inodes = {i1, i2}
    HostRunsRelease = FALSE
    SetupConfig <- SameConfig
INVARIANTS
    TypeOK
    Exclusive
    UsesPinned
    NotUnderAVerifier
PROPERTIES
    SetupEnds
