SPECIFICATION MCSpec
CONSTANTS
    v1 = v1
    v2 = v2
    llvm22 = llvm22
    on = on
    off = off
    NLibs = 2
    Mutants = {}
    HasUserCore = TRUE
    Versions = {v1, v2}
    ToolChoices = {llvm22}
    Compilers = {1, 2}
    Configs = {on, off}
    Unverified = {off}
    Goals = {"all"}
    Jobs = 2
    Disturbances = 3
SYMMETRY VersionSymmetry
INVARIANTS
    TypeOK
    ObjectFresh
    ObjectVerified
    CleanMeansCurrent
    DeliveredIsSettled
PROPERTIES
    StaysSettled
    VerifiedFirst
