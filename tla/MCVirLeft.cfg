SPECIFICATION MCVirSpec
CONSTANTS
    v1 = v1
    v2 = v2
    llvm22 = llvm22
    on = on
    off = off
    NLibs = 1
    Mutants = {}
    HasUserCore = FALSE
    Versions = {v1, v2}
    ToolChoices = {llvm22}
    Compilers = {1}
    Configs = {on, off}
    Unverified = {off}
    Goals = {"all"}
    Jobs = 2
    Disturbances = 4
SYMMETRY VersionSymmetry
INVARIANTS
    ObjectVerified
