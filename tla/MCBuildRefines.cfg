SPECIFICATION MCSpec
CONSTANTS
    v1 = v1
    v2 = v2
    llvm22 = llvm22
    m1 = m1
    on = on
    off = off
    NLibs = 1
    Mutants = {m1}
    HasUserCore = FALSE
    Versions = {v1, v2}
    ToolChoices = {llvm22}
    Compilers = {1, 2}
    Configs = {on, off}
    Unverified = {off}
    Goals = {"all", "verify"}
    Jobs = 2
    Disturbances = 2
INVARIANTS
    MutantsRejected
PROPERTIES
    MakeReturns
    ImplementsVerifiedBuild
