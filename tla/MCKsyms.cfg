SPECIFICATION KernelSpec
CONSTANTS
    Kfuncs <- TheKfuncs
    Progs <- TheProgs
    Entries <- TheEntries
    Modules <- PlainModules
    Builds <- TheBuilds
    TrapToThrow = TRUE
CHECK_DEADLOCK FALSE
INVARIANTS
    TypeOK
    NoClash
    CallsResolve
    SecondRunAddsNothing
    NothingLeft
    MirrorResolves
    ScalarsResolve
