SPECIFICATION KernelSpec
CONSTANTS
    Kfuncs <- TheKfuncs
    Progs <- TheProgs
    Entries <- TheEntries
    Modules <- TupleModules
    Builds <- TheBuilds
    TrapToThrow = TRUE
CHECK_DEADLOCK FALSE
INVARIANTS
    InternalIsStatic
