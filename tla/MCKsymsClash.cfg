SPECIFICATION KernelSpec
CONSTANTS
    Kfuncs <- TheKfuncs
    Progs <- TheProgs
    Entries <- TheEntries
    Modules <- CopyModules
    Builds <- TheBuilds
    TrapToThrow = TRUE
CHECK_DEADLOCK FALSE
INVARIANTS
    NoClash
