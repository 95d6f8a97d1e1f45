SPECIFICATION Spec
CONSTANTS
    Fields <- TheFields
    Size <- TheSize
    Pointers <- ThePointers
    Arrays <- TheArrays
    Essential <- TheEssential
    WithoutPrefix <- TheWithoutPrefix
    Sanitized <- TheSanitized
    Programs <- ThePrograms
    Kernels <- TheKernels
CHECK_DEADLOCK FALSE
INVARIANTS
    TypeOK
    RelocsNameTheSource
    NothingHalfLowered
    KernelTakesBtf
    RequiredLoads
PROPERTIES
    ListsKept
    ArgumentNamesKept
