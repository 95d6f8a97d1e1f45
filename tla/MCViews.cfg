SPECIFICATION Spec
CONSTANTS
    Schemas <- TheSchemas
    Profiles <- TheProfiles
    Essential <- TheEssential
    Kernels <- TheKernels
    Object = 1000
    NoModule = "none"
INVARIANTS
    TypeOK
    RequiredReadsExist
    AddressIsField
    NullNotReferenced
