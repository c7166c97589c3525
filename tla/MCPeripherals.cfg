\* All actors, no driver failures: the locking, round trip and mode invariants.
CONSTANTS
    CaptureSizes <- MC_CaptureSizes
    FailSteps <- MC_NoFailures
    MaxGen = 2
    MaxReboots = 1
    Erased = Erased
    Garbage = Garbage
    NoImage = NoImage
    Unknown = Unknown
    Torn = Torn

SPECIFICATION Spec

INVARIANT TypeOK
INVARIANT NoTornRead
INVARIANT SavedReadSafe
INVARIANT MappedWhenIdle
INVARIANT Durability

PROPERTY LocksEventuallyFree
PROPERTY ImplementsImageStore
