\* Driver calls whose status the code checks may fail: locking, mode and round trip still hold.
CONSTANTS
    CaptureSizes <- MC_CaptureSizes
    FailSteps <- MC_CheckedFailures
    MaxGen = 2
    MaxReboots = 1
    Erased = Erased
    Garbage = Garbage
    NoImage = NoImage
    Unknown = Unknown
    Torn = Torn

SPECIFICATION Spec

INVARIANT NoTornRead
INVARIANT SavedReadSafe
INVARIANT MappedWhenIdle
INVARIANT Durability

PROPERTY LocksEventuallyFree
PROPERTY ImplementsImageStore
