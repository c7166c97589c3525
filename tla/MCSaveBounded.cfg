\* A snapshot that wraps to less than one page ends between the size check and the lock.
CONSTANTS
    CaptureSizes <- MC_ShortCaptureSizes
    FailSteps <- MC_NoFailures
    MaxGen = 2
    MaxReboots = 0
    Erased = Erased
    Garbage = Garbage
    NoImage = NoImage
    Unknown = Unknown
    Torn = Torn

SPECIFICATION Spec

INVARIANT SaveBounded
