\* A save is interrupted after the header was written: a page program fails, or the board resets.
CONSTANTS
    CaptureSizes <- MC_CaptureSizes
    FailSteps <- MC_PageFailure
    MaxGen = 2
    MaxReboots = 1
    Erased = Erased
    Garbage = Garbage
    NoImage = NoImage
    Unknown = Unknown
    Torn = Torn

SPECIFICATION Spec

INVARIANT StoredImageComplete
