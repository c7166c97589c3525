\* Write-enable and program failures that save_image only prints.
CONSTANTS
    CaptureSizes <- MC_CaptureSizes
    FailSteps <- MC_IgnoredFailures
    MaxGen = 2
    MaxReboots = 0
    Erased = Erased
    Garbage = Garbage
    NoImage = NoImage
    Unknown = Unknown
    Torn = Torn

SPECIFICATION Spec

INVARIANT Durability
