\* HAL_OSPI_Abort fails: save_image and erase_image return without restoring the mapping.
CONSTANTS
    CaptureSizes <- MC_CaptureSizes
    FailSteps <- MC_AbortFailure
    MaxGen = 2
    MaxReboots = 0
    Erased = Erased
    Garbage = Garbage
    NoImage = NoImage
    Unknown = Unknown
    Torn = Torn

SPECIFICATION Spec

INVARIANT MappedWhenIdle
