\* The camera works from boot; a BSP_CAMERA_Start of the periodic capture fails after JPEG_buffer_lock was taken, and no frame ever gives it back.
CONSTANTS
    CaptureSizes <- MC_CaptureSizes
    FailSteps <- MC_StartFailure
    MaxGen = 2
    MaxReboots = 0
    Erased = Erased
    Garbage = Garbage
    NoImage = NoImage
    Unknown = Unknown
    Torn = Torn

SPECIFICATION Spec

PROPERTY LocksEventuallyFree
