\* Ping output, terminal reads, starts and stops, with lock timeouts; and the configuration reads of ping_init.
CONSTANTS
    BufferSize = 6
    LineLens <- MC_LineLens
    MaxReports = 2
    MaxPings = 2
    LockTimeouts = TRUE
    MaxKeyLen = 3
    MmConfigs <- MC_MmConfigs
    KeyChars <- MC_KeyChars
    Null = Null

SPECIFICATION BootSpec

INVARIANT TypeOK
INVARIANT NeverOverfills
INVARIANT NoLostLine

INVARIANT Uint32ParseCorrect
INVARIANT Int32ParseCorrect
INVARIANT KeyValidationCorrect
INVARIANT ReadStringFits
INVARIANT DriverCallSafe
INVARIANT ChunkInBounds
INVARIANT BinariesLoad
INVARIANT ReallocPreserves
INVARIANT IdleTicksAccounted
INVARIANT IdleSleepClosed
INVARIANT SensorsReplyFits

PROPERTY BufferLockFree
