\* A stop requested before or during a ping.
CONSTANTS
    BufferSize = 6
    LineLens <- MC_LineLens
    MaxReports = 2
    MaxPings = 2
    LockTimeouts = FALSE

SPECIFICATION Spec

INVARIANT StopHonoured
