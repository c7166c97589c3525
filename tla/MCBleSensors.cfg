\* BLE link, sensors and the IP report, with every property that holds.
CONSTANTS
    Handles <- MC_Handles
    MaxQueue = 2
    MaxRequests = 1
    UserLimit = 0

SPECIFICATION Spec

INVARIANT TypeOK
PROPERTY ConnectableAgain
PROPERTY ReadAnswered
PROPERTY SubscribersServed
