SPECIFICATION FairSpec
CONSTANTS
    sysThread = sysThread
    acceptThread = acceptThread
    Clients <- Both
    Scenarios <- Supported
INVARIANTS TypeOK SetupWhole
PROPERTIES  TransfersHonest AddressAfterStatus PacketsComeBack 
CHECK_DEADLOCK FALSE
