SPECIFICATION FairSpec
CONSTANTS
    sysThread = sysThread
    acceptThread = acceptThread
    Clients <- Both
    Scenarios <- LastRequest
PROPERTIES PacketsComeBack
CHECK_DEADLOCK FALSE
