SPECIFICATION FairSpec
CONSTANTS
    ep0out = ep0out
    ep0in = ep0in
    ep2out = ep2out
    QueueSize = 4
    Endpoints <- MCEndpoints
    ZeroCode = ep0out
    MaxOutstanding = 3
PROPERTIES FifoSpec
