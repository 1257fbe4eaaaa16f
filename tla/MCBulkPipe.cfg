SPECIFICATION FairBulkSpec
CONSTANTS
    ep0out = ep0out
    BulkIn = BulkIn
    BulkOut = BulkOut
    a = a
    Blank = Blank
    QueueSize = 3
    Endpoints <- MCEndpoints
    ZeroCode = ep0out
    MaxOutstanding = 4
    Bytes <- MCBytes
    Texts <- MCTexts
    BufSize = 2
    MaxReads = 2
INVARIANTS BulkTypeOK EndpointPassedRound QuietMeansHeard RingExact
PROPERTIES KeyTakenOnce FetchReturnsNewestInSlot 
