SPECIFICATION Spec
CONSTANTS
    bulkIn = bulkIn
    bulkOut = bulkOut
    Control = Control
    Urbs = {u1, u2, u3}
    NoUrb = NoUrb
    Eps <- BothEps
    MaxRequests = 4
    Scenarios <- LastOfTwo
INVARIANTS NoNullFollowed
CHECK_DEADLOCK FALSE
