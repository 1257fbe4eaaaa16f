SPECIFICATION FairSpec
CONSTANTS
    bulkIn = bulkIn
    bulkOut = bulkOut
    Control = Control
    Urbs = {u1, u2, u3}
    NoUrb = NoUrb
    Eps <- BothEps
    MaxRequests = 4
    Scenarios <- Supported
INVARIANTS TypeOK ListWhole PatientClientsAreServed
PROPERTIES RequestsAnswered NextIsAccepted
CHECK_DEADLOCK FALSE
