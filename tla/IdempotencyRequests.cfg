SPECIFICATION Spec
CONSTANTS
    other = other
    opA = opA
    opB = opB
    Requests = {r1, r2, r3, other}
    Operations = {opA, opB}
    OpOf <- TwoOperations
    NoRequest = NoRequest
    Sweeping = TRUE
    MaxExpiries = 1
    MaxCrashes = 1
CHECK_DEADLOCK FALSE
INVARIANTS
    KeyIsKept
    FaithfulWhileLive
    InProgressIsOwned
PROPERTIES
    CompletedIsStable
