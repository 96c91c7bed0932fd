SPECIFICATION Spec
CONSTANTS
    Runners = {r1, r2}
    Events = {v1}
    Endpoints = {e1}
    Undecryptable = {}
    NoDelivery = NoDelivery
    MaxAttempts = 2
    DisableAfter = 2
    MaxReplays = 2
    MaxToggles = 2
    MaxCrashes = 2
SYMMETRY Symmetry
INVARIANTS
    PostingEnds
    DeadIsDisabled
    ExhaustedWasTried
    AttemptsWereMade
PROPERTIES
    SucceededIsFinal
