SPECIFICATION Spec
CONSTANTS
    Runners = {r1}
    Events = {v1}
    Endpoints = {e1, e2}
    Undecryptable = {}
    NoDelivery = NoDelivery
    MaxAttempts = 2
    DisableAfter = 2
    MaxReplays = 0
    MaxToggles = 0
    MaxCrashes = 0
INVARIANTS
    EventReachesAudience
