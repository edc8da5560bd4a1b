SPECIFICATION FairSpec
CONSTANTS
    Stoppers = {s1}
    BusModes = {"automatic", "planar_encoder_input"}
    MaxRetry = 1
    Nonces = {1, 2}
    FirstNonce = 1
    MaxFaults = 1
    MaxEpoch = 5
INVARIANTS SupervisorAgrees OneEpochAlive RetryBudget
PROPERTIES StopEndsControl FaultHandled
CHECK_DEADLOCK FALSE
