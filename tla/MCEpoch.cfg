SPECIFICATION FairSpec
CONSTANTS
    Participants = {p1, p2}
    Capacity = 2
    Nonces = {1, 7}
    MaxEpoch = 2
    MaxRegistration = 2
    PublishesFrames = TRUE
INVARIANTS FirstFrameForced RecoversOwnFailure
PROPERTIES QuietRetire ReadyResume QuiesceCompletes
CHECK_DEADLOCK FALSE
