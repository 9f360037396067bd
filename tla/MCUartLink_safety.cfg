CONSTANTS
    Messages <- SomeMessages
    Noise = {1, 144, 240, 247, 244}
    RxBytes = 2
    MaxSends = 3
    MaxFaults = 2
    BeginsMidDump = FALSE
SPECIFICATION Spec
CHECK_DEADLOCK FALSE
INVARIANTS
    LinkIsFaithful
    IntactArrives
    DumpIsTerminated
PROPERTIES
    EmitsFramed
