CONSTANTS
    Capacity = 4
    MaxPhones = 2
    MaxSent = 4
    Cables = {0, 1, 2}
    InPortCount = 2
    OutPortCount = 2
    FifoSize = 2
    PacketsPerUpdate = 2
    MaxMounts = 2
    MaxMessages = 3
    MaxCalls = 3
SPECIFICATION FairSpec
CHECK_DEADLOCK FALSE
INVARIANTS
    PhoneGetsWholeDumps
    HostStreamsAreFaithful
PROPERTIES
    EndpointFollows
