CONSTANTS
    wide = wide
    slim = slim
    hub = hub
    Nobody = Nobody
    Devices = {wide, slim, hub}
    Hubs = {hub}
    one = one
    two = two
    Addresses = {one, two}
    InCables <- TwoAndOne
    OutCables <- TwoAndOne
    Cables = {0, 1}
    Messages <- MoreMessages
    NumSlots = 2
    RingSize = 2
    Rooms = {5, 6}
    MaxChanges = 3
    MaxSubmitted = 2
    MaxDelivered = 5
SPECIFICATION OneWaySpec
SYMMETRY AnyAddress
CHECK_DEADLOCK FALSE
INVARIANTS
    SeatsAgree
    DecodedForSender
    InputIsFaithful
    OutputIsFaithful
PROPERTIES
    ChunksAreFramed
