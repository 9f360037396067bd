CONSTANTS
    wide = wide
    slim = slim
    hub = hub
    Nobody = Nobody
    Devices = {wide, slim, hub}
    Hubs = {hub}
    one = one
    two = two
    Addresses = {one, two}
    InCables <- TwoAndOne
    OutCables <- TwoAndOne
    Cables = {0, 1}
    Messages <- SomeMessages
    NumSlots = 2
    RingSize = 2
    Rooms = {5}
    MaxChanges = 3
    MaxSubmitted = 2
    MaxDelivered = 2
SPECIFICATION Spec
SYMMETRY AnyAddress
CHECK_DEADLOCK FALSE
PROPERTIES
    SendsReachOwnDevice
