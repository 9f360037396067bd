CONSTANTS
    piano = piano
    pads = pads
    Nobody = Nobody
    Devices = {piano, pads}
    one = one
    two = two
    Ids = {one, two}
    Messages <- SomeMessages
    Capacity = 4
    NumSlots = 2
    RingSize = 3
    Rooms = {1, 4}
    MaxChanges = 3
    MaxMessages = 2
SPECIFICATION FairSpec
CHECK_DEADLOCK FALSE
INVARIANTS
    MessagesFromSender
    SeatsAgree
    DumpsArriveWhole
PROPERTIES
    PublishedIsHeard
    SeatsConverge
