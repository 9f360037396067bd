CONSTANTS
    sketch = sketch
    usb = usb
    ble = ble
    Tasks = {sketch, usb, ble}
    Sketch = sketch
    Entries = 2
    IndexModulus = 16
    StartIndex = 14
    MaxPieces = 2
    MaxCalls = 1
SPECIFICATION EitherSpec
INVARIANTS
    SlotsExclusive
    ResultIsTruthful
    IInv
PROPERTIES
    EveryUpdateReturns
    ImplementsQueue
    EnteredIsDispatched
