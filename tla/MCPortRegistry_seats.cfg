CONSTANTS
    uart1 = uart1
    uart2 = uart2
    keyboard = keyboard
    cheap = cheap
    broken = broken
    twin = twin
    router = router
    sketch = sketch
    NoSerial = NoSerial
    Devices = {uart1, uart2, keyboard, cheap, broken}
    Identity <- IdentityOf
    Listeners = {router}
    Indices = {0, 2}
    MaxEndpoints = 2
    MaxPorts = 2
    MaxPortsPerEndpoint = 2
    MaxGroups = 1
    MaxListeners = 1
SPECIFICATION Spec
INVARIANTS
    RegistryIsConsistent
    SeatsAreNotShared
PROPERTIES
    SeatIsNotInherited
    ReconnectsToItsSeat
