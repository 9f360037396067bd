CONSTANTS
    keys = keys
    pad = pad
    synth = synth
    expander = expander
    appIn = appIn
    appOut = appOut
    group = group
    NoPort = NoPort
    All = All
    InPorts = {keys, pad}
    OutPorts = {synth, expander}
    Endpoint <- OneEach
    Endpoints <- EndpointsOf
    Unpluggable = {keys, synth}
    Refusing = {synth}
    Lossy = TRUE
    InitialRoutes <- FanOut
    MaxRoutes = 2
    Entries = 1
    MaxChanges = 0
    Rules <- OnlyTransparent
    InGroups = {}
    OutGroups = {}
SPECIFICATION FairSpec
INVARIANTS
    NothingInsideAStream
    NoRestWithoutStart
PROPERTIES
    OnlyContinuationsVanish
    MarkedStreamIsClosed
