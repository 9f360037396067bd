CONSTANTS
    keys = keys
    pad = pad
    synth = synth
    expander = expander
    appIn = appIn
    appOut = appOut
    group = group
    NoPort = NoPort
    All = All
    InPorts = {keys, pad}
    OutPorts = {synth}
    Endpoint <- OneEach
    Endpoints <- EndpointsOf
    Unpluggable = {synth}
    Refusing = {}
    Lossy = FALSE
    InitialRoutes <- TwoToOne
    MaxRoutes = 2
    Entries = 2
    MaxChanges = 0
    Rules <- OnlyTransparent
    InGroups = {}
    OutGroups = {}
SPECIFICATION Spec
INVARIANTS
    ClaimedByAStream
