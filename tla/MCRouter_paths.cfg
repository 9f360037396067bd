CONSTANTS
    keys = keys
    pad = pad
    synth = synth
    expander = expander
    appIn = appIn
    appOut = appOut
    group = group
    NoPort = NoPort
    All = All
    InPorts = {pad, appIn}
    OutPorts = {synth, appOut}
    Endpoint <- OneEach
    Endpoints <- EndpointsOf
    Unpluggable = {}
    Refusing = {}
    Lossy = FALSE
    InitialRoutes <- GroupToAll
    MaxRoutes = 2
    Entries = 2
    MaxChanges = 2
    Rules <- SomeRules
    InGroups = {group}
    OutGroups = {}
SPECIFICATION Spec
INVARIANTS
    ClaimedByAStream
    PathIsFixed
