CONSTANTS
    WireMax = 127
    NormMax = 32767
    NumChannels = 16
    ClockRange = 16
    DebounceMs = 4
    BootMs = {0, 12}
    MaxGap = 6
    MaxTime = 36
    RawRange = 64
    MaxMoves = 2
    MaxTurns = 4
    MicrosRange = 128
    MaxCatchUp = 3
    CountRange = 128
    BootMicros = {0, 127}
    Periods = {0, 2, 3}
    MaxLate = 10
    MaxMicros = 40
    MaxCommands = 3
    Quarter = 3
    Period = 5
    Jitter = 3
    MaxPeriods = 12
    MaxTransport = 2
    Stages <- SomeStages
    Played <- Keyboard
    Configs <- SomeConfigs
    Readings <- SomeReadings
    Modes <- AllModes
    Steps <- SomeSteps
    Turns <- SomeTurns
SPECIFICATION Spec
CHECK_DEADLOCK FALSE
PROPERTIES
    WanderIsIgnored
