CONSTANTS
    Uid = {u1}
    Peer = {p1}
    Given = {}
    MaxGenerated = 1
    MaxFaults = 0
    MaxTokens = 0
    Modes = {FALSE, TRUE}
    NoContainer = NoContainer
    NoFile = NoFile
    Torn = Torn
    NoUid = NoUid
    NoConnector = NoConnector
    Partial = Partial
    Setups <- EachEngine
    ImageEnv <- ImageEnvironment
    ImageCmd <- ImageCommand
    MaxOutput = 2
    PipeCapacity = 1
    WaitFor = 1
    MaxAttempts = 2
SPECIFICATION QueriesSpec
INVARIANTS QueriesTypeOK ReportedActive OutputWhole Shown
PROPERTIES FileAgrees TlsProvisioned RecreatedAlike QueryEnds
