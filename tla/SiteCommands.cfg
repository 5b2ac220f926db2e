CONSTANTS
    Uid = {u1, u2, u3, u4}
    Peer = {p1}
    Given = {east}
    MaxGenerated = 2
    MaxFaults = 1
    MaxTokens = 1
    Modes = {FALSE}
    NoContainer = NoContainer
    NoFile = NoFile
    Torn = Torn
    NoUid = NoUid
    NoConnector = NoConnector
    Partial = Partial
SYMMETRY Symmetry
SPECIFICATION Spec
INVARIANTS TypeOK Provisioned OneSite
