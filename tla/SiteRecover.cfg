CONSTANTS
    Uid = {u1, u2, u3, u4}
    Peer = {p1}
    Given = {}
    MaxGenerated = 1
    MaxFaults = 2
    MaxTokens = 0
    Modes = {FALSE}
    NoContainer = NoContainer
    NoFile = NoFile
    Torn = Torn
    NoUid = NoUid
    NoConnector = NoConnector
    Partial = Partial
SPECIFICATION FairSpec
PROPERTIES Effective Recoverable
