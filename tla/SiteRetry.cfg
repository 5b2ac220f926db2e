CONSTANTS
    Uid = {u1, u2, u3}
    Peer = {p1}
    Given = {}
    MaxGenerated = 1
    MaxFaults = 1
    MaxTokens = 0
    Modes = {FALSE}
    NoContainer = NoContainer
    NoFile = NoFile
    Torn = Torn
    NoUid = NoUid
    NoConnector = NoConnector
    Partial = Partial
SPECIFICATION RetrySpec
PROPERTY DeleteFinishes
