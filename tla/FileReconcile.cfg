\* A withdrawal races a command.
SPECIFICATION FairSpec
CONSTANTS
    Site = {o1}
    Address = {a1, a2}
    Port = {p1}
    Plain = plain
    Option = {plain}
    Target = {}
    Local = local
    NoDef = nodef
    Command = {c1}
    Receiver = receiver
    Ager = ager
    Empty = empty
    Garbled = garbled
    MaxChanges = 2
    MaxKills = 0
    Paced = TRUE
CHECK_DEADLOCK FALSE
PROPERTIES Reconciled
