\* Accesses in any order: one command, two settings, two changes elsewhere.
SPECIFICATION FairSpec
CONSTANTS
    Site = {o1}
    Address = {a1}
    Port = {p1, p2}
    Plain = plain
    Option = {plain}
    Target = {t1}
    Local = local
    NoDef = nodef
    Command = {c1}
    Receiver = receiver
    Ager = ager
    Empty = empty
    Garbled = garbled
    MaxChanges = 2
    MaxKills = 1
    Paced = TRUE
CHECK_DEADLOCK FALSE
INVARIANTS ViewsCurrent
PROPERTIES Quiet
