\* A command and the controller's two writers in any order, two processes
\* killed.
SPECIFICATION Spec
CONSTANTS
    Site = {o1}
    Address = {a1, a2}
    Port = {p1}
    Plain = plain
    Option = {plain}
    Target = {t1}
    Local = local
    NoDef = nodef
    Command = {c1}
    Receiver = receiver
    Ager = ager
    Empty = empty
    Garbled = garbled
    MaxChanges = 2
    MaxKills = 2
    Paced = FALSE
SYMMETRY FileSymmetry
CHECK_DEADLOCK FALSE
PROPERTIES ImplementsStore
