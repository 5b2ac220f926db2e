\* Two sites that offer one address and a third that imports it, restarts and
\* makes it its own; a careful operator.
SPECIFICATION ImportingSpec
CONSTANTS
    Site = {s1, s2, s3}
    Address = {a1}
    Port = {p1}
    Plain = plain
    Option = {plain}
    Target = {t1}
    Local = local
    NoDef = nodef
    AgeLimit = 1
    LinkCapacity = 1
    MaxEvents = 4
    Faults = {"crash", "connection", "watch"}
    CarefulOperator = TRUE
    TimelyUpdates = FALSE
SYMMETRY ImportingSymmetry
CHECK_DEADLOCK FALSE
INVARIANTS TrackedOnce
PROPERTIES KnownLocalPreserved
