\* Two sites, every command and every fault.
SPECIFICATION Spec
CONSTANTS
    Site = {s1, s2}
    Address = {a1}
    Port = {p1, p2}
    Plain = plain
    Option = {plain}
    Target = {t1}
    Local = local
    NoDef = nodef
    AgeLimit = 1
    LinkCapacity = 1
    MaxEvents = 3
    Faults = {"crash", "dial", "connection", "loss", "watch"}
    CarefulOperator = FALSE
    TimelyUpdates = FALSE
SYMMETRY AllSymmetry
CHECK_DEADLOCK FALSE
INVARIANTS TypeOK Provenance NoSelfImport Tracked Ageable CoherentCaches
PROPERTIES WatchesFile
