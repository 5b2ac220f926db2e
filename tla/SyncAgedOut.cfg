\* An imported definition deleted by the operator, then imported from another.
SPECIFICATION RunningSpec
CONSTANTS
    Site = {s1, s2, s3}
    Address = {a1}
    Port = {p1}
    Plain = plain
    Option = {plain}
    Target = {}
    Local = local
    NoDef = nodef
    AgeLimit = 1
    LinkCapacity = 1
    MaxEvents = 3
    Faults = {}
    CarefulOperator = FALSE
    TimelyUpdates = FALSE
SYMMETRY SiteSymmetry
CHECK_DEADLOCK FALSE
PROPERTIES AgedOutOwn
