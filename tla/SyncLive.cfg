\* One site creates, deletes and redefines a service that another imports; both
\* restart and lose connections and updates.
SPECIFICATION OfferingSpec
CONSTANTS
    Site = {s1, s2}
    Address = {a1}
    Port = {p1, p2}
    Plain = plain
    Option = {plain}
    Target = {}
    Local = local
    NoDef = nodef
    AgeLimit = 2
    LinkCapacity = 1
    MaxEvents = 3
    Faults = {"connection", "loss", "crash"}
    CarefulOperator = FALSE
    TimelyUpdates = TRUE
CHECK_DEADLOCK FALSE
PROPERTIES Convergence DisconnectedForgets
