---------------------------- MODULE ServiceDefs ----------------------------
(***************************************************************************)
(* Service definitions and the pure part of what the CLI commands          *)
(* (client/serviceinterface_*.go, cmd/skupper-exp/main.go) and the service *)
(* controller (cmd/service-controller) do to them.                         *)
(*                                                                         *)
(* A definition is types.ServiceInterface.  Address is the key of every    *)
(* map.  Protocol, Port and Headless travel together and are compared      *)
(* together, so one member of Port stands for the three; EventChannel and  *)
(* Aggregate are one member of Option, Plain when neither is set.          *)
(***************************************************************************)
CONSTANTS
    Site,      \* the sites of the network; a site's name is its origin
    Address,   \* service addresses
    Port,      \* protocol, port and headless settings
    Option,    \* event-channel and aggregate settings
    Plain,     \* the option of a service without either setting
    Target,    \* the containers a service can be bound to
    Local,     \* the origin of a service defined here: "" or "annotation"
    NoDef      \* what a map holds for an address that is not one of its keys

ASSUME PlainAssumption == Plain \in Option
ASSUME LocalAssumption == Local \notin Site

Definition == [port : Port, option : Option, targets : SUBSET Target,
               origin : Site \cup {Local}]

ASSUME NoDefAssumption == NoDef \notin Definition

(* A Go map from address to definition. *)
Registry == [Address -> Definition \cup {NoDef}]

EmptyRegistry == [a \in Address |-> NoDef]

Names(defs) == {a \in Address : defs[a] # NoDef}

IsLocal(d) == d # NoDef /\ d.origin = Local

ComesFrom(d, o) == d # NoDef /\ d.origin = o

LocalNames(defs) == {a \in Address : IsLocal(defs[a])}

-----------------------------------------------------------------------------
(* The controller's view of the file. *)

(* The copy serviceSyncDefinitionsUpdated makes of a definition: the       *)
(* targets and the two options are not copied.                             *)
Strip(d) == IF d = NoDef THEN NoDef
            ELSE [d EXCEPT !.option = Plain, !.targets = {}]

AllByName(defs) == [a \in Address |-> Strip(defs[a])]

(* Mutant: the test of the origin is forgotten. *)
LatestOfAnyOrigin(defs) == AllByName(defs)

Latest(defs) == [a \in Address |-> IF IsLocal(defs[a]) THEN Strip(defs[a])
                                   ELSE NoDef]

(* pareByOrigin leaves after the first origin it finds that tracks the     *)
(* address, and a Go map is walked in any order: pick[a] is the origin     *)
(* found for a.                                                            *)
Picks(tracked) ==
    {pick \in [Address -> Site] :
        \A a \in Address : (\E o \in Site : a \in tracked[o])
                              => a \in tracked[pick[a]]}

(* Mutant: pareByOrigin is not called. *)
TrackedNeverPared(tracked, defs, pick) ==
    [o \in Site |-> tracked[o] \cup {a \in Address : ComesFrom(defs[a], o)}]

(* What byOrigin becomes when the definitions in the file are processed:   *)
(* imported names are added (and never dropped because the file lost       *)
(* them), local names are pared.                                           *)
TrackedAfter(tracked, defs, pick) ==
    [o \in Site |-> {a \in tracked[o] : ~(IsLocal(defs[a]) /\ pick[a] = o)}
                      \cup {a \in Address : ComesFrom(defs[a], o)}]

-----------------------------------------------------------------------------
(* An update from another site. *)

(* Mutant: a test of which kind of service it is, and not of its settings. *)
EquivalentOrigins(d, e) == d.origin = e.origin

EquivalentServiceDefinition(d, e) == d.port = e.port /\ d.option = e.option

(* The receiver indexes the update by address and stamps the sender on it. *)
Indexed(advert, o) ==
    [a \in Address |-> IF advert[a] = NoDef THEN NoDef
                       ELSE [advert[a] EXCEPT !.origin = o]]

(* Mutant: an imported definition changes when it differs in anything, its *)
(* origin included.                                                        *)
ChangedByAnyone(known, o, update) ==
    {a \in Names(update) :
        \/ known[a] = NoDef
        \/ ~IsLocal(known[a]) /\ known[a] # update[a]}

(* Mutant: equivalence is not tested. *)
ChangedEveryTime(known, o, update) ==
    {a \in Names(update) : known[a] = NoDef \/ known[a].origin = o}

Changed(known, o, update) ==
    {a \in Names(update) :
        \/ known[a] = NoDef
        \/ /\ known[a].origin = o
           /\ ~EquivalentServiceDefinition(update[a], known[a])}

Deleted(tracked, update) == tracked \ Names(update)

(* updateSkupperServices: changed first, then deleted. *)
UpdateSkupperServices(current, changed, update, deleted) ==
    [a \in Address |-> IF a \in deleted THEN NoDef
                       ELSE IF a \in changed THEN update[a]
                       ELSE current[a]]

-----------------------------------------------------------------------------
(* The CLI's changes to the file. *)

UpdateServiceInterface(current, a, service, overwriteIfExists) ==
    IF overwriteIfExists \/ current[a] = NoDef
    THEN [current EXCEPT ![a] = [service EXCEPT !.origin = Local]]
    ELSE current

NewService(p, opt) ==
    [port |-> p, option |-> opt, targets |-> {}, origin |-> Local]

AddTarget(service, t) == [service EXCEPT !.targets = @ \cup {t}]

(* Taking a target away deletes the definition when it was the last one    *)
(* and the command is unexpose; unbind keeps it.                           *)
RemoveTarget(current, a, t, deleteIfNoTargets) ==
    LET left == current[a].targets \ {t} IN
    [current EXCEPT ![a] = IF left = {} /\ deleteIfNoTargets THEN NoDef
                           ELSE [@ EXCEPT !.targets = left]]
=============================================================================
