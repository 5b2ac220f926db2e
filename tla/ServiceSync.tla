---------------------------- MODULE ServiceSync ----------------------------
(***************************************************************************)
(* Service synchronisation between sites.  Every site keeps its service    *)
(* definitions in one file, skupper-services.  The operator's commands     *)
(* (client/serviceinterface_*.go) and the site's service controller        *)
(* (cmd/service-controller) both rewrite it.  The controller watches the   *)
(* file, multicasts the local definitions every few seconds, installs the  *)
(* definitions of the other sites in its own file, and takes them out      *)
(* again when their site withdraws them or has been silent for a minute.   *)
(*                                                                         *)
(* Here a handler or a command is one step.  The interleavings inside a    *)
(* handler (read, truncate, write; the controller's three goroutines) are  *)
(* another module's subject.                                               *)
(***************************************************************************)
EXTENDS ServiceDefs, Integers, Sequences

CONSTANTS
    AgeLimit,         \* units of time in the minute after which a silent
                      \* site is forgotten
    LinkCapacity,     \* updates on their way to one site at once
    MaxEvents,        \* bound on commands and faults in a behaviour
    Faults,           \* the kinds of fault that may happen
    CarefulOperator,  \* commands wait for the controller to catch up, and
                      \* delete only definitions of this site
    TimelyUpdates     \* an update of every connected site arrives in every
                      \* unit of time

FaultKinds == {"crash", "dial", "connection", "loss", "watch"}

ASSUME AgeLimitAssumption == AgeLimit \in Nat \ {0}
ASSUME LinkCapacityAssumption == LinkCapacity \in Nat \ {0}
ASSUME MaxEventsAssumption == MaxEvents \in Nat
ASSUME FaultsAssumption == Faults \subseteq FaultKinds
ASSUME NoFileAssumption == NoDef \notin Registry

Never == -1                       \* no entry in heardFrom
Age == {Never} \cup (0..AgeLimit)

VARIABLES
    file,           \* file[s]: the contents of skupper-services
    pending,        \* pending[s]: a Write event of the file is not handled yet
    watcher,        \* watcher[s]: how far runServiceDefsWatcher is
    sync,           \* sync[s]: how far runServiceSync is
    byOrigin,       \* byOrigin[s][o]: addresses s believes o defines
    byName,         \* byName[s]: the file as it was last processed
    localServices,  \* localServices[s]: its local definitions
    heardFrom,      \* heardFrom[s][o]: age of the latest update of o at s
    bindings,       \* bindings[s]: what each address is bound to
    attached,       \* attached[s]: targets on the skupper network
    inbox,          \* inbox[s]: updates on the receiver link of s, in order
    everLocal,      \* everLocal[s]: the definitions that were ever local at s,
                    \* kept only to state Provenance
    events          \* commands and faults so far

ctlVars == <<byOrigin, byName, localServices, heardFrom, bindings>>
vars == <<file, pending, watcher, sync, ctlVars, attached, inbox, everLocal,
          events>>

WatcherState == {"stopped", "starting", "added", "watching", "deaf"}
SyncState == {"stopped", "dialing", "up", "lost", "failed"}

(* The message: the sender's name and its local definitions. *)
Update == [origin : Site, services : Registry]

TypeOK ==
    /\ file \in [Site -> Registry]
    /\ pending \in [Site -> BOOLEAN]
    /\ watcher \in [Site -> WatcherState]
    /\ sync \in [Site -> SyncState]
    /\ byOrigin \in [Site -> [Site -> SUBSET Address]]
    /\ byName \in [Site -> Registry]
    /\ localServices \in [Site -> Registry]
    /\ heardFrom \in [Site -> [Site -> Age]]
    /\ bindings \in [Site -> Registry]
    /\ attached \in [Site -> SUBSET Target]
    /\ inbox \in [Site -> Seq(Update)]
    /\ everLocal \in [Site -> SUBSET (Address \X Port)]
    /\ events \in 0..MaxEvents

-----------------------------------------------------------------------------
NothingTracked == [o \in Site |-> {}]
NothingHeard == [o \in Site |-> Never]

(* Every site after `init`: an empty file, the controller just started.    *)
Init ==
    /\ file = [s \in Site |-> EmptyRegistry]
    /\ pending = [s \in Site |-> FALSE]
    /\ watcher = [s \in Site |-> "starting"]
    /\ sync = [s \in Site |-> "dialing"]
    /\ byOrigin = [s \in Site |-> NothingTracked]
    /\ byName = [s \in Site |-> EmptyRegistry]
    /\ localServices = [s \in Site |-> EmptyRegistry]
    /\ heardFrom = [s \in Site |-> NothingHeard]
    /\ bindings = [s \in Site |-> EmptyRegistry]
    /\ attached = [s \in Site |-> {}]
    /\ inbox = [s \in Site |-> <<>>]
    /\ everLocal = [s \in Site |-> {}]
    /\ events = 0

(* Mutant: the file is replaced by renaming another, which is no Write     *)
(* event.                                                                  *)
ReplaceFile(s, defs) ==
    /\ file' = [file EXCEPT ![s] = defs]
    /\ UNCHANGED pending

(* Rewriting the file, with other contents or the same, is a Write event   *)
(* once the watch is added; events that are not handled yet coalesce.      *)
WriteFile(s, defs) ==
    /\ file' = [file EXCEPT ![s] = defs]
    /\ pending' = [pending EXCEPT ![s] = watcher[s] \in {"added", "watching"}]

CaughtUp(s) == watcher[s] = "watching" /\ ~pending[s]

-----------------------------------------------------------------------------
(* The operator's commands. *)

Event == events < MaxEvents /\ events' = events + 1

Offers(defs) == {<<a, defs[a].port>> : a \in LocalNames(defs)}

Command(s, defs) ==
    /\ Event
    /\ CarefulOperator => CaughtUp(s)
    /\ WriteFile(s, defs)
    /\ everLocal' = [everLocal EXCEPT ![s] = @ \cup Offers(defs)]
    /\ UNCHANGED <<watcher, sync, ctlVars, attached, inbox>>

(* `service create`: leaves an existing definition alone. *)
Create(s, a, p, opt) ==
    Command(s, UpdateServiceInterface(file[s], a, NewService(p, opt), FALSE))

(* `bind`, and `expose` of an address that is defined: the definition,     *)
(* imported or not, becomes a local one with one more target.              *)
Bind(s, a, t) ==
    /\ file[s][a] # NoDef
    /\ Command(s, UpdateServiceInterface(file[s], a,
                                         AddTarget(file[s][a], t), TRUE))

(* `expose` of an address that is not defined. *)
Expose(s, a, p, t) ==
    /\ file[s][a] = NoDef
    /\ Command(s, UpdateServiceInterface(file[s], a,
                                         AddTarget(NewService(p, Plain), t),
                                         TRUE))

(* `service delete` *)
Remove(s, a) ==
    /\ file[s][a] # NoDef
    /\ CarefulOperator => IsLocal(file[s][a])
    /\ Command(s, [file[s] EXCEPT ![a] = NoDef])

(* `unexpose` deletes the definition with its last target, `unbind` not. *)
Unbind(s, a, t, deleteIfNoTargets) ==
    /\ file[s][a] # NoDef
    /\ t \in file[s][a].targets
    /\ Command(s, RemoveTarget(file[s], a, t, deleteIfNoTargets))

-----------------------------------------------------------------------------
(* The controller's watcher. *)

(* processServiceDefs: the maps of service sync, the bindings, and the     *)
(* targets of local services, each of which is put on the skupper network  *)
(* unless the container engine refuses.                                    *)
ProcessServiceDefs(s) ==
    /\ \E pick \in Picks(byOrigin[s]) :
          byOrigin' = [byOrigin EXCEPT
                         ![s] = TrackedAfter(@, file[s], pick)]
    /\ byName' = [byName EXCEPT ![s] = AllByName(file[s])]
    /\ localServices' = [localServices EXCEPT ![s] = Latest(file[s])]
    /\ bindings' = [bindings EXCEPT ![s] = file[s]]
    /\ \E refused \in SUBSET Target :
          attached' = [attached EXCEPT
            ![s] = @ \cup (UNION {file[s][a].targets :
                                    a \in LocalNames(file[s])} \ refused)]

AddWatch(s) ==
    /\ watcher[s] = "starting"
    /\ watcher' = [watcher EXCEPT ![s] = "added"]
    /\ UNCHANGED <<file, pending, sync, ctlVars, attached, inbox, everLocal,
                   events>>

(* The file cannot be watched: runServiceDefsWatcher returns, and the rest *)
(* of the controller goes on without the definitions of its own site.      *)
AddWatchFails(s) ==
    /\ "watch" \in Faults
    /\ Event
    /\ watcher[s] = "starting"
    /\ watcher' = [watcher EXCEPT ![s] = "deaf"]
    /\ UNCHANGED <<file, pending, sync, ctlVars, attached, inbox, everLocal>>

(* Mutant: the first pass starts no clocks. *)
InitialProcessWithoutClocks(s) ==
    /\ watcher[s] = "added"
    /\ watcher' = [watcher EXCEPT ![s] = "watching"]
    /\ ProcessServiceDefs(s)
    /\ UNCHANGED <<file, pending, sync, heardFrom, inbox, everLocal, events>>

(* The first pass, before the watch loop: the clock of every origin in the *)
(* file starts now.                                                        *)
InitialProcess(s) ==
    /\ watcher[s] = "added"
    /\ watcher' = [watcher EXCEPT ![s] = "watching"]
    /\ ProcessServiceDefs(s)
    /\ heardFrom' = [heardFrom EXCEPT
          ![s] = [o \in Site |-> IF o # s /\ byOrigin'[s][o] # {} THEN 0
                                 ELSE @[o]]]
    /\ UNCHANGED <<file, pending, sync, inbox, everLocal, events>>

HandleWriteEvent(s) ==
    /\ watcher[s] = "watching"
    /\ pending[s]
    /\ pending' = [pending EXCEPT ![s] = FALSE]
    /\ ProcessServiceDefs(s)
    /\ UNCHANGED <<file, watcher, sync, heardFrom, inbox, everLocal, events>>

-----------------------------------------------------------------------------
(* The controller's connection to the router. *)

Dial(s) ==
    /\ sync[s] = "dialing"
    /\ sync' = [sync EXCEPT ![s] = "up"]
    /\ UNCHANGED <<file, pending, watcher, ctlVars, attached, inbox, everLocal,
                   events>>

(* The router does not answer: runServiceSync returns and is not restarted.*)
DialFails(s) ==
    /\ "dial" \in Faults
    /\ Event
    /\ sync[s] = "dialing"
    /\ sync' = [sync EXCEPT ![s] = "failed"]
    /\ UNCHANGED <<file, pending, watcher, ctlVars, attached, inbox, everLocal>>

(* The connection breaks: runServiceSync returns; syncSender stays, its    *)
(* sends fail, and it goes on ageing.                                      *)
LoseConnection(s) ==
    /\ "connection" \in Faults
    /\ Event
    /\ sync[s] = "up"
    /\ sync' = [sync EXCEPT ![s] = "lost"]
    /\ inbox' = [inbox EXCEPT ![s] = <<>>]
    /\ UNCHANGED <<file, pending, watcher, ctlVars, attached, everLocal>>

HasRoom(s) == sync[s] = "up" /\ Len(inbox[s]) < LinkCapacity

(* Mutant: the controller is started without its SKUPPER_SITE_ID. *)
SendAnonymously(o) ==
    /\ sync[o] = "up"
    /\ inbox' = [s \in Site |->
                   IF HasRoom(s)
                   THEN Append(inbox[s], [origin |-> Local,
                                          services |-> localServices[o]])
                   ELSE inbox[s]]
    /\ UNCHANGED <<file, pending, watcher, sync, ctlVars, attached, everLocal,
                   events>>

(* tickerSend: the local definitions go to every connected site, the       *)
(* sender's own included; a site whose link is full misses this one.       *)
SendUpdate(o) ==
    /\ sync[o] = "up"
    /\ inbox' = [s \in Site |->
                   IF HasRoom(s)
                   THEN Append(inbox[s],
                               [origin |-> o, services |-> localServices[o]])
                   ELSE inbox[s]]
    /\ UNCHANGED <<file, pending, watcher, sync, ctlVars, attached, everLocal,
                   events>>

(* The routers drop an update. *)
LoseUpdate(s) ==
    /\ "loss" \in Faults
    /\ inbox[s] # <<>>
    /\ inbox' = [inbox EXCEPT ![s] = Tail(@)]
    /\ UNCHANGED <<file, pending, watcher, sync, ctlVars, attached, everLocal,
                   events>>

(* Mutant: byOrigin[origin] is made anew by every update. *)
EnsureWithNewMap(s, o, update) ==
    LET changed == Changed(byName[s], o, update)
        deleted == Deleted(byOrigin[s][o], update)
    IN /\ heardFrom' = [heardFrom EXCEPT ![s][o] = 0]
       /\ byOrigin' = [byOrigin EXCEPT ![s][o] = {}]
       /\ IF changed = {} /\ deleted = {}
          THEN UNCHANGED <<file, pending>>
          ELSE WriteFile(s, UpdateSkupperServices(file[s], changed, update,
                                                  deleted))

EnsureServiceInterfaceDefinitions(s, o, update) ==
    LET changed == Changed(byName[s], o, update)
        deleted == Deleted(byOrigin[s][o], update)
    IN /\ heardFrom' = [heardFrom EXCEPT ![s][o] = 0]
       /\ byOrigin' = [byOrigin EXCEPT ![s][o] = @ \ deleted]
       /\ IF changed = {} /\ deleted = {}
          THEN UNCHANGED <<file, pending>>
          ELSE WriteFile(s, UpdateSkupperServices(file[s], changed, update,
                                                  deleted))

(* Mutant: the receiver does not compare the origin with its own. *)
ReceiveOwn(s, o) ==
    /\ sync[s] = "up"
    /\ inbox[s] # <<>>
    /\ Head(inbox[s]).origin = o
    /\ inbox' = [inbox EXCEPT ![s] = Tail(@)]
    /\ EnsureServiceInterfaceDefinitions(
          s, o, Indexed(Head(inbox[s]).services, o))
    /\ UNCHANGED <<watcher, sync, byName, localServices, bindings, attached,
                   everLocal, events>>

(* Mutant: the receiver enters what it wrote into byName itself. *)
ReceiveAndEnter(s, o) ==
    /\ sync[s] = "up"
    /\ inbox[s] # <<>>
    /\ Head(inbox[s]).origin = o
    /\ inbox' = [inbox EXCEPT ![s] = Tail(@)]
    /\ IF o = s THEN UNCHANGED <<file, pending, byOrigin, heardFrom>>
       ELSE EnsureServiceInterfaceDefinitions(
               s, o, Indexed(Head(inbox[s]).services, o))
    /\ byName' = [byName EXCEPT ![s] = AllByName(file'[s])]
    /\ UNCHANGED <<watcher, sync, localServices, bindings, attached, everLocal,
                   events>>

(* The next update is taken off the link; one from the site itself is      *)
(* ignored.                                                                *)
Receive(s, o) ==
    /\ sync[s] = "up"
    /\ inbox[s] # <<>>
    /\ Head(inbox[s]).origin = o
    /\ inbox' = [inbox EXCEPT ![s] = Tail(@)]
    /\ IF o = s THEN UNCHANGED <<file, pending, byOrigin, heardFrom>>
       ELSE EnsureServiceInterfaceDefinitions(
               s, o, Indexed(Head(inbox[s]).services, o))
    /\ UNCHANGED <<watcher, sync, byName, localServices, bindings, attached,
                   everLocal, events>>

-----------------------------------------------------------------------------
(* Ageing. *)

(* A unit of time passes.  It is much longer than the watcher takes.  An   *)
(* origin the controller never heard of has no clock to advance.           *)
Elapse(s) ==
    /\ sync[s] # "stopped"
    /\ CaughtUp(s) \/ watcher[s] = "deaf"
    /\ \E o \in Site : heardFrom[s][o] \in 0..(AgeLimit - 1)
    /\ TimelyUpdates => \A o \in Site \ {s} :
                           sync[s] = "up" /\ sync[o] = "up"
                             => heardFrom[s][o] = 0
    /\ heardFrom' = [heardFrom EXCEPT
          ![s] = [o \in Site |-> IF @[o] \in 0..(AgeLimit - 1) THEN @[o] + 1
                                 ELSE @[o]]]
    /\ UNCHANGED <<file, pending, watcher, sync, byOrigin, byName,
                   localServices, bindings, attached, inbox, everLocal, events>>

Aged(s) == {o \in Site : heardFrom[s][o] = AgeLimit}

(* Mutant: the sender stops with the connection. *)
AgeTickWhileUp(s) ==
    LET deleted == UNION {byOrigin[s][o] : o \in Aged(s)} IN
    /\ sync[s] = "up"
    /\ Aged(s) # {}
    /\ IF deleted = {} THEN UNCHANGED <<file, pending>>
       ELSE WriteFile(s, UpdateSkupperServices(file[s], {}, EmptyRegistry,
                                               deleted))
    /\ heardFrom' = [heardFrom EXCEPT
          ![s] = [o \in Site |-> IF o \in Aged(s) THEN Never ELSE @[o]]]
    /\ byOrigin' = [byOrigin EXCEPT
          ![s] = [o \in Site |-> IF o \in Aged(s) THEN {} ELSE @[o]]]
    /\ UNCHANGED <<watcher, sync, byName, localServices, bindings, attached,
                   inbox, everLocal, events>>

(* tickerAge: what the aged origins are believed to define is taken out of *)
(* the file, whoever defines it now, and the origins are forgotten.        *)
AgeTick(s) ==
    LET deleted == UNION {byOrigin[s][o] : o \in Aged(s)} IN
    /\ sync[s] \in {"up", "lost"}
    /\ Aged(s) # {}
    /\ IF deleted = {} THEN UNCHANGED <<file, pending>>
       ELSE WriteFile(s, UpdateSkupperServices(file[s], {}, EmptyRegistry,
                                               deleted))
    /\ heardFrom' = [heardFrom EXCEPT
          ![s] = [o \in Site |-> IF o \in Aged(s) THEN Never ELSE @[o]]]
    /\ byOrigin' = [byOrigin EXCEPT
          ![s] = [o \in Site |-> IF o \in Aged(s) THEN {} ELSE @[o]]]
    /\ UNCHANGED <<watcher, sync, byName, localServices, bindings, attached,
                   inbox, everLocal, events>>

-----------------------------------------------------------------------------
(* The controller's container stops, by a crash or for a reconfiguration,  *)
(* and is started again; only the file and the network survive.            *)

Stop(s) ==
    /\ "crash" \in Faults
    /\ Event
    /\ watcher[s] # "stopped"
    /\ watcher' = [watcher EXCEPT ![s] = "stopped"]
    /\ sync' = [sync EXCEPT ![s] = "stopped"]
    /\ pending' = [pending EXCEPT ![s] = FALSE]
    /\ byOrigin' = [byOrigin EXCEPT ![s] = NothingTracked]
    /\ byName' = [byName EXCEPT ![s] = EmptyRegistry]
    /\ localServices' = [localServices EXCEPT ![s] = EmptyRegistry]
    /\ heardFrom' = [heardFrom EXCEPT ![s] = NothingHeard]
    /\ bindings' = [bindings EXCEPT ![s] = EmptyRegistry]
    /\ inbox' = [inbox EXCEPT ![s] = <<>>]
    /\ UNCHANGED <<file, attached, everLocal>>

Start(s) ==
    /\ watcher[s] = "stopped"
    /\ watcher' = [watcher EXCEPT ![s] = "starting"]
    /\ sync' = [sync EXCEPT ![s] = "dialing"]
    /\ UNCHANGED <<file, pending, ctlVars, attached, inbox, everLocal, events>>

-----------------------------------------------------------------------------
Operator(s) ==
    \E a \in Address :
       \/ \E p \in Port, opt \in Option : Create(s, a, p, opt)
       \/ \E t \in Target : Bind(s, a, t)
       \/ \E p \in Port, t \in Target : Expose(s, a, p, t)
       \/ Remove(s, a)
       \/ \E t \in Target, d \in BOOLEAN : Unbind(s, a, t, d)

Watch(s) == AddWatch(s) \/ InitialProcess(s) \/ HandleWriteEvent(s)

Exchange(s) ==
    \/ Dial(s)
    \/ SendUpdate(s)
    \/ \E o \in Site : Receive(s, o)
    \/ Elapse(s)
    \/ AgeTick(s)

Fault(s) ==
    \/ AddWatchFails(s)
    \/ DialFails(s)
    \/ LoseConnection(s)
    \/ LoseUpdate(s)
    \/ Stop(s)
    \/ Start(s)

Next == \E s \in Site : Operator(s) \/ Watch(s) \/ Exchange(s) \/ Fault(s)

Spec == Init /\ [][Next]_vars

(* The goroutines run, the tickers fire and time passes; of the updates    *)
(* that a site keeps sending some find room at each other site, and some   *)
(* of those arrive.  Nothing makes a command, a fault or a restart happen. *)
Fairness ==
    \A s \in Site :
       /\ WF_vars(Watch(s))
       /\ WF_vars(Dial(s))
       /\ \A o \in Site : /\ SF_vars(SendUpdate(o) /\ HasRoom(s))
                          /\ SF_vars(Receive(s, o))
       /\ WF_vars(Elapse(s))
       /\ WF_vars(AgeTick(s))

FairSpec == Spec /\ Fairness

-----------------------------------------------------------------------------
(* Safety. *)

(* A definition a site holds as coming from o was a local definition of o  *)
(* once, with the same settings: sites do not pass on what they imported   *)
(* and do not make services up (serviceSyncDefinitionsUpdated keeps        *)
(* imported definitions out of localServices).                             *)
Provenance ==
    \A s, o \in Site : \A a \in Address :
       ComesFrom(file[s][a], o) => <<a, file[s][a].port>> \in everLocal[o]

(* No site imports from itself: the update a site multicasts comes back to *)
(* it, and would bring a service back that was deleted in the meantime, if *)
(* the receiver did not compare origins.                                   *)
NoSelfImport == \A s \in Site : \A a \in Address : ~ComesFrom(file[s][a], s)

(* Once no Write event is waiting, the controller's three views are those  *)
(* of the file: no change of the file is missed, however the commands, the *)
(* receiver and the ager interleave with the watcher and its start.        *)
CoherentCaches ==
    \A s \in Site : CaughtUp(s) =>
       /\ byName[s] = AllByName(file[s])
       /\ localServices[s] = Latest(file[s])
       /\ bindings[s] = file[s]

(* Once no Write event is waiting, every imported definition is tracked    *)
(* under its origin: neither a withdrawal nor ageing can miss it.          *)
Tracked ==
    \A s, o \in Site : \A a \in Address :
       CaughtUp(s) /\ ComesFrom(file[s][a], o) => a \in byOrigin[s][o]

(* Every origin something is tracked under has a clock in heardFrom: an    *)
(* origin without one is skipped by the age tick and its definitions stay  *)
(* for ever.                                                               *)
Ageable ==
    \A s, o \in Site :
       watcher[s] = "watching" /\ byOrigin[s][o] # {}
         => heardFrom[s][o] # Never

(* With a careful operator an address is tracked under one origin only, so *)
(* that it does not matter which one pareByOrigin finds.                   *)
TrackedOnce ==
    \A s, o, q \in Site :
       o # q => byOrigin[s][o] \cap byOrigin[s][q] = {}

(* With a careful operator no step but a command touches a local           *)
(* definition the controller has seen: neither an update that offers,      *)
(* changes or withdraws the same address, nor ageing.  A careless one who  *)
(* deletes an import that another site offers as well leaves the address   *)
(* tracked under two origins; `bind` makes it local and pares one of them  *)
(* (service_sync.go:21-28), and the other's silence deletes it.            *)
KnownLocalPreserved ==
    [][\A s \in Site : \A a \in Address :
          /\ IsLocal(byName[s][a])
          /\ IsLocal(file[s][a])
          /\ UNCHANGED events
          => file'[s][a] = file[s][a]]_vars

-----------------------------------------------------------------------------
(* What a controller's watcher promises: each of its passes takes up the   *)
(* file in all three maps it is read from.  The bindings stand for what    *)
(* they follow of the definitions, ServiceBindings!Followed.               *)
Views(defs) == [byName |-> AllByName(defs), localServices |-> Latest(defs),
                bindings |-> defs]

SiteWatch(s) ==
    INSTANCE ServiceWatch WITH
        Content <- Registry,
        Torn <- NoDef,
        Nothing <- [byName |-> EmptyRegistry, localServices |-> EmptyRegistry,
                    bindings |-> EmptyRegistry],
        Meaning <- Views,
        file <- file[s],
        watching <- watcher[s] \in {"added", "watching"},
        due <- watcher[s] = "added" \/ pending[s],
        view <- [byName |-> byName[s], localServices |-> localServices[s],
                 bindings |-> bindings[s]]

(* Beside the commands, the receiver and the age tick, and whatever the    *)
(* order of their writes and its restarts, each site's watcher is the one  *)
(* that ControllerRun shows the controller's process to implement: a write *)
(* is followed by a pass, a pass takes up the file as it is, nothing else  *)
(* touches what it took up (controller.go:260-318, service_sync.go:30-82). *)
WatchesFile ==
    /\ \A s \in Site : SiteWatch(s)!WatchInit
    /\ [][\A s \in Site :
             [SiteWatch(s)!WatchNext]_(SiteWatch(s)!watchVars)]_vars

-----------------------------------------------------------------------------
(* Liveness. *)

Serving(s) == sync[s] = "up" /\ watcher[s] = "watching"

Agreement ==
    \A s \in Site : \A a \in Address : Serving(s) =>
       /\ \A o \in Site : ComesFrom(file[s][a], o) =>
             Serving(o) /\ IsLocal(file[o][a])
                        /\ file[o][a].port = file[s][a].port
       /\ (\E o \in Site : Serving(o) /\ IsLocal(file[o][a]))
             => file[s][a] # NoDef

(* When commands and faults have stopped, the sites that are connected     *)
(* come to agree and stay so: each has every service some of them defines, *)
(* with its settings, and nothing else but its own.                        *)
Convergence == <>[]Agreement

(* A site that lost its connection forgets what it imported: syncSender    *)
(* goes on ageing after the receiver has returned.  One that could not     *)
(* watch its file does not: it never learnt what it had imported.          *)
DisconnectedForgets ==
    \A s \in Site :
       sync[s] = "lost" ~>
          \/ sync[s] # "lost" \/ watcher[s] = "deaf"
          \/ \A o \in Site, a \in Address : ~ComesFrom(file[s][a], o)

-----------------------------------------------------------------------------
(* What the repository says and the code does not do. *)

(* "Service sync aged out service definitions from origin ...": the age    *)
(* tick takes out what came from an aged origin and nothing else, at least *)
(* when the controller has seen the whole file.                            *)
AgedOutOwn ==
    [][\A s \in Site : \A a \in Address :
          CaughtUp(s) /\ AgeTick(s) /\ file'[s][a] # file[s][a]
            => file[s][a].origin \in Aged(s)]_vars
=============================================================================
