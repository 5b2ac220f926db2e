---------------------------- MODULE ServiceFile ----------------------------
(***************************************************************************)
(* One site at the grain of its file accesses.  Everybody who changes      *)
(* skupper-services reads it, changes the map and writes it back, without  *)
(* a lock; ioutil.WriteFile truncates the file before it writes.  Those    *)
(* who do are the operator's commands and two goroutines of the service    *)
(* controller, the receiver of updates and the sender with its age ticker. *)
(* The controller's third goroutine, the watcher, reads.  The goroutines   *)
(* share byOrigin, byName and heardFrom.                                   *)
(*                                                                         *)
(* Site is the set of the other sites here.                                *)
(***************************************************************************)
EXTENDS ServiceDefs, Integers

CONSTANTS
    Command,        \* the commands the operator runs, each a process
    Receiver,       \* the goroutine of runServiceSync
    Ager,           \* the goroutine of syncSender
    Empty,          \* a file that is truncated and not written again yet
    Garbled,        \* a file with the end of an older text after the new one
    MaxChanges,     \* bound on what happens at the other sites
    MaxKills,       \* bound on processes killed and watches that fail
    Paced           \* the watcher is done with one update before the next,
                    \* which comes seconds later

Writer == Command \cup {Receiver, Ager}

ASSUME WriterAssumption ==
          Receiver # Ager /\ {Receiver, Ager} \cap Command = {}
ASSUME UnreadableAssumption ==
          Empty # Garbled /\ {Empty, Garbled} \cap Registry = {}
ASSUME BoundsAssumption == MaxChanges \in Nat /\ MaxKills \in Nat
ASSUME PacedAssumption == Paced \in BOOLEAN

VARIABLES
    disk,           \* the contents of skupper-services
    last,           \* history: the latest text that was written to its end
    pending,        \* a Write event waits for the watcher
    step,           \* step[w]: where writer w is
    edit,           \* edit[w]: what w is going to change
    base,           \* base[w]: what w has read
    watcher,        \* where the watcher is
    seen,           \* what the watcher has read
    byOrigin,       \* byOrigin[o]: addresses believed to be o's
    byName,         \* the file as it was last processed
    heardFrom,      \* the origins with a clock
    from,           \* the origin whose update the receiver handles
    aged,           \* the silent origins this age tick has found
    present,        \* the other sites that can be heard
    offered,        \* offered[o]: what o multicasts
    changes,        \* changes at other sites so far
    kills           \* processes killed, and watches failed, so far

diskVars == <<disk, last>>
netVars == <<present, offered, changes>>
mapVars == <<byOrigin, byName, heardFrom>>
watchVars == <<watcher, seen>>
vars == <<diskVars, pending, step, edit, base, watchVars, mapVars, from, aged,
          netVars, kills>>

(* An edit: definitions to put in, over existing ones or not, and          *)
(* addresses to take out.                                                  *)
Edit == [put : Registry, over : BOOLEAN, del : SUBSET Address]
NoEdit == [put |-> EmptyRegistry, over |-> FALSE, del |-> {}]

Step == {"idle", "read", "open", "write", "forget", "done", "failed", "dead"}
WatcherStep == {"stopped", "starting", "added", "first", "idle", "event",
                "process", "deaf"}

Readable(contents) == contents \notin {Empty, Garbled}

TypeOK ==
    /\ disk \in Registry \cup {Empty, Garbled}
    /\ last \in Registry
    /\ pending \in BOOLEAN
    /\ step \in [Writer -> Step]
    /\ edit \in [Writer -> Edit]
    /\ base \in [Writer -> Registry]
    /\ watcher \in WatcherStep
    /\ seen \in Registry \cup {Empty, Garbled}
    /\ byOrigin \in [Site -> SUBSET Address]
    /\ byName \in Registry
    /\ heardFrom \subseteq Site
    /\ from \in Site \cup {Local}
    /\ aged \subseteq Site
    /\ present \subseteq Site
    /\ offered \in [Site -> Registry]
    /\ changes \in 0..MaxChanges
    /\ kills \in 0..MaxKills

Init ==
    /\ disk = EmptyRegistry
    /\ last = EmptyRegistry
    /\ pending = FALSE
    /\ step = [w \in Writer |-> "idle"]
    /\ edit = [w \in Writer |-> NoEdit]
    /\ base = [w \in Writer |-> EmptyRegistry]
    /\ watcher = "starting"
    /\ seen = EmptyRegistry
    /\ byOrigin = [o \in Site |-> {}]
    /\ byName = EmptyRegistry
    /\ heardFrom = {}
    /\ from = Local
    /\ aged = {}
    /\ present = Site
    /\ offered = [o \in Site |-> EmptyRegistry]
    /\ changes = 0
    /\ kills = 0

-----------------------------------------------------------------------------
(* Read, change and write back.  Nothing keeps others from it meanwhile.   *)

Begin(w, e) ==
    /\ edit' = [edit EXCEPT ![w] = e]
    /\ step' = [step EXCEPT ![w] = "read"]

(* Mutant: the file's contents are not decoded into the map first. *)
AppliedToNothing(current, e) ==
    [a \in Address |-> IF a \in e.del THEN NoDef ELSE e.put[a]]

Applied(current, e) ==
    [a \in Address |->
        IF a \in e.del THEN NoDef
        ELSE IF e.put[a] # NoDef /\ (e.over \/ current[a] = NoDef)
             THEN e.put[a]
        ELSE current[a]]

(* How a writer that cannot go on ends: a command with an error, the       *)
(* receiver by logging it, the sender goroutine by returning.              *)
StepAfterError(w) ==
    IF w \in Command THEN "failed"
    ELSE IF w = Receiver THEN "forget" ELSE "dead"

StepAfterWrite(w) ==
    IF w \in Command THEN "done" ELSE "forget"

(* `service delete` of an address that is not there is an error. *)
Refused(w) ==
    \/ ~Readable(disk)
    \/ w \in Command /\ \E a \in edit[w].del : disk[a] = NoDef

Read(w) ==
    /\ step[w] = "read"
    /\ IF Refused(w)
       THEN /\ step' = [step EXCEPT ![w] = StepAfterError(w)]
            /\ UNCHANGED base
       ELSE /\ step' = [step EXCEPT ![w] = "open"]
            /\ base' = [base EXCEPT ![w] = disk]
    /\ UNCHANGED <<diskVars, pending, edit, watchVars, mapVars, from, aged,
                   netVars, kills>>

Watched == watcher \notin {"stopped", "starting", "deaf"}

(* Opening the file truncates it, which is a Write event too. *)
Open(w) ==
    /\ step[w] = "open"
    /\ step' = [step EXCEPT ![w] = "write"]
    /\ disk' = Empty
    /\ pending' = Watched
    /\ UNCHANGED <<last, edit, base, watchVars, mapVars, from, aged, netVars,
                   kills>>

(* Writing a shorter text over one that was written since the truncation   *)
(* leaves the end of that one.                                             *)
Overwritten(current, new) ==
    IF current \in {Empty, new} THEN {new} ELSE {new, Garbled}

Write(w) ==
    /\ step[w] = "write"
    /\ step' = [step EXCEPT ![w] = StepAfterWrite(w)]
    /\ last' = Applied(base[w], edit[w])
    /\ disk' \in Overwritten(disk, last')
    /\ pending' = Watched
    /\ UNCHANGED <<edit, base, watchVars, mapVars, from, aged, netVars, kills>>

-----------------------------------------------------------------------------
(* The commands. *)

PutOne(a, d) == [EmptyRegistry EXCEPT ![a] = d]

Start(c, e) ==
    /\ Begin(c, e)
    /\ UNCHANGED <<diskVars, pending, base, watchVars, mapVars, from, aged,
                   netVars, kills>>

Create(c, a, p) ==
    /\ step[c] = "idle"
    /\ Start(c, [put |-> PutOne(a, NewService(p, Plain)), over |-> FALSE,
                 del |-> {}])

Delete(c, a) ==
    /\ step[c] = "idle"
    /\ Start(c, [put |-> EmptyRegistry, over |-> FALSE, del |-> {a}])

(* `bind` looks the definition up first (ServiceInterfaceInspect), and     *)
(* later puts it back with the target over whatever the file holds then.   *)
Bind(c, a, t) ==
    /\ step[c] = "idle"
    /\ Readable(disk)
    /\ disk[a] # NoDef
    /\ Start(c, [put |-> PutOne(a, [AddTarget(disk[a], t)
                                      EXCEPT !.origin = Local]),
                 over |-> TRUE, del |-> {}])

-----------------------------------------------------------------------------
(* The receiver. *)

Running == watcher # "stopped"

(* An update arrives; the maps tell what it changes.  One that changes     *)
(* nothing ends here.                                                      *)
Receive(o) ==
    LET update == Indexed(offered[o], o)
        changed == Changed(byName, o, update)
        deleted == Deleted(byOrigin[o], update)
    IN /\ Running
       /\ step[Receiver] = "idle"
       /\ o \in present
       /\ Paced => ~pending /\ watcher \notin {"event", "process"}
       /\ heardFrom' = heardFrom \cup {o}
       /\ IF changed = {} /\ deleted = {}
          THEN UNCHANGED <<step, edit, from>>
          ELSE /\ Begin(Receiver,
                        [put |-> [a \in Address |-> IF a \in changed
                                                    THEN update[a] ELSE NoDef],
                         over |-> TRUE, del |-> deleted])
               /\ from' = o
       /\ UNCHANGED <<diskVars, pending, base, watchVars, byOrigin, byName,
                      aged, netVars, kills>>

(* What was withdrawn is forgotten, whether the file could be written or   *)
(* not.                                                                    *)
ForgetWithdrawn ==
    /\ step[Receiver] = "forget"
    /\ step' = [step EXCEPT ![Receiver] = "idle"]
    /\ byOrigin' = [byOrigin EXCEPT ![from] = @ \ edit[Receiver].del]
    /\ UNCHANGED <<diskVars, pending, edit, base, watchVars, byName, heardFrom,
                   from, aged, netVars, kills>>

-----------------------------------------------------------------------------
(* The age ticker.  A site that cannot be heard any more becomes silent    *)
(* for a minute at some time.  One tick may find several such sites; what  *)
(* they offered is taken out site by site, then all are forgotten.         *)

Tick(o) ==
    /\ Running
    /\ step[Ager] \in {"idle", "forget"}
    /\ o \in heardFrom \ (present \cup aged)
    /\ IF byOrigin[o] = {}
       THEN /\ step' = [step EXCEPT ![Ager] = "forget"]
            /\ UNCHANGED edit
       ELSE Begin(Ager, [put |-> EmptyRegistry, over |-> FALSE,
                         del |-> byOrigin[o]])
    /\ aged' = aged \cup {o}
    /\ UNCHANGED <<diskVars, pending, base, watchVars, mapVars, from, netVars,
                   kills>>

ForgetAged ==
    /\ step[Ager] = "forget"
    /\ step' = [step EXCEPT ![Ager] = "idle"]
    /\ byOrigin' = [o \in Site |-> IF o \in aged THEN {} ELSE byOrigin[o]]
    /\ heardFrom' = heardFrom \ aged
    /\ aged' = {}
    /\ UNCHANGED <<diskVars, pending, edit, base, watchVars, byName, from,
                   netVars, kills>>

-----------------------------------------------------------------------------
(* The watcher. *)

AddWatch ==
    /\ watcher = "starting"
    /\ watcher' = "added"
    /\ UNCHANGED <<diskVars, pending, step, edit, base, seen, mapVars, from,
                   aged, netVars, kills>>

TakeEvent ==
    /\ watcher = "idle"
    /\ pending
    /\ pending' = FALSE
    /\ watcher' = "event"
    /\ UNCHANGED <<diskVars, step, edit, base, seen, mapVars, from, aged,
                   netVars, kills>>

ReadDefinitions ==
    /\ watcher \in {"added", "event"}
    /\ seen' = disk
    /\ watcher' = IF watcher = "added" THEN "first" ELSE "process"
    /\ UNCHANGED <<diskVars, pending, step, edit, base, mapVars, from, aged,
                   netVars, kills>>

(* Mutant: events that come in while the file is processed are drained. *)
ProcessAndDrain ==
    /\ watcher \in {"first", "process"}
    /\ watcher' = "idle"
    /\ pending' = FALSE
    /\ IF Readable(seen)
       THEN /\ \E pick \in Picks(byOrigin) :
                  byOrigin' = TrackedAfter(byOrigin, seen, pick)
            /\ byName' = AllByName(seen)
       ELSE UNCHANGED <<byOrigin, byName>>
    /\ UNCHANGED <<diskVars, step, edit, base, seen, heardFrom, from, aged,
                   netVars, kills>>

(* A file that cannot be decoded is logged and left for the next event.    *)
(* The first pass starts the clock of every origin it knows.               *)
Process ==
    /\ watcher \in {"first", "process"}
    /\ watcher' = "idle"
    /\ IF Readable(seen)
       THEN /\ \E pick \in Picks(byOrigin) :
                  byOrigin' = TrackedAfter(byOrigin, seen, pick)
            /\ byName' = AllByName(seen)
       ELSE UNCHANGED <<byOrigin, byName>>
    /\ heardFrom' = IF watcher = "first"
                    THEN heardFrom \cup {o \in Site : byOrigin'[o] # {}}
                    ELSE heardFrom
    /\ UNCHANGED <<diskVars, pending, step, edit, base, seen, from, aged,
                   netVars, kills>>

-----------------------------------------------------------------------------
(* The other sites. *)

Change == changes < MaxChanges /\ changes' = changes + 1

Offer(o, a, p) ==
    /\ Change
    /\ offered' = [offered EXCEPT ![o][a] = NewService(p, Plain)]
    /\ present' = present \cup {o}
    /\ UNCHANGED <<diskVars, pending, step, edit, base, watchVars, mapVars,
                   from, aged, kills>>

Withdraw(o, a) ==
    /\ Change
    /\ offered' = [offered EXCEPT ![o][a] = NoDef]
    /\ present' = present \cup {o}
    /\ UNCHANGED <<diskVars, pending, step, edit, base, watchVars, mapVars,
                   from, aged, kills>>

Depart(o) ==
    /\ Change
    /\ o \in present
    /\ present' = present \ {o}
    /\ UNCHANGED <<diskVars, pending, step, edit, base, watchVars, mapVars,
                   from, aged, offered, kills>>

-----------------------------------------------------------------------------
(* Processes are killed: a command by its user, the controller by a crash  *)
(* (two goroutines in one map end a Go program) or because its container   *)
(* is recreated.                                                           *)

Kill == kills < MaxKills /\ kills' = kills + 1

KillCommand(c) ==
    /\ Kill
    /\ step[c] \in {"read", "open", "write"}
    /\ step' = [step EXCEPT ![c] = "failed"]
    /\ UNCHANGED <<diskVars, pending, edit, base, watchVars, mapVars, from,
                   aged, netVars>>

KillController ==
    /\ Kill
    /\ Running
    /\ watcher' = "stopped"
    /\ pending' = FALSE
    /\ step' = [step EXCEPT ![Receiver] = "idle", ![Ager] = "idle"]
    /\ byOrigin' = [o \in Site |-> {}]
    /\ byName' = EmptyRegistry
    /\ heardFrom' = {}
    /\ aged' = {}
    /\ UNCHANGED <<diskVars, edit, base, seen, from, netVars>>

(* The file cannot be watched: the watcher's goroutine returns and the     *)
(* others go on, without the definitions it would have read.               *)
AddWatchFails ==
    /\ Kill
    /\ watcher = "starting"
    /\ watcher' = "deaf"
    /\ UNCHANGED <<diskVars, pending, step, edit, base, seen, mapVars, from,
                   aged, netVars>>

Restart ==
    /\ watcher = "stopped"
    /\ watcher' = "starting"
    /\ UNCHANGED <<diskVars, pending, step, edit, base, seen, mapVars, from,
                   aged, netVars, kills>>

-----------------------------------------------------------------------------
Operator(c) ==
    \E a \in Address :
       \/ \E p \in Port : Create(c, a, p)
       \/ Delete(c, a)
       \/ \E t \in Target : Bind(c, a, t)

ReadModifyWrite(w) == Read(w) \/ Open(w) \/ Write(w)

Watch == AddWatch \/ TakeEvent \/ ReadDefinitions \/ Process

Others ==
    \E o \in Site :
       \/ \E a \in Address :
             \/ \E p \in Port : Offer(o, a, p)
             \/ Withdraw(o, a)
       \/ Depart(o)

Next ==
    \/ \E c \in Command : Operator(c) \/ KillCommand(c)
    \/ \E w \in Writer : ReadModifyWrite(w)
    \/ \E o \in Site : Receive(o) \/ Tick(o)
    \/ ForgetWithdrawn
    \/ ForgetAged
    \/ Watch
    \/ Others
    \/ KillController
    \/ AddWatchFails
    \/ Restart

Spec == Init /\ [][Next]_vars

(* Every process that has begun goes on, and each site that can be heard   *)
(* is heard again and again.                                               *)
Fairness ==
    /\ \A w \in Writer : WF_vars(ReadModifyWrite(w))
    /\ \A o \in Site : WF_vars(Tick(o)) /\ SF_vars(Receive(o))
    /\ WF_vars(ForgetWithdrawn)
    /\ WF_vars(ForgetAged)
    /\ WF_vars(Watch)

FairSpec == Spec /\ Fairness

-----------------------------------------------------------------------------
(* The file is the store of ServiceStore, in any order of accesses and     *)
(* whatever is killed between them.                                        *)

StatusView ==
    [c \in Command |->
        IF step[c] \in {"done", "failed"} THEN step[c] ELSE "open"]

Store ==
    INSTANCE ServiceStore WITH
        Importer <- {Receiver, Ager},
        store <- last,
        legible <- Readable(disk),
        snapshot <- base,
        status <- StatusView

(* Commands and the controller's own writes, each of several file accesses *)
(* without a lock (controller.go:93-127, serviceinterface_update.go:73-102,*)
(* serviceinterface_remove.go:11-55), take effect whole, on what the       *)
(* writer has read: nobody ever reads half of a change, what a write takes *)
(* back of others is what they did since the writer read, and a command    *)
(* that fails or is killed leaves no trace but a file that cannot be read. *)
ImplementsStore == Store!StoreSpec

-----------------------------------------------------------------------------
(* When the watcher waits and no event does, byName is the file, unless    *)
(* the file cannot be read: truncation and writing each leave an event     *)
(* behind, so a watcher that read in between reads again.                  *)
ViewsCurrent ==
    watcher = "idle" /\ ~pending /\ Readable(disk) => byName = AllByName(disk)

(* The controller does not chase its own writes: once nobody else changes  *)
(* anything the file is left alone.  One that could not watch the file     *)
(* does: it never learns what it has written, and writes each update again *)
(* (service_sync.go:110, controller.go:292-296).                           *)
Quiet == <>[][FALSE]_disk \/ <>[](watcher = "deaf")

-----------------------------------------------------------------------------
(* What the repository says and the code does not do. *)

(* "a receipt that needs to be reconciled": what a site holds as coming    *)
(* from a site it keeps hearing is, in the end, what that site offers.     *)
Reconciled ==
    <>[](\A o \in present : \A a \in Address :
            Readable(disk) /\ ComesFrom(disk[a], o) => offered[o][a] # NoDef)
=============================================================================
