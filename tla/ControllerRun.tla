---------------------------- MODULE ControllerRun ----------------------------
(***************************************************************************)
(* One run after the other of the service controller's process, but for    *)
(* service sync: it pulls an image, watches the service definition file,   *)
(* and at each pass over it brings its bindings and the host's containers  *)
(* into line.  Commands write the file meanwhile, the user's containers    *)
(* come and go, and `connect` replaces the controller by a new one.        *)
(***************************************************************************)
EXTENDS ImagePull, ServiceBindings

CONSTANTS
    Engines,        \* the engines there may be: "docker", "podman"
    Kind,           \* of each name of a target, the kind of what has it
    Controller,     \* the controller's own container
    Written,        \* the contents commands write into the file
    Torn,           \* a file that is truncated, or partly written
    MaxWrites,      \* bound on writes
    MaxRestarts,    \* bound on restarts
    MaxUserSteps    \* bound on what the user does with containers

(* A definition's targets are of the kinds their names tell: the commands  *)
(* put a colon into the name of a host service, and none is in that of a   *)
(* container (serviceinterface_update.go:31-64).                           *)
OfKind(defs) ==
    \A a \in Address :
        defs[a] # NoDef
        => \A t \in TargetNames(defs[a]) :
              defs[a].targets[t].selector = Kind[t]

(* The user's containers.                                                  *)
Containers == {t \in Target : Kind[t] = Container}

ASSUME WrittenAssumption ==
    /\ Kind \in [Target -> Selector]
    /\ Controller \notin Target
    /\ Written \subseteq Definitions
    /\ \A defs \in Written : OfKind(defs)
    /\ Torn \notin Definitions
    /\ MaxWrites \in Nat /\ MaxRestarts \in Nat /\ MaxUserSteps \in Nat

VARIABLES
    driver,         \* the engine in use; does not change
    file,           \* skupper-services
    pending,        \* there is a write event the watcher has not taken
    at,             \* what the watcher's goroutine does next
    svcDefs,        \* what it has read
    bindings,
    made,           \* when each container was made; 0 if it is not there
    up,             \* the user's containers that run
    labelled,       \* those with the label getProxies looks for
    networked,      \* those on the skupper network
    excused,        \* history: containers that the engine did not let on the
                    \* network at the latest pass, or that were made since
    writes, restarts, userSteps

fileVars == <<file, writes>>
hostVars == <<made, up, labelled, networked, excused, userSteps>>
passVars == <<at, svcDefs, bindings>>
vars == <<pullVars, driver, fileVars, pending, passVars, hostVars, restarts>>

(* "deaf": the process lives, but the watcher's goroutine has returned.    *)
At == {"pull", "add", "read", "bind", "attach", "remove", "wait", "deaf",
       "dead"}

ControllerTypeOK ==
    /\ PullTypeOK
    /\ driver \in Engines
    /\ file \in Definitions \cup {Torn}
    /\ pending \in BOOLEAN
    /\ at \in At
    /\ svcDefs \in Definitions
    /\ bindings \in Bindings
    /\ made \in [Containers \cup {Controller} -> Nat]
    /\ up \subseteq {c \in Containers : made[c] # 0}
    /\ labelled \subseteq Containers
    /\ networked \subseteq up
    /\ excused \subseteq Containers
    /\ writes \in 0..MaxWrites
    /\ restarts \in 0..MaxRestarts
    /\ userSteps \in 0..MaxUserSteps

(* The controller's container was made after those that are there.         *)
ControllerInit ==
    /\ PullInit
    /\ driver \in Engines
    /\ file \in Written
    /\ pending = FALSE
    /\ at = "pull"
    /\ svcDefs = NoDefinitions
    /\ bindings = NoDefinitions
    /\ up \in SUBSET Containers
    /\ made = [c \in Containers \cup {Controller} |->
                  IF c = Controller THEN 2 ELSE IF c \in up THEN 1 ELSE 0]
    /\ labelled = {}
    /\ networked = {}
    /\ excused = {}
    /\ writes = 0
    /\ restarts = 0
    /\ userSteps = 0

Watched == at \notin {"pull", "add", "deaf", "dead"}

(* When what is made next is made.                                         *)
Newest == 3 + restarts + userSteps

-----------------------------------------------------------------------------
(* The controller.  Run does nothing before it has the image.              *)
Pulling ==
    /\ at = "pull"
    /\ \/ pull = "none" /\ PullBegin
       \/ PullStep(driver)
    /\ UNCHANGED <<driver, fileVars, pending, passVars, hostVars, restarts>>

Pulled ==
    /\ at = "pull"
    /\ pull \in {"pulled", "failed"}
    /\ at' = IF pull = "pulled" THEN "add" ELSE "dead"
    /\ UNCHANGED <<pullVars, driver, fileVars, pending, svcDefs, bindings,
                   hostVars, restarts>>

(* Mutant: there is no first pass.                                         *)
AddWatchOnly ==
    /\ at = "add"
    /\ at' = "wait"
    /\ UNCHANGED <<pullVars, driver, fileVars, pending, svcDefs, bindings,
                   hostVars, restarts>>

AddWatch ==
    /\ at = "add"
    /\ at' = "read"
    /\ UNCHANGED <<pullVars, driver, fileVars, pending, svcDefs, bindings,
                   hostVars, restarts>>

(* The file cannot be watched.  The goroutine logs it and returns.         *)
AddWatchFails ==
    /\ at = "add"
    /\ at' = "deaf"
    /\ UNCHANGED <<pullVars, driver, fileVars, pending, svcDefs, bindings,
                   hostVars, restarts>>

WriteEvent ==
    /\ at = "wait" /\ pending
    /\ at' = "read"
    /\ pending' = FALSE
    /\ UNCHANGED <<pullVars, driver, fileVars, svcDefs, bindings, hostVars,
                   restarts>>

(* processServiceDefs: what cannot be decoded is left as it is.            *)
getServiceDefinitions ==
    /\ at = "read"
    /\ IF file = Torn THEN at' = "wait" /\ UNCHANGED svcDefs
       ELSE at' = "bind" /\ svcDefs' = file
    /\ UNCHANGED <<pullVars, driver, fileVars, pending, bindings, hostVars,
                   restarts>>

Bind ==
    /\ at = "bind"
    /\ at' = "attach"
    /\ bindings' = Bound(bindings, svcDefs)
    /\ UNCHANGED <<pullVars, driver, fileVars, pending, svcDefs, hostVars,
                   restarts>>

(* ensureProxyFor, of each of the bindings: targets that run and are not   *)
(* on the network are put on it, if the engine does so.                    *)
EnsureProxies ==
    /\ at = "attach"
    /\ at' = "remove"
    /\ LET wanted == (LocalTargets(bindings) \cap up) \ networked
       IN \E refused \in SUBSET wanted :
             /\ networked' = networked \cup (wanted \ refused)
             /\ excused' = refused
    /\ UNCHANGED <<pullVars, driver, fileVars, pending, svcDefs, bindings,
                   made, up, labelled, userSteps, restarts>>

There(c) == made[c] # 0

(* Mutant: podman leaves the controller out before it takes the last.      *)
ContainerListWithoutController ==
    IF driver = "docker" THEN {c \in labelled : There(c)}
    ELSE {c \in Containers :
             There(c) /\ \A other \in Containers : made[other] =< made[c]}

(* ContainerList, as getProxies calls it.  Docker filters by the label.    *)
(* Podman leaves the filter out and takes the one container that was made  *)
(* last, whatever it is, unless it is the controller.                      *)
ContainerList ==
    IF driver = "docker" THEN {c \in labelled : There(c)}
    ELSE {c \in Containers :
             /\ There(c)
             /\ \A other \in Containers \cup {Controller} :
                   made[other] =< made[c]}

(* deleteProxy, of each listed container that is no service: it is stopped *)
(* and removed.  The engine may fail to list, stop or remove.              *)
RemoveProxies ==
    /\ at = "remove"
    /\ at' = "wait"
    /\ \E stopped \in SUBSET (ContainerList
                                 \ {a \in Address : bindings[a] # NoDef}) :
       \E removed \in SUBSET stopped :
          /\ made' = [c \in Containers \cup {Controller} |->
                         IF c \in removed THEN 0 ELSE made[c]]
          /\ up' = up \ stopped
          /\ networked' = networked \ stopped
    /\ UNCHANGED <<pullVars, driver, fileVars, pending, svcDefs, bindings,
                   labelled, excused, userSteps, restarts>>

Step ==
    \/ Pulling \/ Pulled \/ AddWatch \/ WriteEvent \/ getServiceDefinitions
    \/ Bind \/ EnsureProxies \/ RemoveProxies

-----------------------------------------------------------------------------
(* What goes on around it.                                                 *)

(* ioutil.WriteFile truncates, then writes; the watcher is told of both.   *)
TruncateFile ==
    /\ file # Torn
    /\ writes < MaxWrites
    /\ writes' = writes + 1
    /\ file' = Torn
    /\ pending' = Watched
    /\ UNCHANGED <<pullVars, driver, passVars, hostVars, restarts>>

WriteFile ==
    /\ file = Torn
    /\ file' \in Written
    /\ pending' = Watched
    /\ UNCHANGED <<pullVars, driver, writes, passVars, hostVars, restarts>>

(* The process ends without being told to: its TLS configuration cannot be *)
(* read, the file watcher cannot be made, a sender cannot be attached, or  *)
(* maps are found to be written by two goroutines.                         *)
Fails ==
    /\ at # "dead"
    /\ at' = "dead"
    /\ pull' = "none" /\ Anew
    /\ pending' = FALSE
    /\ svcDefs' = NoDefinitions
    /\ bindings' = NoDefinitions
    /\ UNCHANGED <<driver, fileVars, hostVars, restarts>>

(* The controller's container is removed and made again.                   *)
Restart ==
    /\ restarts < MaxRestarts
    /\ restarts' = restarts + 1
    /\ at' = "pull"
    /\ pull' = "none" /\ Anew
    /\ pending' = FALSE
    /\ svcDefs' = NoDefinitions
    /\ bindings' = NoDefinitions
    /\ made' = [made EXCEPT ![Controller] = Newest]
    /\ UNCHANGED <<driver, fileVars, up, labelled, networked, excused,
                   userSteps>>

(* The user makes a container, or another one with the same name, with or  *)
(* without the label.                                                      *)
UserRuns(c) ==
    /\ userSteps < MaxUserSteps
    /\ userSteps' = userSteps + 1
    /\ made' = [made EXCEPT ![c] = Newest]
    /\ up' = up \cup {c}
    /\ labelled' \in {labelled \ {c}, labelled \cup {c}}
    /\ networked' = networked \ {c}
    /\ excused' = excused \cup {c}
    /\ UNCHANGED <<pullVars, driver, fileVars, pending, passVars, restarts>>

Environment ==
    \/ TruncateFile \/ WriteFile
    \/ \E c \in Containers : UserRuns(c)

Failure == AddWatchFails \/ Fails

ControllerNext == Step \/ Environment \/ Failure \/ Restart

(* Nothing is assumed of failures: they may come at any time, or never.    *)
ControllerSpec ==
    /\ ControllerInit /\ [][ControllerNext]_vars
    /\ WF_vars(Step) /\ WF_vars(WriteFile)

-----------------------------------------------------------------------------
(* Properties.                                                             *)

(* A stream is never silent for longer than the deadline and the time to   *)
(* the reporter's next look (docker.go:197-220): the controller does not   *)
(* wait for ever on a registry that stopped to answer.  The engine's       *)
(* answer to the call itself (docker.go:249), and the whole of a pull by   *)
(* podman, have no deadline, and nothing is said of them.                  *)
PullBounded == pull = "stream" => silence =< Deadline + Interval

(* And no pull is given up that made progress within the deadline.         *)
ProgressKept == [][~canceled /\ canceled' => silence >= Deadline]_pullVars

(* Between passes every target of a local service in the file that runs is *)
(* on the network, but for those that the engine refused or the user made  *)
(* since: also when the service was another site's before, or had the      *)
(* target only later, or the controller is a new one                       *)
(* (controller.go:147-170, bridges.go:93-139).                             *)
TargetsAttached ==
    at = "wait" /\ ~pending /\ file # Torn
    => LocalTargets(file) \cap up \subseteq networked \cup excused

(* With either engine, the controller takes none of the containers that    *)
(* were there before it for a proxy, unless they carry the label: what it  *)
(* stops is labelled or was made after it, although podman's list is not   *)
(* filtered (controller.go:229-258, podman.go:165-190).                    *)
OlderContainersKept ==
    [][\A c \in Containers :
          c \in up \ labelled /\ made[c] < made[Controller] => c \in up']_vars

(* In port, option, origin, targets and their ports, bindings that are     *)
(* changed with the definitions are at each pass those of the file, and    *)
(* each pass counts as one step, taken when the file was read              *)
(* (controller.go:260-318, bridges.go:104-137).                            *)
Promise ==
    INSTANCE ServiceWatch WITH
        Content <- Written,
        Nothing <- NoDefinitions,
        Meaning <- AllFollowed,
        watching <- Watched,
        due <- Watched /\ (pending \/ at = "read"),
        view <- IF at = "bind" THEN AllFollowed(svcDefs)
                ELSE AllFollowed(bindings)

Implements == Promise!WatchSpec

(* The controller comes up and takes in every write of the file, unless    *)
(* its process has ended or the file could not be watched                  *)
(* (controller.go:66-91, 286-318).                                         *)
CaughtUp ==
    /\ at = "wait" /\ file # Torn
    /\ AllFollowed(bindings) = AllFollowed(file)

CatchesUp == []<>(at \in {"dead", "deaf"} \/ CaughtUp)
=============================================================================
