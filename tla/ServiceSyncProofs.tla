------------------------- MODULE ServiceSyncProofs -------------------------
(***************************************************************************)
(* Proofs about ServiceSync, for any number of sites, addresses, settings  *)
(* and targets, any capacity and any bound on the events.                  *)
(***************************************************************************)
EXTENDS ServiceSync, ServiceDefsProofs

-----------------------------------------------------------------------------
(* Type correctness. *)

(* Among the definitions defs, the imported ones are those of current, but *)
(* for targets taken away.                                                 *)
NothingImported(current, defs) ==
    \A a \in Address : \A o \in Site :
       ComesFrom(defs[a], o) => /\ ComesFrom(current[a], o)
                                /\ defs[a].port = current[a].port
                                /\ defs[a].targets \subseteq current[a].targets

(* The commands import nothing. *)
LEMMA CommandsImportNothing ==
    ASSUME NEW current \in Registry, NEW a \in Address
    PROVE  /\ NothingImported(current, [current EXCEPT ![a] = NoDef])
           /\ \A service \in Definition, overwrite \in BOOLEAN :
                 NothingImported(current,
                   UpdateServiceInterface(current, a, service, overwrite))
           /\ \A t \in Target, d \in BOOLEAN :
                 current[a] # NoDef =>
                   NothingImported(current, RemoveTarget(current, a, t, d))
<1>1. NothingImported(current, [current EXCEPT ![a] = NoDef])
  BY DEF NothingImported, ComesFrom, Registry
<1>2. ASSUME NEW service \in Definition, NEW overwrite \in BOOLEAN
      PROVE  NothingImported(current,
               UpdateServiceInterface(current, a, service, overwrite))
  <2>1. [service EXCEPT !.origin = Local].origin = Local
    BY DEF Definition
  <2> QED
    BY <2>1, LocalAssumption
       DEF UpdateServiceInterface, NothingImported, ComesFrom, Registry
<1>3. ASSUME NEW t \in Target, NEW d \in BOOLEAN, current[a] # NoDef
      PROVE  NothingImported(current, RemoveTarget(current, a, t, d))
  <2> DEFINE left == current[a].targets \ {t}
             kept == [current[a] EXCEPT !.targets = left]
  <2>1. current[a] \in Definition
    BY <1>3 DEF Registry
  <2>2. /\ kept.origin = current[a].origin /\ kept.port = current[a].port
        /\ kept.targets \subseteq current[a].targets
    BY <2>1 DEF Definition
  <2>3. RemoveTarget(current, a, t, d)
          = [current EXCEPT ![a] = IF left = {} /\ d THEN NoDef ELSE kept]
    BY <1>3, <2>1 DEF RemoveTarget, Registry
  <2> HIDE DEF kept, left
  <2> QED
    BY <1>3, <2>2, <2>3 DEF NothingImported, ComesFrom, Registry
<1> QED
  BY <1>1, <1>2, <1>3

(* A step of the operator rewrites the file with a registry that has no    *)
(* new imports.                                                            *)
LEMMA OperatorCommands ==
    ASSUME TypeOK, NEW s \in Site, Operator(s)
    PROVE  \E defs \in Registry : /\ Command(s, defs)
                                  /\ NothingImported(file[s], defs)
<1> USE DEF TypeOK
<1>1. PICK a \in Address :
        \/ \E p \in Port, opt \in Option : Create(s, a, p, opt)
        \/ \E t \in Target : Bind(s, a, t)
        \/ \E p \in Port, t \in Target : Expose(s, a, p, t)
        \/ Remove(s, a)
        \/ \E t \in Target, d \in BOOLEAN : Unbind(s, a, t, d)
  BY DEF Operator
<1>2. file[s] \in Registry /\ file[s][a] \in Definition \cup {NoDef}
  BY DEF Registry
<1>3. CASE \E p \in Port, opt \in Option : Create(s, a, p, opt)
  BY <1>2, <1>3, CommandTypes, CommandsImportNothing DEF Create
<1>4. CASE \E t \in Target : Bind(s, a, t)
  BY <1>2, <1>4, CommandTypes, CommandsImportNothing DEF Bind
<1>5. CASE \E p \in Port, t \in Target : Expose(s, a, p, t)
  BY <1>2, <1>5, CommandTypes, CommandsImportNothing, PlainAssumption
     DEF Expose
<1>6. CASE Remove(s, a)
  BY <1>2, <1>6, CommandTypes, CommandsImportNothing DEF Remove
<1>7. CASE \E t \in Target, d \in BOOLEAN : Unbind(s, a, t, d)
  BY <1>2, <1>7, CommandTypes, CommandsImportNothing DEF Unbind
<1> QED
  BY <1>1, <1>3, <1>4, <1>5, <1>6, <1>7

(* Every map of names keeps its type when the file is processed. *)
LEMMA ProcessType ==
    ASSUME TypeOK, NEW s \in Site, ProcessServiceDefs(s)
    PROVE  /\ byOrigin' \in [Site -> [Site -> SUBSET Address]]
           /\ byName' \in [Site -> Registry]
           /\ localServices' \in [Site -> Registry]
           /\ bindings' \in [Site -> Registry]
           /\ attached' \in [Site -> SUBSET Target]
<1> USE DEF TypeOK
<1>1. file[s] \in Registry
  OBVIOUS
<1>2. byOrigin' \in [Site -> [Site -> SUBSET Address]]
  <2>1. PICK pick \in Picks(byOrigin[s]) :
          byOrigin' = [byOrigin EXCEPT
                         ![s] = TrackedAfter(byOrigin[s], file[s], pick)]
    BY DEF ProcessServiceDefs
  <2>2. TrackedAfter(byOrigin[s], file[s], pick)
          \in [Site -> SUBSET Address]
    BY DEF TrackedAfter
  <2> QED
    BY <2>1, <2>2
<1>3. byName' \in [Site -> Registry] /\ localServices' \in [Site -> Registry]
  BY <1>1, ViewTypes DEF ProcessServiceDefs
<1>4. bindings' \in [Site -> Registry]
  BY <1>1 DEF ProcessServiceDefs
<1>5. attached' \in [Site -> SUBSET Target]
  <2>1. PICK refused \in SUBSET Target :
          attached' = [attached EXCEPT
            ![s] = @ \cup (UNION {file[s][a].targets :
                                    a \in LocalNames(file[s])} \ refused)]
    BY DEF ProcessServiceDefs
  <2>2. \A a \in LocalNames(file[s]) : file[s][a].targets \subseteq Target
    BY <1>1 DEF LocalNames, IsLocal, Registry, Definition
  <2>3. UNION {file[s][a].targets : a \in LocalNames(file[s])}
          \subseteq Target
    BY <2>2
  <2> QED
    BY <2>1, <2>3
<1> QED
  BY <1>2, <1>3, <1>4, <1>5

(* The initial state has the right type. *)
LEMMA InitType == Init => TypeOK
<1>1. EmptyRegistry \in Registry
  BY EmptyRegistryType
<1>2. 0 \in 0..MaxEvents
  BY MaxEventsAssumption
<1> QED
  BY <1>1, <1>2 DEF Init, TypeOK, NothingTracked, NothingHeard, WatcherState,
                    SyncState, Age, Never

(* Writing a registry keeps the types. *)
LEMMA WriteFileType ==
    ASSUME TypeOK, NEW s \in Site, NEW defs \in Registry, WriteFile(s, defs)
    PROVE  file' \in [Site -> Registry] /\ pending' \in [Site -> BOOLEAN]
<1> DEFINE watched == watcher[s] \in {"added", "watching"}
<1>1. watched \in BOOLEAN
  OBVIOUS
<1>2. pending' = [pending EXCEPT ![s] = watched]
  BY DEF WriteFile
<1> HIDE DEF watched
<1> QED
  BY <1>1, <1>2 DEF WriteFile, TypeOK

(* An update leaves file, events and maps of the right type. *)
LEMMA EnsureType ==
    ASSUME TypeOK, NEW s \in Site, NEW o \in Site, NEW update \in Registry,
           EnsureServiceInterfaceDefinitions(s, o, update)
    PROVE  /\ file' \in [Site -> Registry]
           /\ pending' \in [Site -> BOOLEAN]
           /\ byOrigin' \in [Site -> [Site -> SUBSET Address]]
           /\ heardFrom' \in [Site -> [Site -> Age]]
<1> DEFINE changed == Changed(byName[s], o, update)
           deleted == Deleted(byOrigin[s][o], update)
<1>1. UpdateSkupperServices(file[s], changed, update, deleted) \in Registry
  BY UpdateSkupperServicesType DEF TypeOK
<1>2. file' \in [Site -> Registry] /\ pending' \in [Site -> BOOLEAN]
  <2>1. CASE changed = {} /\ deleted = {}
    BY <2>1 DEF EnsureServiceInterfaceDefinitions, TypeOK
  <2>2. CASE ~(changed = {} /\ deleted = {})
    BY <1>1, <2>2, WriteFileType DEF EnsureServiceInterfaceDefinitions
  <2> QED
    BY <2>1, <2>2
<1>3. byOrigin' = [byOrigin EXCEPT ![s][o] = @ \ deleted]
  BY DEF EnsureServiceInterfaceDefinitions
<1>4. heardFrom' = [heardFrom EXCEPT ![s][o] = 0]
  BY DEF EnsureServiceInterfaceDefinitions
<1>5. 0 \in Age
  BY AgeLimitAssumption DEF Age
<1> HIDE DEF deleted
<1> QED
  BY <1>2, <1>3, <1>4, <1>5 DEF TypeOK

(* The state of every variable keeps its type in every step. *)
LEMMA TypeStep == TypeOK /\ [Next]_vars => TypeOK'
<1> SUFFICES ASSUME TypeOK, [Next]_vars
             PROVE  TypeOK'
  OBVIOUS
<1> USE DEF TypeOK, ctlVars
<1>1. CASE UNCHANGED vars
  BY <1>1 DEF vars
<1>2. ASSUME NEW s \in Site, Operator(s)
      PROVE  TypeOK'
  <2>1. PICK defs \in Registry : Command(s, defs)
    BY <1>2, OperatorCommands
  <2>2. Offers(defs) \subseteq Address \X Port
    BY DEF Offers, LocalNames, IsLocal, Registry, Definition
  <2>3. events' \in 0..MaxEvents
    BY <2>1, MaxEventsAssumption DEF Command, Event
  <2>4. everLocal' \in [Site -> SUBSET (Address \X Port)]
    BY <2>1, <2>2 DEF Command
  <2>5. file' \in [Site -> Registry] /\ pending' \in [Site -> BOOLEAN]
    BY <2>1, WriteFileType DEF Command
  <2> QED
    BY <2>1, <2>3, <2>4, <2>5 DEF Command
<1>3. ASSUME NEW s \in Site, AddWatch(s)
      PROVE  TypeOK'
  BY <1>3 DEF AddWatch, WatcherState
<1>4. ASSUME NEW s \in Site, InitialProcess(s)
      PROVE  TypeOK'
  <2>1. ProcessServiceDefs(s)
    BY <1>4 DEF InitialProcess
  <2>2. heardFrom' \in [Site -> [Site -> Age]]
    BY <1>4, AgeLimitAssumption DEF InitialProcess, Age
  <2> QED
    BY <1>4, <2>1, <2>2, ProcessType DEF InitialProcess, WatcherState
<1>5. ASSUME NEW s \in Site, HandleWriteEvent(s)
      PROVE  TypeOK'
  BY <1>5, ProcessType DEF HandleWriteEvent
<1>6. ASSUME NEW s \in Site, Dial(s)
      PROVE  TypeOK'
  BY <1>6 DEF Dial, SyncState
<1>7. ASSUME NEW s \in Site, SendUpdate(s)
      PROVE  TypeOK'
  <2>1. [origin |-> s, services |-> localServices[s]] \in Update
    BY DEF Update
  <2>2. inbox' \in [Site -> Seq(Update)]
    BY <1>7, <2>1 DEF SendUpdate
  <2> QED
    BY <1>7, <2>2 DEF SendUpdate
<1>8. ASSUME NEW s \in Site, NEW o \in Site, Receive(s, o)
      PROVE  TypeOK'
  <2>1. inbox' \in [Site -> Seq(Update)]
    BY <1>8 DEF Receive
  <2>2. CASE o = s
    BY <1>8, <2>1, <2>2 DEF Receive
  <2>3. CASE o # s
    <3>1. Head(inbox[s]) \in Update
      BY <1>8 DEF Receive
    <3>2. Indexed(Head(inbox[s]).services, o) \in Registry
      BY <3>1, IndexedType DEF Update
    <3>3. EnsureServiceInterfaceDefinitions(
             s, o, Indexed(Head(inbox[s]).services, o))
      BY <1>8, <2>3 DEF Receive
    <3> QED
      BY <1>8, <2>1, <3>2, <3>3, EnsureType DEF Receive
  <2> QED
    BY <2>2, <2>3
<1>9. ASSUME NEW s \in Site, Elapse(s)
      PROVE  TypeOK'
  <2>1. heardFrom' \in [Site -> [Site -> Age]]
    BY <1>9, AgeLimitAssumption DEF Elapse, Age, Never
  <2> QED
    BY <1>9, <2>1 DEF Elapse
<1>10. ASSUME NEW s \in Site, AgeTick(s)
       PROVE  TypeOK'
  <2> DEFINE deleted == UNION {byOrigin[s][o] : o \in Aged(s)}
  <2>1. UpdateSkupperServices(file[s], {}, EmptyRegistry, deleted)
          \in Registry
    BY UpdateSkupperServicesType, EmptyRegistryType
  <2>2. file' \in [Site -> Registry] /\ pending' \in [Site -> BOOLEAN]
    BY <1>10, <2>1, WriteFileType DEF AgeTick
  <2>3. heardFrom' \in [Site -> [Site -> Age]]
    BY <1>10 DEF AgeTick, Age
  <2>4. byOrigin' \in [Site -> [Site -> SUBSET Address]]
    BY <1>10 DEF AgeTick
  <2> QED
    BY <1>10, <2>2, <2>3, <2>4 DEF AgeTick
<1>11. ASSUME NEW s \in Site, DialFails(s)
       PROVE  TypeOK'
  BY <1>11, MaxEventsAssumption DEF DialFails, Event, SyncState
<1>12. ASSUME NEW s \in Site, LoseConnection(s)
       PROVE  TypeOK'
  BY <1>12, MaxEventsAssumption DEF LoseConnection, Event, SyncState
<1>13. ASSUME NEW s \in Site, LoseUpdate(s)
       PROVE  TypeOK'
  BY <1>13 DEF LoseUpdate
<1>14. ASSUME NEW s \in Site, Stop(s)
       PROVE  TypeOK'
  BY <1>14, MaxEventsAssumption, EmptyRegistryType
     DEF Stop, Event, WatcherState, SyncState, NothingTracked, NothingHeard,
         Age
<1>15. ASSUME NEW s \in Site, Start(s)
       PROVE  TypeOK'
  BY <1>15 DEF Start, WatcherState, SyncState
<1>16. ASSUME NEW s \in Site, AddWatchFails(s)
       PROVE  TypeOK'
  BY <1>16, MaxEventsAssumption DEF AddWatchFails, Event, WatcherState
<1> QED
  BY <1>1, <1>2, <1>3, <1>4, <1>5, <1>6, <1>7, <1>8, <1>9, <1>10, <1>11,
     <1>12, <1>13, <1>14, <1>15, <1>16 DEF Next, Watch, Exchange, Fault

(* Every variable has its type in every reachable state. *)
THEOREM TypeCorrect == Spec => []TypeOK
  BY InitType, TypeStep, PTL DEF Spec

-----------------------------------------------------------------------------
(* Where imported definitions come from. *)

(* The update s takes off its link installs the imported definition of a. *)
Installs(s, a, o) ==
    /\ Receive(s, o)
    /\ o # s
    /\ Head(inbox[s]) \in Update
    /\ Head(inbox[s]).services[a] # NoDef
    /\ file'[s][a].port = Head(inbox[s]).services[a].port
    /\ file'[s][a].targets = Head(inbox[s]).services[a].targets

(* An imported definition was in the file already, or an update of its     *)
(* origin has just brought it.                                             *)
LEMMA ImportsAreInstalled ==
    ASSUME TypeOK, [Next]_vars,
           NEW s \in Site, NEW a \in Address, NEW o \in Site,
           ComesFrom(file'[s][a], o)
    PROVE  \/ /\ ComesFrom(file[s][a], o)
              /\ file'[s][a].port = file[s][a].port
              /\ file'[s][a].targets \subseteq file[s][a].targets
           \/ Installs(s, a, o)
<1> USE DEF TypeOK, ctlVars
<1>1. CASE UNCHANGED file
  BY <1>1
<1>2. ASSUME NEW z \in Site, Operator(z)
      PROVE  /\ ComesFrom(file[s][a], o)
             /\ file'[s][a].port = file[s][a].port
             /\ file'[s][a].targets \subseteq file[s][a].targets
  <2>1. PICK defs \in Registry : /\ Command(z, defs)
                                 /\ NothingImported(file[z], defs)
    BY <1>2, OperatorCommands
  <2>2. file' = [file EXCEPT ![z] = defs]
    BY <2>1 DEF Command, WriteFile
  <2> QED
    BY <2>1, <2>2 DEF NothingImported
<1>3. ASSUME NEW z \in Site, AgeTick(z)
      PROVE  /\ ComesFrom(file[s][a], o)
             /\ file'[s][a].port = file[s][a].port
             /\ file'[s][a].targets \subseteq file[s][a].targets
  <2> DEFINE deleted == UNION {byOrigin[z][q] : q \in Aged(z)}
             new == UpdateSkupperServices(file[z], {}, EmptyRegistry, deleted)
  <2>1. new[a] = NoDef \/ new[a] = file[z][a]
    BY DEF UpdateSkupperServices
  <2>2. file' = file \/ file' = [file EXCEPT ![z] = new]
    BY <1>3 DEF AgeTick, WriteFile
  <2> QED
    BY <2>1, <2>2 DEF ComesFrom
<1>4. ASSUME NEW z \in Site, NEW q \in Site, Receive(z, q)
      PROVE  \/ /\ ComesFrom(file[s][a], o)
                /\ file'[s][a].port = file[s][a].port
                /\ file'[s][a].targets \subseteq file[s][a].targets
             \/ Installs(s, a, o)
  <2> DEFINE head == Head(inbox[z])
             update == Indexed(head.services, q)
             changed == Changed(byName[z], q, update)
             deleted == Deleted(byOrigin[z][q], update)
             new == UpdateSkupperServices(file[z], changed, update, deleted)
  <2>1. CASE UNCHANGED file
    BY <2>1
  <2>2. CASE ~UNCHANGED file
    <3>1. q # z /\ file' = [file EXCEPT ![z] = new]
      BY <1>4, <2>2 DEF Receive, EnsureServiceInterfaceDefinitions, WriteFile
    <3>2. head \in Update
      BY <1>4 DEF Receive
    <3>3. update \in Registry
      BY <3>2, IndexedType DEF Update
    <3>4. new \in Registry
      BY <3>3, UpdateSkupperServicesType
    <3>5. CASE s # z \/ new[a] = file[s][a]
      BY <3>1, <3>5
    <3>6. CASE s = z /\ new[a] # file[s][a]
      <4>1. file'[s][a] = new[a] /\ new[a] # NoDef
        BY <3>1, <3>6 DEF ComesFrom
      <4>2. new[a] = update[a]
        BY <3>6, <4>1 DEF UpdateSkupperServices
      <4>3. /\ head.services[a] # NoDef
            /\ update[a] = [head.services[a] EXCEPT !.origin = q]
        BY <4>1, <4>2 DEF Indexed
      <4>4. head.services[a] \in Definition
        BY <3>2, <4>3 DEF Update, Registry
      <4>5. /\ update[a].origin = q
            /\ update[a].port = head.services[a].port
            /\ update[a].targets = head.services[a].targets
        BY <4>3, <4>4 DEF Definition
      <4>6. o = q
        BY <4>1, <4>2, <4>5 DEF ComesFrom
      <4> QED
        BY <1>4, <3>1, <3>2, <3>6, <4>1, <4>2, <4>3, <4>5, <4>6 DEF Installs
    <3> QED
      BY <3>5, <3>6
  <2> QED
    BY <2>1, <2>2
<1>5. ASSUME NEW z \in Site,
             \/ AddWatch(z) \/ InitialProcess(z) \/ HandleWriteEvent(z)
             \/ Dial(z) \/ SendUpdate(z) \/ Elapse(z) \/ DialFails(z)
             \/ AddWatchFails(z)
             \/ LoseConnection(z) \/ LoseUpdate(z) \/ Stop(z) \/ Start(z)
      PROVE  UNCHANGED file
  BY <1>5 DEF AddWatch, InitialProcess, HandleWriteEvent, Dial, SendUpdate,
              Elapse, DialFails,
              AddWatchFails, LoseConnection, LoseUpdate, Stop, Start
<1> QED
  BY <1>1, <1>2, <1>3, <1>4, <1>5 DEF Next, Watch, Exchange, Fault, vars

(* No site ever holds a definition that names it as the origin. *)
THEOREM NoSelfImportHolds == Spec => []NoSelfImport
<1>1. Init => NoSelfImport
  BY DEF Init, NoSelfImport, EmptyRegistry, ComesFrom
<1>2. TypeOK /\ NoSelfImport /\ [Next]_vars => NoSelfImport'
  BY ImportsAreInstalled DEF NoSelfImport, Installs
<1> QED
  BY <1>1, <1>2, TypeCorrect, PTL DEF Spec

-----------------------------------------------------------------------------
(* Provenance.  It is not inductive: the definitions on their way, and     *)
(* those the controllers are about to send, must have been local at their  *)
(* sender too.                                                             *)

OffersKnown ==
    \A s \in Site : \A a \in Address :
       IsLocal(file[s][a]) => <<a, file[s][a].port>> \in everLocal[s]

SentKnown ==
    \A s \in Site : \A a \in Address :
       localServices[s][a] # NoDef
         => <<a, localServices[s][a].port>> \in everLocal[s]

InFlightKnown ==
    \A s \in Site : \A i \in 1..Len(inbox[s]) : \A a \in Address :
       inbox[s][i].services[a] # NoDef
         => <<a, inbox[s][i].services[a].port>>
              \in everLocal[inbox[s][i].origin]

ProvenanceInv == OffersKnown /\ SentKnown /\ InFlightKnown /\ Provenance

(* A command changes the file and nothing of the controller. *)
LEMMA OperatorFrame ==
    ASSUME TypeOK, NEW s \in Site, Operator(s)
    PROVE  /\ UNCHANGED <<watcher, sync, byOrigin, byName, localServices,
                          heardFrom, bindings, attached, inbox>>
           /\ events' = events + 1
  BY OperatorCommands DEF Command, Event, ctlVars

(* What was ever local is not forgotten. *)
LEMMA EverLocalGrows ==
    ASSUME TypeOK, [Next]_vars, NEW s \in Site
    PROVE  everLocal[s] \subseteq everLocal'[s]
<1> USE DEF TypeOK, ctlVars
<1>1. CASE UNCHANGED everLocal
  BY <1>1
<1>2. ASSUME NEW z \in Site, Operator(z)
      PROVE  everLocal[s] \subseteq everLocal'[s]
  <2>1. PICK defs \in Registry : Command(z, defs)
    BY <1>2, OperatorCommands
  <2>2. everLocal' = [everLocal EXCEPT ![z] = @ \cup Offers(defs)]
    BY <2>1 DEF Command
  <2> QED
    BY <2>2
<1> QED
  BY <1>1, <1>2 DEF Next, Watch, Exchange, Fault, vars, AddWatch,
     InitialProcess, HandleWriteEvent, Dial, SendUpdate, Receive, Elapse,
     AgeTick, DialFails, AddWatchFails, LoseConnection, LoseUpdate, Stop, Start

(* The local definitions of a file are those of its view. *)
LEMMA LatestPort ==
    ASSUME NEW defs \in Registry, NEW a \in Address,
           Latest(defs)[a] # NoDef
    PROVE  IsLocal(defs[a]) /\ Latest(defs)[a].port = defs[a].port
<1>1. IsLocal(defs[a]) /\ Latest(defs)[a] = Strip(defs[a])
  BY DEF Latest
<1>2. defs[a] \in Definition
  BY <1>1 DEF IsLocal, Registry
<1>3. [defs[a] EXCEPT !.option = Plain, !.targets = {}].port = defs[a].port
  BY <1>2 DEF Definition
<1> QED
  BY <1>1, <1>3 DEF Strip, IsLocal

(* What is local is recorded in the step that makes it local: only a       *)
(* command does; an update and an age tick write imports or nothing.       *)
LEMMA OffersKnownStep ==
    ASSUME TypeOK, [Next]_vars, OffersKnown
    PROVE  OffersKnown'
<1> USE DEF TypeOK, ctlVars
<1>1. CASE UNCHANGED <<file, everLocal>>
  BY <1>1 DEF OffersKnown
<1>2. ASSUME NEW z \in Site, Operator(z)
      PROVE  OffersKnown'
  <2>1. PICK defs \in Registry : Command(z, defs)
    BY <1>2, OperatorCommands
  <2>2. /\ file' = [file EXCEPT ![z] = defs]
        /\ everLocal' = [everLocal EXCEPT ![z] = @ \cup Offers(defs)]
    BY <2>1 DEF Command, WriteFile
  <2>3. \A a \in Address :
           IsLocal(defs[a]) => <<a, defs[a].port>> \in Offers(defs)
    BY DEF Offers, LocalNames
  <2> QED
    BY <2>2, <2>3 DEF OffersKnown
<1>3. ASSUME NEW z \in Site,
             AgeTick(z) \/ \E o \in Site : Receive(z, o)
      PROVE  OffersKnown'
  <2>1. UNCHANGED everLocal
    BY <1>3 DEF AgeTick, Receive
  <2>2. ASSUME NEW s \in Site, NEW a \in Address, IsLocal(file'[s][a])
        PROVE  file'[s][a] = file[s][a]
    <3>1. CASE UNCHANGED file
      BY <3>1
    <3>2. CASE AgeTick(z) /\ ~UNCHANGED file
      <4> DEFINE deleted == UNION {byOrigin[z][o] : o \in Aged(z)}
                 new == UpdateSkupperServices(file[z], {}, EmptyRegistry,
                                              deleted)
      <4>1. file' = [file EXCEPT ![z] = new]
        BY <3>2 DEF AgeTick, WriteFile
      <4>2. new[a] = NoDef \/ new[a] = file[z][a]
        BY DEF UpdateSkupperServices
      <4> HIDE DEF new
      <4> QED
        BY <2>2, <4>1, <4>2 DEF IsLocal
    <3>3. ASSUME NEW o \in Site, Receive(z, o), ~UNCHANGED file
          PROVE  file'[s][a] = file[s][a]
      <4> DEFINE head == Head(inbox[z])
                 update == Indexed(head.services, o)
                 changed == Changed(byName[z], o, update)
                 deleted == Deleted(byOrigin[z][o], update)
                 new == UpdateSkupperServices(file[z], changed, update,
                                              deleted)
      <4>1. file' = [file EXCEPT ![z] = new]
        BY <3>3 DEF Receive, EnsureServiceInterfaceDefinitions, WriteFile
      <4>2. head \in Update
        BY <3>3 DEF Receive
      <4>3. update[a] # NoDef => update[a].origin = o
        <5>1. SUFFICES ASSUME update[a] # NoDef
                       PROVE  update[a].origin = o
          OBVIOUS
        <5>2. /\ head.services[a] # NoDef
              /\ update[a] = [head.services[a] EXCEPT !.origin = o]
          BY <5>1 DEF Indexed
        <5>3. head.services[a] \in Definition
          BY <4>2, <5>2 DEF Update, Registry
        <5> QED
          BY <5>2, <5>3 DEF Definition
      <4>4. ~IsLocal(update[a])
        BY <4>3, LocalAssumption DEF IsLocal
      <4>5. new[a] = NoDef \/ new[a] = update[a] \/ new[a] = file[z][a]
        BY DEF UpdateSkupperServices
      <4> HIDE DEF new, update
      <4> QED
        BY <2>2, <4>1, <4>4, <4>5 DEF IsLocal
    <3> QED
      BY <1>3, <3>1, <3>2, <3>3
  <2> QED
    BY <2>1, <2>2 DEF OffersKnown
<1> QED
  BY <1>1, <1>2, <1>3 DEF Next, Watch, Exchange, Fault, vars, AddWatch,
     InitialProcess, HandleWriteEvent, Dial, SendUpdate, Elapse, DialFails,
     AddWatchFails, LoseConnection, LoseUpdate, Stop, Start

(* The controllers' views and the updates on their way stay known. *)
LEMMA SentKnownStep ==
    ASSUME TypeOK, [Next]_vars, OffersKnown, SentKnown
    PROVE  SentKnown'
<1> USE DEF TypeOK, ctlVars
<1>1. \A s \in Site : everLocal[s] \subseteq everLocal'[s]
  BY EverLocalGrows
<1>2. CASE UNCHANGED localServices
  BY <1>1, <1>2 DEF SentKnown
<1>3. ASSUME NEW z \in Site, InitialProcess(z) \/ HandleWriteEvent(z)
      PROVE  SentKnown'
  <2>1. localServices' = [localServices EXCEPT ![z] = Latest(file[z])]
    BY <1>3 DEF InitialProcess, HandleWriteEvent, ProcessServiceDefs
  <2>2. \A a \in Address : Latest(file[z])[a] # NoDef
           => <<a, Latest(file[z])[a].port>> \in everLocal[z]
    BY LatestPort DEF OffersKnown
  <2> QED
    BY <1>1, <2>1, <2>2 DEF SentKnown
<1>4. ASSUME NEW z \in Site, Stop(z)
      PROVE  SentKnown'
  BY <1>1, <1>4 DEF Stop, SentKnown, EmptyRegistry
<1>5. ASSUME NEW z \in Site, Operator(z)
      PROVE  UNCHANGED localServices
  BY <1>5, OperatorFrame
<1> QED
  BY <1>2, <1>3, <1>4, <1>5 DEF Next, Watch, Exchange, Fault, vars, AddWatch,
     Dial, SendUpdate, Receive, Elapse, AgeTick, DialFails,
     AddWatchFails, LoseConnection,
     LoseUpdate, Start

(* An update on a link after a step was there before, or has just been     *)
(* sent.                                                                   *)
LEMMA InboxCause ==
    ASSUME TypeOK, [Next]_vars, NEW s \in Site, NEW i \in 1..Len(inbox'[s])
    PROVE  \/ \E j \in 1..Len(inbox[s]) : inbox'[s][i] = inbox[s][j]
           \/ \E z \in Site : /\ inbox'[s][i].origin = z
                              /\ inbox'[s][i].services = localServices[z]
<1> USE DEF TypeOK, ctlVars
<1>1. CASE UNCHANGED inbox
  BY <1>1
<1>2. ASSUME NEW z \in Site, SendUpdate(z)
      PROVE  \/ \E j \in 1..Len(inbox[s]) : inbox'[s][i] = inbox[s][j]
             \/ /\ inbox'[s][i].origin = z
                /\ inbox'[s][i].services = localServices[z]
  <2> DEFINE msg == [origin |-> z, services |-> localServices[z]]
  <2>1. msg \in Update
    BY DEF Update
  <2>2. inbox'[s] = inbox[s] \/ inbox'[s] = Append(inbox[s], msg)
    BY <1>2 DEF SendUpdate
  <2>3. inbox'[s][i] = msg \/ (/\ i \in 1..Len(inbox[s])
                               /\ inbox'[s][i] = inbox[s][i])
    BY <2>1, <2>2
  <2> QED
    BY <2>3
<1>3. ASSUME NEW z \in Site,
             inbox' = [inbox EXCEPT ![z] = Tail(@)], inbox[z] # <<>>
      PROVE  \E j \in 1..Len(inbox[s]) : inbox'[s][i] = inbox[s][j]
  <2>1. CASE s # z
    BY <1>3, <2>1
  <2>2. CASE s = z
    <3>1. inbox'[s] = Tail(inbox[s])
      BY <1>3, <2>2
    <3>2. i + 1 \in 1..Len(inbox[s]) /\ inbox'[s][i] = inbox[s][i + 1]
      BY <1>3, <2>2, <3>1
    <3> QED
      BY <3>2
  <2> QED
    BY <2>1, <2>2
<1>4. ASSUME NEW z \in Site, LoseConnection(z) \/ Stop(z)
      PROVE  \E j \in 1..Len(inbox[s]) : inbox'[s][i] = inbox[s][j]
  <2>1. inbox' = [inbox EXCEPT ![z] = <<>>]
    BY <1>4 DEF LoseConnection, Stop
  <2> QED
    BY <2>1
<1>5. ASSUME NEW z \in Site, Operator(z)
      PROVE  UNCHANGED inbox
  BY <1>5, OperatorFrame
<1>6. ASSUME NEW z \in Site,
             LoseUpdate(z) \/ \E o \in Site : Receive(z, o)
      PROVE  \E j \in 1..Len(inbox[s]) : inbox'[s][i] = inbox[s][j]
  BY <1>3, <1>6 DEF LoseUpdate, Receive
<1> QED
  BY <1>1, <1>2, <1>4, <1>5, <1>6 DEF Next, Watch, Exchange, Fault, vars,
     AddWatch, InitialProcess, HandleWriteEvent, Dial, Elapse, AgeTick,
     DialFails, AddWatchFails, Start

LEMMA InFlightKnownStep ==
    ASSUME TypeOK, [Next]_vars, SentKnown, InFlightKnown
    PROVE  InFlightKnown'
<1> SUFFICES ASSUME NEW s \in Site, NEW i \in 1..Len(inbox'[s]),
                    NEW a \in Address, inbox'[s][i].services[a] # NoDef
             PROVE  <<a, inbox'[s][i].services[a].port>>
                      \in everLocal'[inbox'[s][i].origin]
  BY DEF InFlightKnown
<1>1. \A z \in Site : everLocal[z] \subseteq everLocal'[z]
  BY EverLocalGrows
<1>2. ASSUME NEW j \in 1..Len(inbox[s]), inbox'[s][i] = inbox[s][j]
      PROVE  <<a, inbox'[s][i].services[a].port>>
               \in everLocal'[inbox'[s][i].origin]
  <2>1. inbox[s][j] \in Update /\ inbox[s][j].origin \in Site
    <3>1. inbox[s][j] \in Update
      BY DEF TypeOK
    <3> QED
      BY <3>1 DEF Update
  <2>2. <<a, inbox[s][j].services[a].port>>
           \in everLocal[inbox[s][j].origin]
    BY <1>2 DEF InFlightKnown
  <2> QED
    BY <1>1, <1>2, <2>1, <2>2
<1>3. ASSUME NEW z \in Site, inbox'[s][i].origin = z,
             inbox'[s][i].services = localServices[z]
      PROVE  <<a, inbox'[s][i].services[a].port>>
               \in everLocal'[inbox'[s][i].origin]
  BY <1>1, <1>3 DEF SentKnown
<1> QED
  BY <1>2, <1>3, InboxCause

(* What an update installs was local at its origin. *)
LEMMA ProvenanceStep ==
    ASSUME TypeOK, [Next]_vars, InFlightKnown, Provenance
    PROVE  Provenance'
<1> SUFFICES ASSUME NEW s \in Site, NEW o \in Site, NEW a \in Address,
                    ComesFrom(file'[s][a], o)
             PROVE  <<a, file'[s][a].port>> \in everLocal'[o]
  BY DEF Provenance
<1>1. everLocal[o] \subseteq everLocal'[o]
  BY EverLocalGrows
<1>2. CASE ComesFrom(file[s][a], o) /\ file'[s][a].port = file[s][a].port
  BY <1>1, <1>2 DEF Provenance
<1>3. CASE Installs(s, a, o)
  <2>1. /\ inbox[s] # <<>> /\ inbox[s] \in Seq(Update)
        /\ Head(inbox[s]).origin = o
        /\ Head(inbox[s]).services[a] # NoDef
        /\ file'[s][a].port = Head(inbox[s]).services[a].port
    BY <1>3 DEF Installs, Receive, TypeOK
  <2>2. 1 \in 1..Len(inbox[s]) /\ Head(inbox[s]) = inbox[s][1]
    BY <2>1
  <2> QED
    BY <1>1, <2>1, <2>2 DEF InFlightKnown
<1> QED
  BY <1>2, <1>3, ImportsAreInstalled

(* An imported definition, with its settings, was local at its origin.     *)
THEOREM ProvenanceHolds == Spec => []Provenance
<1>1. Init => ProvenanceInv
  BY DEF Init, ProvenanceInv, OffersKnown, SentKnown, InFlightKnown,
         Provenance, EmptyRegistry, IsLocal, ComesFrom
<1>2. TypeOK /\ ProvenanceInv /\ [Next]_vars => ProvenanceInv'
  BY OffersKnownStep, SentKnownStep, InFlightKnownStep, ProvenanceStep
     DEF ProvenanceInv
<1>3. ProvenanceInv => Provenance
  BY DEF ProvenanceInv
<1> QED
  BY <1>1, <1>2, <1>3, TypeCorrect, PTL DEF Spec

-----------------------------------------------------------------------------
(* The controller's views. *)

(* Nothing changed at s that the file or its views depend on. *)
Idle(s) ==
    /\ file'[s] = file[s]
    /\ byName'[s] = byName[s]
    /\ localServices'[s] = localServices[s]
    /\ bindings'[s] = bindings[s]
    /\ byOrigin'[s] = byOrigin[s]

(* A write leaves an event for a watcher that is watching. *)
LEMMA WriteIsPending ==
    ASSUME TypeOK, NEW s \in Site, NEW z \in Site, NEW defs,
           WriteFile(z, defs), UNCHANGED watcher, CaughtUp(s)'
    PROVE  s # z /\ file'[s] = file[s] /\ pending'[s] = pending[s]
<1>1. watcher[s] = "watching" /\ ~pending'[s]
  BY DEF CaughtUp
<1>2. s # z
  BY <1>1 DEF WriteFile, TypeOK
<1> QED
  BY <1>2 DEF WriteFile, TypeOK

(* An update or an age tick that leaves no event leaves file and tracking  *)
(* as they are.                                                            *)
LEMMA QuietReceive ==
    ASSUME TypeOK, NEW s \in Site, NEW z \in Site, NEW o \in Site,
           Receive(z, o), CaughtUp(s)'
    PROVE  CaughtUp(s) /\ Idle(s)
<1> DEFINE update == Indexed(Head(inbox[z]).services, o)
           changed == Changed(byName[z], o, update)
           deleted == Deleted(byOrigin[z][o], update)
           new == UpdateSkupperServices(file[z], changed, update, deleted)
<1>1. UNCHANGED <<watcher, byName, localServices, bindings>>
  BY DEF Receive
<1>2. CASE o = z
  BY <1>1, <1>2 DEF Receive, CaughtUp, Idle
<1>3. CASE o # z
  <2>1. /\ byOrigin' = [byOrigin EXCEPT ![z][o] = @ \ deleted]
        /\ IF changed = {} /\ deleted = {} THEN UNCHANGED <<file, pending>>
           ELSE WriteFile(z, new)
    BY <1>3 DEF Receive, EnsureServiceInterfaceDefinitions
  <2>2. CASE changed = {} /\ deleted = {}
    <3>1. byOrigin'[s] = byOrigin[s]
      BY <2>1, <2>2 DEF TypeOK
    <3> QED
      BY <1>1, <2>1, <2>2, <3>1 DEF CaughtUp, Idle
  <2>3. CASE ~(changed = {} /\ deleted = {})
    <3>1. WriteFile(z, new)
      BY <2>1, <2>3
    <3>2. s # z /\ file'[s] = file[s] /\ pending'[s] = pending[s]
      BY <1>1, <3>1, WriteIsPending
    <3>3. byOrigin'[s] = byOrigin[s]
      BY <2>1, <3>2 DEF TypeOK
    <3> QED
      BY <1>1, <3>2, <3>3 DEF CaughtUp, Idle
  <2> QED
    BY <2>2, <2>3
<1> QED
  BY <1>2, <1>3

LEMMA QuietAgeTick ==
    ASSUME TypeOK, NEW s \in Site, NEW z \in Site, AgeTick(z), CaughtUp(s)'
    PROVE  CaughtUp(s) /\ Idle(s)
<1> DEFINE deleted == UNION {byOrigin[z][o] : o \in Aged(z)}
           new == UpdateSkupperServices(file[z], {}, EmptyRegistry, deleted)
<1>1. /\ UNCHANGED <<watcher, byName, localServices, bindings>>
      /\ byOrigin' = [byOrigin EXCEPT
           ![z] = [o \in Site |-> IF o \in Aged(z) THEN {} ELSE @[o]]]
      /\ IF deleted = {} THEN UNCHANGED <<file, pending>>
         ELSE WriteFile(z, new)
  BY DEF AgeTick
<1>2. CASE deleted = {}
  <2>1. \A o \in Aged(z) : byOrigin[z][o] = {}
    BY <1>2
  <2>2. byOrigin'[s] = byOrigin[s]
    BY <1>1, <2>1 DEF TypeOK, Aged
  <2> QED
    BY <1>1, <1>2, <2>2 DEF CaughtUp, Idle
<1>3. CASE deleted # {}
  <2>1. s # z /\ file'[s] = file[s] /\ pending'[s] = pending[s]
    BY <1>1, <1>3, WriteIsPending
  <2>2. byOrigin'[s] = byOrigin[s]
    BY <1>1, <2>1 DEF TypeOK
  <2> QED
    BY <1>1, <2>1, <2>2 DEF CaughtUp, Idle
<1> QED
  BY <1>2, <1>3

(* A site that is caught up after a step either has just processed its     *)
(* file or was caught up before, with the same file.                       *)
LEMMA CaughtUpCause ==
    ASSUME TypeOK, [Next]_vars, NEW s \in Site, CaughtUp(s)'
    PROVE  \/ UNCHANGED file /\ ProcessServiceDefs(s)
           \/ CaughtUp(s) /\ Idle(s)
<1> USE DEF TypeOK, ctlVars
<1>1. CASE UNCHANGED <<file, pending, watcher, byName, localServices,
                       bindings, byOrigin>>
  BY <1>1 DEF CaughtUp, Idle
<1>2. ASSUME NEW z \in Site, Operator(z)
      PROVE  CaughtUp(s) /\ Idle(s)
  <2>1. PICK defs \in Registry : Command(z, defs)
    BY <1>2, OperatorCommands
  <2>2. WriteFile(z, defs) /\ UNCHANGED <<watcher, ctlVars>>
    BY <2>1 DEF Command
  <2>3. file'[s] = file[s] /\ pending'[s] = pending[s]
    BY <2>2, WriteIsPending
  <2> QED
    BY <2>2, <2>3 DEF CaughtUp, Idle
<1>3. ASSUME NEW z \in Site, AddWatch(z)
      PROVE  CaughtUp(s) /\ Idle(s)
  BY <1>3 DEF AddWatch, CaughtUp, Idle
<1>4. ASSUME NEW z \in Site, InitialProcess(z) \/ HandleWriteEvent(z)
      PROVE  \/ UNCHANGED file /\ ProcessServiceDefs(s)
             \/ CaughtUp(s) /\ Idle(s)
  <2>1. UNCHANGED file /\ ProcessServiceDefs(z)
    BY <1>4 DEF InitialProcess, HandleWriteEvent
  <2>2. CASE s = z
    BY <2>1, <2>2
  <2>3. CASE s # z
    BY <1>4, <2>1, <2>3 DEF InitialProcess, HandleWriteEvent, CaughtUp, Idle,
                            ProcessServiceDefs
  <2> QED
    BY <2>2, <2>3
<1>5. ASSUME NEW z \in Site, NEW o \in Site, Receive(z, o)
      PROVE  CaughtUp(s) /\ Idle(s)
  BY <1>5, QuietReceive
<1>6. ASSUME NEW z \in Site, AgeTick(z)
      PROVE  CaughtUp(s) /\ Idle(s)
  BY <1>6, QuietAgeTick
<1>7. ASSUME NEW z \in Site, Stop(z)
      PROVE  CaughtUp(s) /\ Idle(s)
  BY <1>7 DEF Stop, CaughtUp, Idle
<1>8. ASSUME NEW z \in Site, Start(z)
      PROVE  CaughtUp(s) /\ Idle(s)
  BY <1>8 DEF Start, CaughtUp, Idle
<1>9. ASSUME NEW z \in Site, AddWatchFails(z)
      PROVE  CaughtUp(s) /\ Idle(s)
  BY <1>9 DEF AddWatchFails, CaughtUp, Idle
<1> QED
  BY <1>1, <1>2, <1>3, <1>4, <1>5, <1>6, <1>7, <1>8, <1>9
     DEF Next, Watch, Exchange, Fault, vars, Dial, SendUpdate, Elapse,
         DialFails, AddWatchFails, LoseConnection, LoseUpdate

(* A site without a waiting Write event has the views of its file.         *)
THEOREM CoherentCachesHolds == Spec => []CoherentCaches
<1>1. Init => CoherentCaches
  BY DEF Init, CoherentCaches, CaughtUp
<1>2. TypeOK /\ CoherentCaches /\ [Next]_vars => CoherentCaches'
  <2> SUFFICES ASSUME TypeOK, CoherentCaches, [Next]_vars,
                      NEW s \in Site, CaughtUp(s)'
               PROVE  /\ byName'[s] = AllByName(file'[s])
                      /\ localServices'[s] = Latest(file'[s])
                      /\ bindings'[s] = file'[s]
    BY DEF CoherentCaches
  <2>1. CASE UNCHANGED file /\ ProcessServiceDefs(s)
    BY <2>1 DEF ProcessServiceDefs, TypeOK
  <2>2. CASE CaughtUp(s) /\ Idle(s)
    BY <2>2 DEF Idle, CoherentCaches
  <2> QED
    BY <2>1, <2>2, CaughtUpCause
<1> QED
  BY <1>1, <1>2, TypeCorrect, PTL DEF Spec

(* Processing the file tracks every import in it. *)
LEMMA ProcessTracks ==
    ASSUME TypeOK, NEW s \in Site, ProcessServiceDefs(s),
           NEW o \in Site, NEW a \in Address, ComesFrom(file[s][a], o)
    PROVE  a \in byOrigin'[s][o]
<1>1. PICK pick \in Picks(byOrigin[s]) :
        byOrigin' = [byOrigin EXCEPT
                       ![s] = TrackedAfter(byOrigin[s], file[s], pick)]
  BY DEF ProcessServiceDefs
<1> QED
  BY <1>1 DEF TrackedAfter, TypeOK

(* A site without a waiting Write event tracks every import of its file.   *)
THEOREM TrackedHolds == Spec => []Tracked
<1>1. Init => Tracked
  BY DEF Init, Tracked, CaughtUp
<1>2. TypeOK /\ Tracked /\ [Next]_vars => Tracked'
  <2> SUFFICES ASSUME TypeOK, Tracked, [Next]_vars,
                      NEW s \in Site, NEW o \in Site, NEW a \in Address,
                      CaughtUp(s)', ComesFrom(file'[s][a], o)
               PROVE  a \in byOrigin'[s][o]
    BY DEF Tracked
  <2>1. CASE UNCHANGED file /\ ProcessServiceDefs(s)
    BY <2>1, ProcessTracks
  <2>2. CASE CaughtUp(s) /\ Idle(s)
    BY <2>2 DEF Idle, Tracked
  <2> QED
    BY <2>1, <2>2, CaughtUpCause
<1> QED
  BY <1>1, <1>2, TypeCorrect, PTL DEF Spec

-----------------------------------------------------------------------------
(* Ageing.  That every tracked origin has a clock is not inductive: an     *)
(* import that is not tracked yet must have its origin's clock too, and    *)
(* when an origin's clock has run out all its imports must be tracked, so  *)
(* that the age tick leaves none behind.                                   *)

ImportsHaveClock ==
    \A s, o \in Site : \A a \in Address :
       watcher[s] = "watching" /\ ComesFrom(file[s][a], o)
         => heardFrom[s][o] # Never

AgedTracked ==
    \A s, o \in Site :
       heardFrom[s][o] = AgeLimit =>
          \/ watcher[s] = "deaf"
          \/ /\ watcher[s] = "watching"
             /\ \A a \in Address :
                   ComesFrom(file[s][a], o) => a \in byOrigin[s][o]

SelfUntracked == \A s \in Site : byOrigin[s][s] = {}

AgeInv == ImportsHaveClock /\ AgedTracked /\ SelfUntracked /\ Ageable

(* Processing the file tracks nothing else. *)
LEMMA ProcessOnlyTracks ==
    ASSUME TypeOK, NEW s \in Site, ProcessServiceDefs(s)
    PROVE  /\ \A z \in Site \ {s} : byOrigin'[z] = byOrigin[z]
           /\ \A o \in Site, a \in Address :
                 a \in byOrigin'[s][o]
                   => a \in byOrigin[s][o] \/ ComesFrom(file[s][a], o)
<1>1. PICK pick \in Picks(byOrigin[s]) :
        byOrigin' = [byOrigin EXCEPT
                       ![s] = TrackedAfter(byOrigin[s], file[s], pick)]
  BY DEF ProcessServiceDefs
<1> QED
  BY <1>1 DEF TrackedAfter, TypeOK

(* Never, 0 and the limit are different. *)
LEMMA Ages == Never # 0 /\ Never # AgeLimit /\ 0 # AgeLimit
  BY AgeLimitAssumption DEF Never

(* What processing the file does to the clocks. *)
LEMMA AgeProcess ==
    ASSUME TypeOK, NoSelfImport, AgeInv, NEW z \in Site,
           InitialProcess(z) \/ HandleWriteEvent(z)
    PROVE  AgeInv'
<1> USE DEF TypeOK
<1>1. /\ ProcessServiceDefs(z) /\ UNCHANGED file
      /\ watcher' = [watcher EXCEPT ![z] = "watching"]
  BY DEF InitialProcess, HandleWriteEvent
<1>2. SelfUntracked'
  <2>1. byOrigin' \in [Site -> [Site -> SUBSET Address]]
    BY <1>1, ProcessType
  <2>2. \A s \in Site, a \in Address : a \notin byOrigin'[s][s]
    BY <1>1, ProcessOnlyTracks DEF SelfUntracked, NoSelfImport, AgeInv
  <2> QED
    BY <2>1, <2>2 DEF SelfUntracked
<1>3. /\ \A s \in Site \ {z} : heardFrom'[s] = heardFrom[s]
      /\ \A o \in Site : \/ heardFrom'[z][o] = heardFrom[z][o]
                         \/ heardFrom'[z][o] = 0
  <2>1. CASE InitialProcess(z)
    <3> DEFINE clock == [o \in Site |->
                           IF o # z /\ byOrigin'[z][o] # {} THEN 0
                           ELSE heardFrom[z][o]]
    <3>1. heardFrom' = [heardFrom EXCEPT ![z] = clock]
      BY <2>1 DEF InitialProcess
    <3>2. \A o \in Site : clock[o] = heardFrom[z][o] \/ clock[o] = 0
      OBVIOUS
    <3> HIDE DEF clock
    <3> QED
      BY <3>1, <3>2
  <2>2. CASE HandleWriteEvent(z)
    BY <2>2 DEF HandleWriteEvent
  <2> QED
    BY <2>1, <2>2
<1>4. \A o \in Site : byOrigin'[z][o] # {} => heardFrom'[z][o] # Never
  <2>1. CASE InitialProcess(z)
    BY <1>2, <2>1, Ages DEF InitialProcess, SelfUntracked
  <2>2. CASE HandleWriteEvent(z)
    <3>1. ASSUME NEW o \in Site, NEW a \in Address, a \in byOrigin'[z][o]
          PROVE  heardFrom[z][o] # Never
      BY <1>1, <2>2, <3>1, ProcessOnlyTracks
         DEF HandleWriteEvent, AgeInv, Ageable, ImportsHaveClock
    <3>2. byOrigin' \in [Site -> [Site -> SUBSET Address]]
      BY <1>1, ProcessType
    <3>3. UNCHANGED heardFrom
      BY <2>2 DEF HandleWriteEvent
    <3>4. \A o \in Site :
             byOrigin'[z][o] # {} => \E a \in Address : a \in byOrigin'[z][o]
      BY <3>2
    <3> QED
      BY <3>1, <3>3, <3>4
  <2> QED
    BY <2>1, <2>2
<1>5. Ageable'
  BY <1>1, <1>3, <1>4, ProcessOnlyTracks DEF AgeInv, Ageable
<1>6. ImportsHaveClock'
  <2>1. ASSUME NEW o \in Site, NEW a \in Address, ComesFrom(file[z][a], o)
        PROVE  heardFrom'[z][o] # Never
    BY <1>1, <1>4, <2>1, ProcessTracks
  <2> QED
    BY <1>1, <1>3, <2>1 DEF AgeInv, ImportsHaveClock
<1>7. AgedTracked'
  <2>1. ASSUME NEW s \in Site, NEW o \in Site, heardFrom'[s][o] = AgeLimit
        PROVE  heardFrom[s][o] = AgeLimit
    BY <1>3, <2>1, Ages
  <2> QED
    BY <1>1, <2>1, ProcessTracks, ProcessOnlyTracks DEF AgeInv, AgedTracked
<1> QED
  BY <1>2, <1>5, <1>6, <1>7 DEF AgeInv

(* What an update does to them. *)
LEMMA AgeReceive ==
    ASSUME TypeOK, NoSelfImport, AgeInv, [Next]_vars,
           NEW z \in Site, NEW q \in Site, Receive(z, q)
    PROVE  AgeInv'
<1> USE DEF TypeOK
<1>1. UNCHANGED watcher
  BY DEF Receive
<1>2. CASE q = z
  BY <1>1, <1>2 DEF Receive, AgeInv, ImportsHaveClock, AgedTracked,
                    SelfUntracked, Ageable
<1>3. CASE q # z
  <2>1. heardFrom' = [heardFrom EXCEPT ![z][q] = 0]
    BY <1>3 DEF Receive, EnsureServiceInterfaceDefinitions
  <2>2. PICK deleted : byOrigin' = [byOrigin EXCEPT ![z][q] = @ \ deleted]
    BY <1>3 DEF Receive, EnsureServiceInterfaceDefinitions
  <2>3. ASSUME NEW s \in Site, NEW o \in Site, NEW a \in Address,
               ComesFrom(file'[s][a], o)
        PROVE  ComesFrom(file[s][a], o) \/ heardFrom'[s][o] = 0
    <3>1. CASE Installs(s, a, o)
      BY <3>1 DEF Installs, Receive, EnsureServiceInterfaceDefinitions
    <3> QED
      BY <2>3, <3>1, ImportsAreInstalled
  <2>4. ImportsHaveClock'
    BY <1>1, <2>1, <2>3, Ages DEF AgeInv, ImportsHaveClock
  <2>5. AgedTracked'
    BY <1>1, <2>1, <2>2, <2>3, Ages DEF AgeInv, AgedTracked
  <2>6. SelfUntracked'
    BY <2>2 DEF AgeInv, SelfUntracked
  <2>7. Ageable'
    BY <1>1, <2>1, <2>2, Ages DEF AgeInv, Ageable
  <2> QED
    BY <2>4, <2>5, <2>6, <2>7 DEF AgeInv
<1> QED
  BY <1>2, <1>3

(* The age tick forgets an origin with all its imports. *)
LEMMA AgeAgeTick ==
    ASSUME TypeOK, AgeInv, NEW z \in Site, AgeTick(z)
    PROVE  AgeInv'
<1> USE DEF TypeOK
<1> DEFINE deleted == UNION {byOrigin[z][o] : o \in Aged(z)}
           new == UpdateSkupperServices(file[z], {}, EmptyRegistry, deleted)
<1>1. /\ UNCHANGED watcher
      /\ byOrigin' = [byOrigin EXCEPT
           ![z] = [o \in Site |-> IF o \in Aged(z) THEN {} ELSE @[o]]]
      /\ heardFrom' = [heardFrom EXCEPT
           ![z] = [o \in Site |-> IF o \in Aged(z) THEN Never ELSE @[o]]]
      /\ IF deleted = {} THEN UNCHANGED file
         ELSE file' = [file EXCEPT ![z] = new]
  BY DEF AgeTick, WriteFile
<1>2. ASSUME NEW s \in Site, NEW o \in Site, NEW a \in Address,
             watcher[s] = "watching", ComesFrom(file'[s][a], o)
      PROVE  ComesFrom(file[s][a], o) /\ ~(s = z /\ o \in Aged(z))
  <2>1. a \in deleted => new[a] = NoDef
    BY DEF UpdateSkupperServices
  <2>2. a \notin deleted => new[a] = file[z][a]
    BY DEF UpdateSkupperServices
  <2>3. ComesFrom(file[s][a], o) /\ ~(s = z /\ a \in deleted)
    BY <1>1, <1>2, <2>1, <2>2 DEF ComesFrom
  <2>4. ASSUME s = z, o \in Aged(z)
        PROVE  a \in deleted
    <3>1. heardFrom[z][o] = AgeLimit /\ watcher[z] # "deaf"
      BY <1>2, <2>4 DEF Aged
    <3>2. a \in byOrigin[z][o]
      BY <2>3, <2>4, <3>1 DEF AgeInv, AgedTracked
    <3> QED
      BY <2>4, <3>2
  <2> QED
    BY <2>3, <2>4
<1> HIDE DEF deleted, new
<1>3. ImportsHaveClock'
  BY <1>1, <1>2 DEF AgeInv, ImportsHaveClock
<1>4. AgedTracked'
  BY <1>1, <1>2, Ages DEF AgeInv, AgedTracked
<1>5. SelfUntracked' /\ Ageable'
  BY <1>1 DEF AgeInv, SelfUntracked, Ageable
<1> QED
  BY <1>3, <1>4, <1>5 DEF AgeInv

(* Time runs out only for a site that is caught up, or for one that does   *)
(* not watch its file.                                                     *)
LEMMA AgeElapse ==
    ASSUME TypeOK, Tracked, AgeInv, NEW z \in Site, Elapse(z)
    PROVE  AgeInv'
<1> USE DEF TypeOK
<1>1. /\ CaughtUp(z) \/ watcher[z] = "deaf"
      /\ UNCHANGED <<file, watcher, byOrigin>>
      /\ heardFrom' = [heardFrom EXCEPT
          ![z] = [o \in Site |-> IF @[o] \in 0..(AgeLimit - 1) THEN @[o] + 1
                                 ELSE @[o]]]
  BY DEF Elapse
<1>2. /\ \A s \in Site \ {z} : heardFrom'[s] = heardFrom[s]
      /\ \A o \in Site :
            heardFrom[z][o] # Never => heardFrom'[z][o] # Never
  BY <1>1, AgeLimitAssumption DEF Never, Age
<1>3. ImportsHaveClock' /\ SelfUntracked' /\ Ageable'
  BY <1>1, <1>2 DEF AgeInv, ImportsHaveClock, SelfUntracked, Ageable
<1>4. AgedTracked'
  BY <1>1, <1>2 DEF AgeInv, AgedTracked, Tracked, CaughtUp
<1> QED
  BY <1>3, <1>4 DEF AgeInv

LEMMA AgeStep ==
    ASSUME TypeOK, NoSelfImport, Tracked, AgeInv, [Next]_vars
    PROVE  AgeInv'
<1> USE DEF TypeOK, ctlVars
<1>1. CASE UNCHANGED <<file, watcher, byOrigin, heardFrom>>
  BY <1>1 DEF AgeInv, ImportsHaveClock, AgedTracked, SelfUntracked, Ageable
<1>2. ASSUME NEW z \in Site, Operator(z)
      PROVE  AgeInv'
  <2>1. UNCHANGED <<watcher, byOrigin, heardFrom>>
    BY <1>2, OperatorFrame
  <2>2. PICK defs \in Registry : /\ Command(z, defs)
                                 /\ NothingImported(file[z], defs)
    BY <1>2, OperatorCommands
  <2>3. file' = [file EXCEPT ![z] = defs]
    BY <2>2 DEF Command, WriteFile
  <2>4. \A s, o \in Site : \A a \in Address :
           ComesFrom(file'[s][a], o) => ComesFrom(file[s][a], o)
    BY <2>2, <2>3 DEF NothingImported
  <2> QED
    BY <2>1, <2>4 DEF AgeInv, ImportsHaveClock, AgedTracked, SelfUntracked,
                      Ageable
<1>3. ASSUME NEW z \in Site, AddWatch(z)
      PROVE  AgeInv'
  BY <1>3 DEF AddWatch, AgeInv, ImportsHaveClock, AgedTracked, SelfUntracked,
              Ageable
<1>4. ASSUME NEW z \in Site, Stop(z)
      PROVE  AgeInv'
  BY <1>4, Ages
     DEF Stop, NothingTracked, NothingHeard, AgeInv, ImportsHaveClock,
         AgedTracked, SelfUntracked, Ageable
<1>5. ASSUME NEW z \in Site, Start(z)
      PROVE  AgeInv'
  BY <1>5 DEF Start, AgeInv, ImportsHaveClock, AgedTracked, SelfUntracked,
              Ageable
<1>6. ASSUME NEW z \in Site, AddWatchFails(z)
      PROVE  AgeInv'
  BY <1>6 DEF AddWatchFails, AgeInv, ImportsHaveClock, AgedTracked,
              SelfUntracked, Ageable
<1> QED
  BY <1>1, <1>2, <1>3, <1>4, <1>5, <1>6, AgeProcess, AgeReceive, AgeAgeTick,
     AgeElapse
     DEF Next, Watch, Exchange, Fault, vars, Dial, SendUpdate, DialFails,
         AddWatchFails, LoseConnection, LoseUpdate

(* While the watcher runs, no tracked origin is without a clock.           *)
THEOREM AgeableHolds == Spec => []Ageable
<1>1. Init => AgeInv
  BY Ages DEF Init, NothingTracked, NothingHeard, AgeInv, ImportsHaveClock,
              AgedTracked, SelfUntracked, Ageable
<1>2. TypeOK /\ NoSelfImport /\ Tracked /\ AgeInv /\ [Next]_vars => AgeInv'
  BY AgeStep
<1>3. AgeInv => Ageable
  BY DEF AgeInv
<1> QED
  BY <1>1, <1>2, <1>3, TypeCorrect, NoSelfImportHolds, TrackedHolds, PTL
     DEF Spec
-----------------------------------------------------------------------------
(* The watcher of one site, beside everything else. *)

(* What a site's watcher reads and writes.                                 *)
LEMMA OutOfSight ==
    ASSUME NEW s \in Site, file'[s] = file[s], pending'[s] = pending[s],
           byName'[s] = byName[s], localServices'[s] = localServices[s],
           bindings'[s] = bindings[s],
           \/ watcher'[s] = watcher[s]
           \/ watcher[s] = "stopped" /\ watcher'[s] = "starting"
           \/ watcher[s] = "starting" /\ watcher'[s] = "deaf"
    PROVE  UNCHANGED SiteWatch(s)!watchVars
BY DEF SiteWatch!watchVars

LEMMA WriteSeen ==
    ASSUME TypeOK, NEW z \in Site, NEW defs \in Registry, WriteFile(z, defs),
           UNCHANGED <<watcher, byName, localServices, bindings>>,
           NEW s \in Site
    PROVE  [SiteWatch(s)!WatchNext]_(SiteWatch(s)!watchVars)
<1>1. CASE s = z
  <2>1. file'[s] \in Registry
    BY <1>1 DEF WriteFile, TypeOK
  <2>2. pending'[s] = (watcher[s] \in {"added", "watching"})
    BY <1>1 DEF WriteFile, TypeOK
  <2>3. (watcher'[s] = "added" \/ pending'[s])
          = (watcher[s] \in {"added", "watching"})
    <3>1. watcher'[s] = watcher[s]
      OBVIOUS
    <3>2. CASE watcher[s] \in {"added", "watching"}
      <4>1. pending'[s]
        BY <2>2, <3>2
      <4> QED
        BY <3>2, <4>1
    <3>3. CASE watcher[s] \notin {"added", "watching"}
      <4>1. ~pending'[s] /\ watcher'[s] # "added"
        BY <2>2, <3>1, <3>3
      <4> QED
        BY <3>3, <4>1
    <3> QED
      BY <3>2, <3>3
  <2>4. SiteWatch(s)!Write
    BY <2>1, <2>3 DEF SiteWatch!Write
  <2> QED
    BY <2>4 DEF SiteWatch!WatchNext
<1>2. CASE s # z
  BY <1>2, OutOfSight DEF WriteFile, TypeOK
<1> QED
  BY <1>1, <1>2

LEMMA ProcessSeen ==
    ASSUME TypeOK, NEW z \in Site, NEW s \in Site,
           InitialProcess(z) \/ HandleWriteEvent(z)
    PROVE  [SiteWatch(s)!WatchNext]_(SiteWatch(s)!watchVars)
<1>0. ProcessServiceDefs(z) /\ UNCHANGED file
  BY DEF InitialProcess, HandleWriteEvent
<1>1. CASE s = z
  <2>1. /\ byName'[s] = AllByName(file[s])
        /\ localServices'[s] = Latest(file[s])
        /\ bindings'[s] = file[s]
    BY <1>0, <1>1 DEF ProcessServiceDefs, TypeOK
  <2>2. file[s] # NoDef
    BY NoFileAssumption DEF TypeOK
  <2>3. /\ watcher[s] \in {"added", "watching"}
        /\ watcher'[s] \in {"added", "watching"}
        /\ watcher[s] = "added" \/ pending[s]
        /\ pending'[s] \in BOOLEAN /\ watcher'[s] # "added"
    BY <1>1 DEF InitialProcess, HandleWriteEvent, TypeOK
  <2>4. SiteWatch(s)!Pass
    BY <1>0, <2>1, <2>2, <2>3 DEF SiteWatch!Pass, Views
  <2> QED
    BY <2>4 DEF SiteWatch!WatchNext
<1>2. CASE s # z
  <2>1. /\ byName'[s] = byName[s] /\ bindings'[s] = bindings[s]
        /\ localServices'[s] = localServices[s]
    BY <1>0, <1>2 DEF ProcessServiceDefs, TypeOK
  <2>2. watcher'[s] = watcher[s] /\ pending'[s] = pending[s]
    BY <1>2 DEF InitialProcess, HandleWriteEvent, TypeOK
  <2> QED
    BY <1>0, <2>1, <2>2, OutOfSight
<1> QED
  BY <1>1, <1>2

LEMMA WatchStep ==
    ASSUME TypeOK, [Next]_vars, NEW s \in Site
    PROVE  [SiteWatch(s)!WatchNext]_(SiteWatch(s)!watchVars)
<1> USE DEF ctlVars
<1>1. CASE UNCHANGED <<file, pending, watcher, byName, localServices,
                       bindings>>
  BY <1>1, OutOfSight
<1>2. ASSUME NEW z \in Site, Operator(z)
      PROVE  [SiteWatch(s)!WatchNext]_(SiteWatch(s)!watchVars)
  <2>1. PICK defs \in Registry : Command(z, defs)
    BY <1>2, OperatorCommands
  <2> QED
    BY <2>1, WriteSeen DEF Command
<1>3. ASSUME NEW z \in Site, AddWatch(z)
      PROVE  [SiteWatch(s)!WatchNext]_(SiteWatch(s)!watchVars)
  <2>1. CASE s = z
    <3>1. /\ watcher[s] = "starting" /\ watcher'[s] = "added"
          /\ UNCHANGED <<file, byName, localServices, bindings>>
      BY <1>3, <2>1 DEF AddWatch, TypeOK
    <3>2. SiteWatch(s)!Watch
      BY <3>1 DEF SiteWatch!Watch
    <3> QED
      BY <3>2 DEF SiteWatch!WatchNext
  <2>2. CASE s # z
    BY <1>3, <2>2, OutOfSight DEF AddWatch, TypeOK
  <2> QED
    BY <2>1, <2>2
<1>4. ASSUME NEW z \in Site, InitialProcess(z) \/ HandleWriteEvent(z)
      PROVE  [SiteWatch(s)!WatchNext]_(SiteWatch(s)!watchVars)
  BY <1>4, ProcessSeen
<1>5. ASSUME NEW z \in Site, NEW o \in Site, Receive(z, o)
      PROVE  [SiteWatch(s)!WatchNext]_(SiteWatch(s)!watchVars)
  <2> DEFINE update == Indexed(Head(inbox[z]).services, o)
             changed == Changed(byName[z], o, update)
             deleted == Deleted(byOrigin[z][o], update)
             new == UpdateSkupperServices(file[z], changed, update, deleted)
  <2>1. UNCHANGED <<watcher, byName, localServices, bindings>>
    BY <1>5 DEF Receive
  <2>2. CASE UNCHANGED <<file, pending>>
    BY <1>1, <2>1, <2>2
  <2>3. CASE ~UNCHANGED <<file, pending>>
    <3>1. WriteFile(z, new)
      BY <1>5, <2>3 DEF Receive, EnsureServiceInterfaceDefinitions
    <3>2. Head(inbox[z]) \in Update
      BY <1>5 DEF Receive, TypeOK
    <3>3. update \in Registry
      BY <3>2, IndexedType DEF Update
    <3>4. new \in Registry
      BY <3>3, UpdateSkupperServicesType DEF TypeOK, Deleted
    <3> HIDE DEF new
    <3> QED
      BY <2>1, <3>1, <3>4, WriteSeen
  <2> QED
    BY <2>2, <2>3
<1>6. ASSUME NEW z \in Site, AgeTick(z)
      PROVE  [SiteWatch(s)!WatchNext]_(SiteWatch(s)!watchVars)
  <2> DEFINE deleted == UNION {byOrigin[z][o] : o \in Aged(z)}
             new == UpdateSkupperServices(file[z], {}, EmptyRegistry, deleted)
  <2>1. UNCHANGED <<watcher, byName, localServices, bindings>>
    BY <1>6 DEF AgeTick
  <2>2. CASE UNCHANGED <<file, pending>>
    BY <1>1, <2>1, <2>2
  <2>3. CASE ~UNCHANGED <<file, pending>>
    <3>1. WriteFile(z, new)
      BY <1>6, <2>3 DEF AgeTick
    <3>2. new \in Registry
      BY UpdateSkupperServicesType, EmptyRegistryType DEF TypeOK, Aged
    <3> HIDE DEF new
    <3> QED
      BY <2>1, <3>1, <3>2, WriteSeen
  <2> QED
    BY <2>2, <2>3
<1>7. ASSUME NEW z \in Site, Stop(z)
      PROVE  [SiteWatch(s)!WatchNext]_(SiteWatch(s)!watchVars)
  <2>1. CASE s = z
    <3>1. /\ watcher'[s] = "stopped" /\ ~pending'[s]
          /\ file'[s] = file[s] /\ byName'[s] = EmptyRegistry
          /\ localServices'[s] = EmptyRegistry
          /\ bindings'[s] = EmptyRegistry
      BY <1>7, <2>1 DEF Stop, TypeOK
    <3>2. pending'[s] = FALSE
      BY <1>7, <2>1 DEF Stop, TypeOK
    <3>3. SiteWatch(s)!Stop
      BY <3>1, <3>2 DEF SiteWatch!Stop
    <3> QED
      BY <3>3 DEF SiteWatch!WatchNext
  <2>2. CASE s # z
    <3>1. UNCHANGED file
      BY <1>7 DEF Stop
    <3> QED
      BY <1>7, <2>2, <3>1, OutOfSight DEF Stop, TypeOK
  <2> QED
    BY <2>1, <2>2
<1>8. ASSUME NEW z \in Site, Start(z)
      PROVE  [SiteWatch(s)!WatchNext]_(SiteWatch(s)!watchVars)
  BY <1>8, OutOfSight DEF Start, TypeOK
<1>9. ASSUME NEW z \in Site, AddWatchFails(z)
      PROVE  [SiteWatch(s)!WatchNext]_(SiteWatch(s)!watchVars)
  BY <1>9, OutOfSight DEF AddWatchFails, TypeOK
<1> QED
  BY <1>1, <1>2, <1>3, <1>4, <1>5, <1>6, <1>7, <1>8, <1>9
     DEF Next, Watch, Exchange, Fault, vars, Dial, SendUpdate, Elapse,
         DialFails, AddWatchFails, LoseConnection, LoseUpdate

LEMMA WatchInit ==
    ASSUME Init, NEW s \in Site
    PROVE  SiteWatch(s)!WatchInit
BY EmptyRegistryType DEF Init, SiteWatch!WatchInit

(* However many sites exchange definitions, and whatever of it the network *)
(* loses: at each of them the watcher takes up every write, and what it    *)
(* took up changes in no other way.  ControllerRun has the same watch to   *)
(* implement with separate steps.                                          *)
THEOREM WatchesFileHolds == Spec => WatchesFile
<1>1. Init => \A s \in Site : SiteWatch(s)!WatchInit
  BY WatchInit
<1>2. TypeOK /\ [Next]_vars
        => [\A s \in Site :
               [SiteWatch(s)!WatchNext]_(SiteWatch(s)!watchVars)]_vars
  BY WatchStep
<1> QED
  BY <1>1, <1>2, TypeCorrect, PTL DEF Spec, WatchesFile

(* The same of one site, in the form of a refinement.                      *)
THEOREM ImplementsWatch ==
    ASSUME NEW s \in Site
    PROVE  Spec => SiteWatch(s)!WatchSpec
<1>1. Init => SiteWatch(s)!WatchInit
  BY WatchInit
<1>2. TypeOK /\ [Next]_vars
        => [SiteWatch(s)!WatchNext]_(SiteWatch(s)!watchVars)
  BY WatchStep
<1> QED
  BY <1>1, <1>2, TypeCorrect, PTL DEF Spec, SiteWatch!WatchSpec
=============================================================================
