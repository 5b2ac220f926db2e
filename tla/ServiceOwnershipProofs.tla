----------------------- MODULE ServiceOwnershipProofs -----------------------
(***************************************************************************)
(* With a careful operator an address is tracked under one origin at most, *)
(* and no update or age tick touches a local definition the controller has *)
(* seen.                                                                   *)
(***************************************************************************)
EXTENDS ServiceSyncProofs

-----------------------------------------------------------------------------
(* Targets stay at home: what is sent has none, so what is imported has    *)
(* none, and unbind and unexpose cannot delete an import.                  *)

ImportsBare ==
    \A s, o \in Site : \A a \in Address :
       ComesFrom(file[s][a], o) => file[s][a].targets = {}

SentBare ==
    \A s \in Site : \A a \in Address :
       localServices[s][a] # NoDef => localServices[s][a].targets = {}

InFlightBare ==
    \A s \in Site : \A i \in 1..Len(inbox[s]) : \A a \in Address :
       inbox[s][i].services[a] # NoDef => inbox[s][i].services[a].targets = {}

Bare == ImportsBare /\ SentBare /\ InFlightBare

LEMMA ImportsBareStep ==
    ASSUME TypeOK, [Next]_vars, InFlightBare, ImportsBare
    PROVE  ImportsBare'
<1> SUFFICES ASSUME NEW s \in Site, NEW o \in Site, NEW a \in Address,
                    ComesFrom(file'[s][a], o)
             PROVE  file'[s][a].targets = {}
  BY DEF ImportsBare
<1>1. CASE /\ ComesFrom(file[s][a], o)
           /\ file'[s][a].targets \subseteq file[s][a].targets
  BY <1>1 DEF ImportsBare
<1>2. CASE Installs(s, a, o)
  <2>1. /\ inbox[s] # <<>> /\ inbox[s] \in Seq(Update)
        /\ Head(inbox[s]).services[a] # NoDef
        /\ file'[s][a].targets = Head(inbox[s]).services[a].targets
    BY <1>2 DEF Installs, Receive, TypeOK
  <2>2. 1 \in 1..Len(inbox[s]) /\ Head(inbox[s]) = inbox[s][1]
    BY <2>1
  <2> QED
    BY <2>1, <2>2 DEF InFlightBare
<1> QED
  BY <1>1, <1>2, ImportsAreInstalled

LEMMA SentBareStep ==
    ASSUME TypeOK, [Next]_vars, SentBare
    PROVE  SentBare'
<1> USE DEF TypeOK, ctlVars
<1>1. CASE UNCHANGED localServices
  BY <1>1 DEF SentBare
<1>2. ASSUME NEW z \in Site, InitialProcess(z) \/ HandleWriteEvent(z)
      PROVE  SentBare'
  <2>1. localServices' = [localServices EXCEPT ![z] = Latest(file[z])]
    BY <1>2 DEF InitialProcess, HandleWriteEvent, ProcessServiceDefs
  <2>2. ASSUME NEW a \in Address, Latest(file[z])[a] # NoDef
        PROVE  Latest(file[z])[a].targets = {}
    <3>1. IsLocal(file[z][a]) /\ Latest(file[z])[a] = Strip(file[z][a])
      BY <2>2 DEF Latest
    <3>2. file[z][a] \in Definition
      BY <3>1 DEF IsLocal, Registry
    <3>3. [file[z][a] EXCEPT !.option = Plain, !.targets = {}].targets = {}
      BY <3>2 DEF Definition
    <3> QED
      BY <3>1, <3>3 DEF Strip, IsLocal
  <2> QED
    BY <2>1, <2>2 DEF SentBare
<1>3. ASSUME NEW z \in Site, Stop(z)
      PROVE  SentBare'
  BY <1>3 DEF Stop, SentBare, EmptyRegistry
<1>4. ASSUME NEW z \in Site, Operator(z)
      PROVE  UNCHANGED localServices
  BY <1>4, OperatorFrame
<1> QED
  BY <1>1, <1>2, <1>3, <1>4 DEF Next, Watch, Exchange, Fault, vars, AddWatch,
     Dial, SendUpdate, Receive, Elapse, AgeTick, DialFails,
     AddWatchFails, LoseConnection,
     LoseUpdate, Start

LEMMA InFlightBareStep ==
    ASSUME TypeOK, [Next]_vars, SentBare, InFlightBare
    PROVE  InFlightBare'
  BY InboxCause DEF InFlightBare, SentBare

LEMMA BareHolds == Spec => []Bare
<1>1. Init => Bare
  BY DEF Init, Bare, ImportsBare, SentBare, InFlightBare, EmptyRegistry,
         ComesFrom
<1>2. TypeOK /\ Bare /\ [Next]_vars => Bare'
  BY ImportsBareStep, SentBareStep, InFlightBareStep DEF Bare
<1> QED
  BY <1>1, <1>2, TypeCorrect, PTL DEF Spec

-----------------------------------------------------------------------------
(* Who tracks what.  The controller's views and its tracking change        *)
(* together; the file runs ahead of them, but can lose a tracked import    *)
(* only to a local definition, and only while a Write event is waiting.    *)

TrackedAsSeen ==
    \A s, q \in Site : \A a \in Address :
       a \in byOrigin[s][q] => ComesFrom(byName[s][a], q)

TrackedInFile ==
    \A s, q \in Site : \A a \in Address :
       a \in byOrigin[s][q] =>
          \/ ComesFrom(file[s][a], q)
          \/ IsLocal(file[s][a]) /\ ~CaughtUp(s)

OwnershipInv == TrackedAsSeen /\ TrackedInFile

(* A definition has one origin. *)
LEMMA OneTracker ==
    ASSUME TrackedAsSeen, NEW s \in Site, NEW o \in Site, NEW q \in Site,
           NEW a \in Address, a \in byOrigin[s][o], a \in byOrigin[s][q]
    PROVE  o = q
  BY DEF TrackedAsSeen, ComesFrom

(* Stripping a definition keeps its origin. *)
LEMMA StripOrigin ==
    ASSUME NEW defs \in Registry, NEW a \in Address, NEW q \in Site,
           ComesFrom(defs[a], q)
    PROVE  ComesFrom(AllByName(defs)[a], q)
<1>1. defs[a] \in Definition
  BY DEF ComesFrom, Registry
<1>2. /\ [defs[a] EXCEPT !.option = Plain, !.targets = {}].origin = q
      /\ [defs[a] EXCEPT !.option = Plain, !.targets = {}] \in Definition
  BY <1>1, PlainAssumption DEF ComesFrom, Definition
<1> QED
  BY <1>2, NoDefAssumption DEF ComesFrom, AllByName, Strip

(* After the file is processed, exactly its imports are tracked. *)
LEMMA ProcessOwnership ==
    ASSUME TypeOK, OwnershipInv, NEW s \in Site, ProcessServiceDefs(s),
           NEW q \in Site, NEW a \in Address, a \in byOrigin'[s][q]
    PROVE  ComesFrom(file[s][a], q)
<1> USE DEF TypeOK
<1>1. PICK pick \in Picks(byOrigin[s]) :
        byOrigin' = [byOrigin EXCEPT
                       ![s] = TrackedAfter(byOrigin[s], file[s], pick)]
  BY DEF ProcessServiceDefs
<1>2. CASE ~ComesFrom(file[s][a], q)
  <2>1. /\ a \in byOrigin[s][q]
        /\ ~(IsLocal(file[s][a]) /\ pick[a] = q)
    BY <1>1, <1>2 DEF TrackedAfter
  <2>2. IsLocal(file[s][a])
    BY <1>2, <2>1 DEF OwnershipInv, TrackedInFile
  <2>3. pick[a] \in Site /\ a \in byOrigin[s][pick[a]]
    BY <2>1 DEF Picks
  <2>4. pick[a] = q
    BY <2>1, <2>3, OneTracker DEF OwnershipInv
  <2> QED
    BY <2>1, <2>2, <2>4
<1> QED
  BY <1>2

LEMMA OwnershipProcess ==
    ASSUME TypeOK, OwnershipInv, NEW z \in Site,
           InitialProcess(z) \/ HandleWriteEvent(z)
    PROVE  OwnershipInv'
<1> USE DEF TypeOK
<1>1. /\ ProcessServiceDefs(z) /\ UNCHANGED file
      /\ byName' = [byName EXCEPT ![z] = AllByName(file[z])]
  BY DEF InitialProcess, HandleWriteEvent, ProcessServiceDefs
<1>2. \A s \in Site \ {z} : byOrigin'[s] = byOrigin[s]
  BY <1>1, ProcessOnlyTracks
<1>3. \A s \in Site \ {z} : CaughtUp(s)' = CaughtUp(s)
  BY DEF InitialProcess, HandleWriteEvent, CaughtUp
<1>4. TrackedAsSeen'
  <2>1. ASSUME NEW q \in Site, NEW a \in Address, a \in byOrigin'[z][q]
        PROVE  ComesFrom(byName'[z][a], q)
    BY <1>1, <2>1, ProcessOwnership, StripOrigin
  <2> QED
    BY <1>1, <1>2, <2>1 DEF OwnershipInv, TrackedAsSeen
<1>5. TrackedInFile'
  <2>1. ASSUME NEW q \in Site, NEW a \in Address, a \in byOrigin'[z][q]
        PROVE  ComesFrom(file'[z][a], q)
    BY <1>1, <2>1, ProcessOwnership
  <2> QED
    BY <1>1, <1>2, <1>3, <2>1 DEF OwnershipInv, TrackedInFile
<1> QED
  BY <1>4, <1>5 DEF OwnershipInv

(* A command of a careful operator keeps the imports or makes them local. *)
LEMMA CarefulCommand ==
    ASSUME TypeOK, ImportsBare, CarefulOperator, NEW z \in Site, Operator(z),
           NEW a \in Address, NEW q \in Site, ComesFrom(file[z][a], q)
    PROVE  ComesFrom(file'[z][a], q) \/ IsLocal(file'[z][a])
<1> USE DEF TypeOK
<1>1. file[z] \in Registry /\ file[z][a] \in Definition
  BY DEF ComesFrom, Registry
<1>2. PICK b \in Address :
        \/ \E p \in Port, opt \in Option : Create(z, b, p, opt)
        \/ \E t \in Target : Bind(z, b, t)
        \/ \E p \in Port, t \in Target : Expose(z, b, p, t)
        \/ Remove(z, b)
        \/ \E t \in Target, d \in BOOLEAN : Unbind(z, b, t, d)
  BY DEF Operator
<1>3. ASSUME NEW service \in Definition, NEW overwrite \in BOOLEAN,
             Command(z, UpdateServiceInterface(file[z], b, service,
                                               overwrite))
      PROVE  ComesFrom(file'[z][a], q) \/ IsLocal(file'[z][a])
  <2> DEFINE local == [service EXCEPT !.origin = Local]
  <2>1. local \in Definition /\ local.origin = Local
    BY DEF Definition
  <2>2. IsLocal(local)
    BY <2>1, NoDefAssumption DEF IsLocal
  <2>3. \/ file'[z] = file[z]
        \/ file'[z] = [file[z] EXCEPT ![b] = local]
    BY <1>3 DEF Command, WriteFile, UpdateServiceInterface
  <2> HIDE DEF local
  <2> QED
    BY <1>1, <2>2, <2>3 DEF Registry
<1>4. CASE \E p \in Port, opt \in Option : Create(z, b, p, opt)
  BY <1>3, <1>4, <1>1, CommandTypes DEF Create
<1>5. CASE \E t \in Target : Bind(z, b, t)
  <2>1. PICK t \in Target : Bind(z, b, t)
    BY <1>5
  <2>2. AddTarget(file[z][b], t) \in Definition
    BY <1>1, <2>1, CommandTypes DEF Bind, Registry
  <2> QED
    BY <1>3, <2>1, <2>2 DEF Bind
<1>6. CASE \E p \in Port, t \in Target : Expose(z, b, p, t)
  <2>1. PICK p \in Port, t \in Target : Expose(z, b, p, t)
    BY <1>6
  <2>2. AddTarget(NewService(p, Plain), t) \in Definition
    BY <1>1, CommandTypes, PlainAssumption
  <2> QED
    BY <1>3, <2>1, <2>2 DEF Expose
<1>7. CASE Remove(z, b)
  <2>1. a # b
    BY <1>7, LocalAssumption DEF Remove, IsLocal, ComesFrom
  <2>2. file'[z] = [file[z] EXCEPT ![b] = NoDef]
    BY <1>7 DEF Remove, Command, WriteFile
  <2> QED
    BY <1>1, <2>1, <2>2 DEF Registry
<1>8. CASE \E t \in Target, d \in BOOLEAN : Unbind(z, b, t, d)
  <2>1. PICK t \in Target, d \in BOOLEAN : Unbind(z, b, t, d)
    BY <1>8
  <2>2. a # b
    BY <2>1 DEF Unbind, ImportsBare
  <2>3. file'[z] = RemoveTarget(file[z], b, t, d)
    BY <2>1 DEF Unbind, Command, WriteFile
  <2>4. file'[z][a] = file[z][a]
    BY <1>1, <2>2, <2>3 DEF RemoveTarget, Registry
  <2> QED
    BY <2>4
<1> QED
  BY <1>2, <1>4, <1>5, <1>6, <1>7, <1>8

LEMMA OwnershipOperator ==
    ASSUME TypeOK, ImportsBare, OwnershipInv, CarefulOperator,
           NEW z \in Site, Operator(z)
    PROVE  OwnershipInv'
<1> USE DEF TypeOK
<1>1. UNCHANGED <<watcher, byOrigin, byName>>
  BY OperatorFrame
<1>2. PICK defs \in Registry : Command(z, defs)
  BY OperatorCommands
<1>3. WriteFile(z, defs) /\ CaughtUp(z)
  BY <1>2 DEF Command
<1>4. ~CaughtUp(z)'
  BY <1>1, <1>3, WriteIsPending
<1>5. \A s \in Site \ {z} :
         file'[s] = file[s] /\ (CaughtUp(s)' => CaughtUp(s))
  BY <1>1, <1>3 DEF WriteFile, CaughtUp
<1>6. TrackedAsSeen'
  BY <1>1 DEF OwnershipInv, TrackedAsSeen
<1>7. TrackedInFile'
  <2>1. ASSUME NEW q \in Site, NEW a \in Address, a \in byOrigin[z][q]
        PROVE  ComesFrom(file'[z][a], q) \/ IsLocal(file'[z][a])
    <3>1. ComesFrom(file[z][a], q)
      BY <1>3, <2>1 DEF OwnershipInv, TrackedInFile
    <3> QED
      BY <3>1, CarefulCommand
  <2> QED
    BY <1>1, <1>4, <1>5, <2>1 DEF OwnershipInv, TrackedInFile
<1> QED
  BY <1>6, <1>7 DEF OwnershipInv

(* What an update writes over is not tracked for another origin. *)
LEMMA OwnershipReceive ==
    ASSUME TypeOK, OwnershipInv, NEW z \in Site, NEW o \in Site,
           Receive(z, o)
    PROVE  OwnershipInv'
<1> USE DEF TypeOK
<1> DEFINE head == Head(inbox[z])
           update == Indexed(head.services, o)
           changed == Changed(byName[z], o, update)
           deleted == Deleted(byOrigin[z][o], update)
           new == UpdateSkupperServices(file[z], changed, update, deleted)
<1>1. UNCHANGED <<watcher, byName>> /\ head \in Update
  BY DEF Receive
<1>2. CASE o = z
  BY <1>1, <1>2 DEF Receive, OwnershipInv, TrackedAsSeen, TrackedInFile,
                    CaughtUp
<1>3. CASE o # z
  <2>1. /\ byOrigin' = [byOrigin EXCEPT ![z][o] = @ \ deleted]
        /\ IF changed = {} /\ deleted = {} THEN UNCHANGED <<file, pending>>
           ELSE WriteFile(z, new)
    BY <1>3 DEF Receive, EnsureServiceInterfaceDefinitions
  <2>2. ASSUME NEW s \in Site, NEW q \in Site, NEW a \in Address,
               a \in byOrigin'[s][q]
        PROVE  a \in byOrigin[s][q] /\ ~(s = z /\ q = o /\ a \in deleted)
    BY <2>1, <2>2
  <2>3. TrackedAsSeen'
    BY <1>1, <2>2 DEF OwnershipInv, TrackedAsSeen
  <2>4. ASSUME NEW q \in Site, NEW a \in Address, a \in byOrigin'[z][q]
        PROVE  ComesFrom(new[a], q) \/ new[a] = file[z][a]
    <3>1. a \in byOrigin[z][q] /\ ComesFrom(byName[z][a], q)
      BY <2>2, <2>4 DEF OwnershipInv, TrackedAsSeen
    <3>2. a \notin deleted
      <4>1. a \in deleted => a \in byOrigin[z][o]
        BY DEF Deleted
      <4> QED
        BY <2>2, <2>4, <3>1, <4>1, OneTracker DEF OwnershipInv
    <3>3. CASE a \in changed
      <4>1. q = o /\ update[a] # NoDef
        BY <3>1, <3>3 DEF Changed, ComesFrom, Names
      <4>2. /\ head.services[a] # NoDef
            /\ update[a] = [head.services[a] EXCEPT !.origin = o]
        BY <4>1 DEF Indexed
      <4>3. head.services[a] \in Definition
        BY <1>1, <4>2 DEF Update, Registry
      <4>4. update[a].origin = o
        BY <4>2, <4>3 DEF Definition
      <4>5. new[a] = update[a]
        BY <3>2, <3>3 DEF UpdateSkupperServices
      <4> HIDE DEF new, update
      <4> QED
        BY <4>1, <4>4, <4>5 DEF ComesFrom
    <3>4. CASE a \notin changed
      BY <3>2, <3>4 DEF UpdateSkupperServices
    <3> QED
      BY <3>3, <3>4
  <2> HIDE DEF new, changed, deleted
  <2>5. TrackedInFile'
    <3>1. CASE UNCHANGED <<file, pending>>
      BY <1>1, <2>2, <3>1 DEF OwnershipInv, TrackedInFile, CaughtUp
    <3>2. CASE WriteFile(z, new)
      <4>1. /\ file'[z] = new
            /\ ~CaughtUp(z)'
        BY <1>1, <3>2, WriteIsPending DEF WriteFile
      <4>2. \A s \in Site \ {z} :
               file'[s] = file[s] /\ (CaughtUp(s)' => CaughtUp(s))
        BY <1>1, <3>2 DEF WriteFile, CaughtUp
      <4>3. ASSUME NEW q \in Site, NEW a \in Address, a \in byOrigin'[z][q]
            PROVE  ComesFrom(file'[z][a], q) \/ IsLocal(file'[z][a])
        <5>1. a \in byOrigin[z][q]
          BY <2>2, <4>3
        <5> QED
          BY <2>4, <4>1, <4>3, <5>1 DEF OwnershipInv, TrackedInFile
      <4> QED
        BY <2>2, <4>1, <4>2, <4>3 DEF OwnershipInv, TrackedInFile
    <3> QED
      BY <2>1, <3>1, <3>2
  <2> QED
    BY <2>3, <2>5 DEF OwnershipInv
<1> QED
  BY <1>2, <1>3

LEMMA OwnershipAgeTick ==
    ASSUME TypeOK, OwnershipInv, NEW z \in Site, AgeTick(z)
    PROVE  OwnershipInv'
<1> USE DEF TypeOK
<1> DEFINE deleted == UNION {byOrigin[z][o] : o \in Aged(z)}
           new == UpdateSkupperServices(file[z], {}, EmptyRegistry, deleted)
<1>1. /\ UNCHANGED <<watcher, byName>>
      /\ byOrigin' = [byOrigin EXCEPT
           ![z] = [o \in Site |-> IF o \in Aged(z) THEN {} ELSE @[o]]]
      /\ IF deleted = {} THEN UNCHANGED <<file, pending>>
         ELSE WriteFile(z, new)
  BY DEF AgeTick
<1>2. ASSUME NEW s \in Site, NEW q \in Site, NEW a \in Address,
             a \in byOrigin'[s][q]
      PROVE  a \in byOrigin[s][q] /\ ~(s = z /\ q \in Aged(z))
  BY <1>1, <1>2
<1>3. TrackedAsSeen'
  BY <1>1, <1>2 DEF OwnershipInv, TrackedAsSeen
<1>4. ASSUME NEW q \in Site, NEW a \in Address, a \in byOrigin'[z][q]
      PROVE  new[a] = file[z][a]
  <2>1. a \notin deleted
    <3>1. SUFFICES ASSUME NEW o \in Aged(z), a \in byOrigin[z][o]
                   PROVE  FALSE
      OBVIOUS
    <3>2. o \in Site
      BY DEF Aged
    <3> QED
      BY <1>2, <1>4, <3>1, <3>2, OneTracker DEF OwnershipInv
  <2> QED
    BY <2>1 DEF UpdateSkupperServices
<1> HIDE DEF deleted, new
<1>5. TrackedInFile'
  <2>1. CASE UNCHANGED <<file, pending>>
    BY <1>1, <1>2, <2>1 DEF OwnershipInv, TrackedInFile, CaughtUp
  <2>2. CASE WriteFile(z, new)
    <3>1. file'[z] = new /\ ~CaughtUp(z)'
      BY <1>1, <2>2, WriteIsPending DEF WriteFile
    <3>2. \A s \in Site \ {z} :
             file'[s] = file[s] /\ (CaughtUp(s)' => CaughtUp(s))
      BY <1>1, <2>2 DEF WriteFile, CaughtUp
    <3> QED
      BY <1>2, <1>4, <3>1, <3>2 DEF OwnershipInv, TrackedInFile
  <2> QED
    BY <1>1, <2>1, <2>2
<1> QED
  BY <1>3, <1>5 DEF OwnershipInv

LEMMA OwnershipStep ==
    ASSUME TypeOK, ImportsBare, OwnershipInv, CarefulOperator, [Next]_vars
    PROVE  OwnershipInv'
<1> USE DEF TypeOK, ctlVars
<1>1. CASE UNCHANGED <<file, pending, watcher, byOrigin, byName>>
  BY <1>1 DEF OwnershipInv, TrackedAsSeen, TrackedInFile, CaughtUp
<1>2. ASSUME NEW z \in Site, AddWatch(z)
      PROVE  OwnershipInv'
  BY <1>2 DEF AddWatch, OwnershipInv, TrackedAsSeen, TrackedInFile, CaughtUp
<1>3. ASSUME NEW z \in Site, Stop(z)
      PROVE  OwnershipInv'
  BY <1>3 DEF Stop, NothingTracked, OwnershipInv, TrackedAsSeen,
              TrackedInFile, CaughtUp
<1>4. ASSUME NEW z \in Site, Start(z)
      PROVE  OwnershipInv'
  BY <1>4 DEF Start, OwnershipInv, TrackedAsSeen, TrackedInFile, CaughtUp
<1>5. ASSUME NEW z \in Site, AddWatchFails(z)
      PROVE  OwnershipInv'
  BY <1>5 DEF AddWatchFails, OwnershipInv, TrackedAsSeen, TrackedInFile,
              CaughtUp
<1> QED
  BY <1>1, <1>2, <1>3, <1>4, <1>5, OwnershipOperator, OwnershipProcess,
     OwnershipReceive, OwnershipAgeTick
     DEF Next, Watch, Exchange, Fault, vars, Dial, SendUpdate, Elapse,
         DialFails, AddWatchFails, LoseConnection, LoseUpdate

LEMMA OwnershipHolds ==
    ASSUME CarefulOperator
    PROVE  Spec => []OwnershipInv
<1>1. Init => OwnershipInv
  BY DEF Init, NothingTracked, OwnershipInv, TrackedAsSeen, TrackedInFile
<1>2. TypeOK /\ Bare /\ OwnershipInv /\ [Next]_vars => OwnershipInv'
  BY OwnershipStep DEF Bare
<1> QED
  BY <1>1, <1>2, TypeCorrect, BareHolds, PTL DEF Spec

(* With a careful operator no address is tracked under two origins.        *)
THEOREM TrackedOnceHolds ==
    ASSUME CarefulOperator
    PROVE  Spec => []TrackedOnce
<1>1. TypeOK /\ OwnershipInv => TrackedOnce
  <2> SUFFICES ASSUME TypeOK, OwnershipInv,
                      NEW s \in Site, NEW o \in Site, NEW q \in Site, o # q,
                      NEW a, a \in byOrigin[s][o], a \in byOrigin[s][q]
               PROVE  FALSE
    BY DEF TrackedOnce
  <2>1. a \in Address
    BY DEF TypeOK
  <2> QED
    BY <2>1, OneTracker DEF OwnershipInv
<1> QED
  BY <1>1, OwnershipHolds, TypeCorrect, PTL

(* An update leaves alone what the controller has seen to be local. *)
LEMMA LocalSurvivesReceive ==
    ASSUME TypeOK, OwnershipInv, NEW z \in Site, NEW o \in Site,
           Receive(z, o), NEW s \in Site, NEW a \in Address,
           IsLocal(byName[s][a])
    PROVE  file'[s][a] = file[s][a]
<1> USE DEF TypeOK
<1> DEFINE update == Indexed(Head(inbox[z]).services, o)
           changed == Changed(byName[z], o, update)
           deleted == Deleted(byOrigin[z][o], update)
           new == UpdateSkupperServices(file[z], changed, update, deleted)
<1>1. UNCHANGED file \/ file' = [file EXCEPT ![z] = new]
  BY DEF Receive, EnsureServiceInterfaceDefinitions, WriteFile
<1>2. CASE s = z
  <2>1. a \notin byOrigin[z][o]
    BY <1>2, LocalAssumption
       DEF OwnershipInv, TrackedAsSeen, ComesFrom, IsLocal
  <2>2. a \notin deleted
    BY <2>1 DEF Deleted
  <2>3. a \notin changed
    BY <1>2, LocalAssumption DEF Changed, IsLocal
  <2>4. new[a] = file[z][a]
    BY <2>2, <2>3 DEF UpdateSkupperServices
  <2> QED
    BY <1>1, <1>2, <2>4
<1>3. CASE s # z
  BY <1>1, <1>3
<1> QED
  BY <1>2, <1>3

(* So does the age tick. *)
LEMMA LocalSurvivesAgeTick ==
    ASSUME TypeOK, OwnershipInv, NEW z \in Site, AgeTick(z),
           NEW s \in Site, NEW a \in Address, IsLocal(byName[s][a])
    PROVE  file'[s][a] = file[s][a]
<1> USE DEF TypeOK
<1> DEFINE deleted == UNION {byOrigin[z][o] : o \in Aged(z)}
           new == UpdateSkupperServices(file[z], {}, EmptyRegistry, deleted)
<1>1. UNCHANGED file \/ file' = [file EXCEPT ![z] = new]
  BY DEF AgeTick, WriteFile
<1>2. CASE s = z
  <2>1. \A o \in Aged(z) : a \notin byOrigin[z][o]
    BY <1>2, LocalAssumption
       DEF OwnershipInv, TrackedAsSeen, ComesFrom, IsLocal, Aged
  <2>2. new[a] = file[z][a]
    BY <2>1 DEF UpdateSkupperServices
  <2> QED
    BY <1>1, <1>2, <2>2
<1>3. CASE s # z
  BY <1>1, <1>3
<1> QED
  BY <1>2, <1>3

(* With a careful operator only a command changes a local definition that  *)
(* the controller has seen.                                                *)
THEOREM KnownLocalPreservedHolds ==
    ASSUME CarefulOperator
    PROVE  Spec => KnownLocalPreserved
<1>1. ASSUME TypeOK, OwnershipInv, [Next]_vars,
             NEW s \in Site, NEW a \in Address,
             IsLocal(byName[s][a]), IsLocal(file[s][a]), UNCHANGED events
      PROVE  file'[s][a] = file[s][a]
  <2> USE DEF TypeOK, ctlVars
  <2>1. CASE UNCHANGED file
    BY <2>1
  <2>2. ASSUME NEW z \in Site, Operator(z)
        PROVE  FALSE
    <3>1. events' = events + 1 /\ events \in Nat
      BY <1>1, <2>2, OperatorFrame, MaxEventsAssumption
    <3> QED
      BY <1>1, <3>1
  <2> QED
    BY <1>1, <2>1, <2>2, LocalSurvivesReceive, LocalSurvivesAgeTick
       DEF Next, Watch, Exchange, Fault, vars, AddWatch, InitialProcess,
           HandleWriteEvent, Dial, SendUpdate, Elapse, DialFails,
           AddWatchFails, LoseConnection, LoseUpdate, Stop, Start
<1>2. TypeOK /\ OwnershipInv /\ [Next]_vars
        => [\A s \in Site : \A a \in Address :
               /\ IsLocal(byName[s][a])
               /\ IsLocal(file[s][a])
               /\ UNCHANGED events
               => file'[s][a] = file[s][a]]_vars
  BY <1>1
<1> QED
  BY <1>2, OwnershipHolds, TypeCorrect, PTL DEF Spec, KnownLocalPreserved

(* With a careful operator the age tick takes out what came from a silent  *)
(* origin and nothing else, as its log says (service_sync.go:180-200).     *)
THEOREM AgedOutOwnHolds ==
    ASSUME CarefulOperator
    PROVE  Spec => AgedOutOwn
<1>1. ASSUME TypeOK, OwnershipInv, NEW s \in Site, NEW a \in Address,
             CaughtUp(s), AgeTick(s), file'[s][a] # file[s][a]
      PROVE  file[s][a].origin \in Aged(s)
  <2> DEFINE deleted == UNION {byOrigin[s][o] : o \in Aged(s)}
             new == UpdateSkupperServices(file[s], {}, EmptyRegistry, deleted)
  <2>1. UNCHANGED file \/ file' = [file EXCEPT ![s] = new]
    BY <1>1 DEF AgeTick, WriteFile
  <2>2. new[a] # file[s][a]
    BY <1>1, <2>1 DEF TypeOK
  <2>3. PICK o \in Aged(s) : a \in byOrigin[s][o]
    BY <2>2 DEF UpdateSkupperServices
  <2>4. ComesFrom(file[s][a], o)
    BY <1>1, <2>3 DEF OwnershipInv, TrackedInFile, Aged
  <2> QED
    BY <2>3, <2>4 DEF ComesFrom
<1>2. TypeOK /\ OwnershipInv /\ [Next]_vars
        => [\A s \in Site : \A a \in Address :
               CaughtUp(s) /\ AgeTick(s) /\ file'[s][a] # file[s][a]
                 => file[s][a].origin \in Aged(s)]_vars
  BY <1>1
<1> QED
  BY <1>2, OwnershipHolds, TypeCorrect, PTL DEF Spec, AgedOutOwn

=============================================================================
