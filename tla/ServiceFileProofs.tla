------------------------- MODULE ServiceFileProofs -------------------------
(***************************************************************************)
(* Proofs about ServiceFile: the watcher is never out of date for good,    *)
(* whoever writes, and writers in any order implement ServiceStore.        *)
(***************************************************************************)
EXTENDS ServiceFile, ServiceDefsProofs

-----------------------------------------------------------------------------
(* The watcher. *)

(* What the watcher has read is the file, unless an event waits.           *)
SeenCurrent == watcher \in {"first", "process"} /\ ~pending => seen = disk

ViewInv == ViewsCurrent /\ SeenCurrent

(* A step that leaves the watcher alone keeps its views current: a write   *)
(* leaves an event.                                                        *)
LEMMA ViewFrame ==
    ASSUME ViewInv, UNCHANGED <<watchVars, byName>>,
           UNCHANGED <<disk, pending>> \/ pending' = Watched
    PROVE  ViewInv'
<1>1. CASE UNCHANGED <<disk, pending>>
  BY <1>1 DEF ViewInv, ViewsCurrent, SeenCurrent, watchVars, Readable,
              AllByName
<1>2. CASE pending' = Watched
  BY <1>2 DEF ViewInv, ViewsCurrent, SeenCurrent, watchVars, Watched
<1> QED
  BY <1>1, <1>2

(* The watcher's own steps keep its views current.                         *)
LEMMA ViewWatch == ViewInv /\ Watch => ViewInv'
<1> SUFFICES ASSUME ViewInv, Watch
             PROVE  ViewInv'
  OBVIOUS
<1> USE DEF ViewInv, ViewsCurrent, SeenCurrent, diskVars
<1>1. CASE AddWatch
  BY <1>1 DEF AddWatch
<1>2. CASE TakeEvent
  BY <1>2 DEF TakeEvent
<1>3. CASE ReadDefinitions
  BY <1>3 DEF ReadDefinitions
<1>4. CASE Process
  <2>1. UNCHANGED <<disk, pending>> /\ watcher' = "idle"
    BY <1>4 DEF Process
  <2>2. ASSUME ~pending, Readable(disk)
        PROVE  byName' = AllByName(disk)
    BY <1>4, <2>2 DEF Process
  <2> QED
    BY <2>1, <2>2 DEF Readable, AllByName
<1> QED
  BY <1>1, <1>2, <1>3, <1>4 DEF Watch

(* Every step keeps the watcher's views current.                           *)
LEMMA ViewStep == ViewInv /\ [Next]_vars => ViewInv'
<1> SUFFICES ASSUME ViewInv, [Next]_vars
             PROVE  ViewInv'
  OBVIOUS
<1>1. CASE UNCHANGED vars
  BY <1>1, ViewFrame DEF vars, diskVars, watchVars, mapVars
<1>2. ASSUME NEW c \in Command, Operator(c) \/ KillCommand(c)
      PROVE  ViewInv'
  BY <1>2, ViewFrame DEF Operator, Create, Delete, Bind, Start,
                         KillCommand, diskVars, watchVars, mapVars
<1>3. ASSUME NEW w \in Writer, ReadModifyWrite(w)
      PROVE  ViewInv'
  BY <1>3, ViewFrame DEF ReadModifyWrite, Read, Open, Write, diskVars,
                         watchVars, mapVars
<1>4. ASSUME NEW o \in Site, Receive(o) \/ Tick(o)
      PROVE  ViewInv'
  BY <1>4, ViewFrame DEF Receive, Tick, diskVars, watchVars, mapVars
<1>5. CASE ForgetWithdrawn \/ ForgetAged
  BY <1>5, ViewFrame DEF ForgetWithdrawn, ForgetAged, diskVars, watchVars
<1>6. CASE Watch
  BY <1>6, ViewWatch
<1>7. CASE Others
  BY <1>7, ViewFrame DEF Others, Offer, Withdraw, Depart, diskVars,
                         watchVars, mapVars
<1>8. CASE KillController \/ AddWatchFails \/ Restart
  BY <1>8 DEF KillController, AddWatchFails, Restart, ViewInv, ViewsCurrent,
              SeenCurrent
<1> QED
  BY <1>1, <1>2, <1>3, <1>4, <1>5, <1>6, <1>7, <1>8 DEF Next

(* When the watcher waits and no event does, byName is the file, unless    *)
(* the file cannot be read: no write of any process, at any moment of the  *)
(* watcher's pass (processServiceDefs), is overlooked.                     *)
THEOREM ViewsCurrentHolds == Spec => []ViewsCurrent
<1>1. Init => ViewInv
  BY DEF Init, ViewInv, ViewsCurrent, SeenCurrent
<1>2. ViewInv => ViewsCurrent
  BY DEF ViewInv
<1> QED
  BY <1>1, <1>2, ViewStep, PTL DEF Spec

-----------------------------------------------------------------------------
(* Types. *)

(* A registry changed by an edit is a registry.                            *)
LEMMA AppliedType ==
    ASSUME NEW current \in Registry, NEW e \in Edit
    PROVE  Applied(current, e) \in Registry
  BY DEF Applied, Edit, Registry

(* The edits the commands begin with.                                      *)
CommandEdits ==
    {e \in Edit : \E a \in Address :
        /\ \A b \in Address \ {a} : e.put[b] = NoDef
        /\ e.put[a] = NoDef \/ IsLocal(e.put[a])
        /\ e.del \subseteq {a}}

(* The edits that import from o.                                           *)
ImportEdits(o) ==
    {e \in Edit : \A a \in Address :
        e.put[a] = NoDef \/ ComesFrom(e.put[a], o)}

(* A command's edit puts one local definition in or takes one definition   *)
(* out.                                                                    *)
LEMMA OperatorEdit ==
    ASSUME TypeOK, NEW c \in Command, Operator(c)
    PROVE  step[c] = "idle" /\ \E e \in CommandEdits : Start(c, e)
<1>1. ASSUME NEW a \in Address, NEW d \in Definition, IsLocal(d),
             NEW over \in BOOLEAN
      PROVE  [put |-> PutOne(a, d), over |-> over, del |-> {}] \in CommandEdits
  BY <1>1 DEF PutOne, EmptyRegistry, CommandEdits, Edit, Registry
<1>2. PICK a \in Address : \/ \E p \in Port : Create(c, a, p)
                           \/ Delete(c, a)
                           \/ \E t \in Target : Bind(c, a, t)
  BY DEF Operator
<1>3. ASSUME NEW p \in Port, Create(c, a, p)
      PROVE  \E e \in CommandEdits : Start(c, e)
  <2>1. NewService(p, Plain) \in Definition /\ IsLocal(NewService(p, Plain))
    BY PlainAssumption, NoDefAssumption DEF NewService, Definition, IsLocal
  <2> QED
    BY <1>1, <1>3, <2>1 DEF Create
<1>4. CASE Delete(c, a)
  <2>1. [put |-> EmptyRegistry, over |-> FALSE, del |-> {a}] \in CommandEdits
    BY EmptyRegistryType DEF EmptyRegistry, CommandEdits, Edit
  <2> QED
    BY <1>4, <2>1 DEF Delete
<1>5. ASSUME NEW t \in Target, Bind(c, a, t)
      PROVE  \E e \in CommandEdits : Start(c, e)
  <2> DEFINE bound == [AddTarget(disk[a], t) EXCEPT !.origin = Local]
  <2>1. disk[a] \in Definition
    BY <1>5 DEF Bind, TypeOK, Readable, Registry
  <2>2. AddTarget(disk[a], t) \in Definition
    BY <2>1, CommandTypes, EmptyRegistryType
  <2>3. bound \in Definition /\ bound.origin = Local
    BY <2>2 DEF Definition
  <2>4. IsLocal(bound)
    BY <2>3, NoDefAssumption DEF IsLocal
  <2>5. Start(c, [put |-> PutOne(a, bound), over |-> TRUE, del |-> {}])
    BY <1>5 DEF Bind
  <2> HIDE DEF bound
  <2> QED
    BY <1>1, <2>3, <2>4, <2>5
<1> QED
  BY <1>2, <1>3, <1>4, <1>5 DEF Create, Delete, Bind

(* What the receiver begins with imports from the sender of the update.    *)
LEMMA ReceiveEdit ==
    ASSUME TypeOK, NEW o \in Site, Receive(o)
    PROVE  \/ UNCHANGED <<step, edit, from>>
           \/ /\ from' = o
              /\ \E e \in ImportEdits(o) : Begin(Receiver, e)
<1> DEFINE update == Indexed(offered[o], o)
           changed == Changed(byName, o, update)
           deleted == Deleted(byOrigin[o], update)
           put == [a \in Address |->
                     IF a \in changed THEN update[a] ELSE NoDef]
           e == [put |-> put, over |-> TRUE, del |-> deleted]
<1>1. update \in Registry
  BY IndexedType DEF TypeOK
<1>2. \A a \in Address : update[a] = NoDef \/ ComesFrom(update[a], o)
  <2>1. ASSUME NEW a \in Address, offered[o][a] # NoDef
        PROVE  ComesFrom([offered[o][a] EXCEPT !.origin = o], o)
    <3>1. offered[o][a] \in Definition
      BY <2>1 DEF TypeOK, Registry
    <3>2. [offered[o][a] EXCEPT !.origin = o] \in Definition
      BY <3>1 DEF Definition
    <3> QED
      BY <3>1, <3>2, NoDefAssumption DEF ComesFrom, Definition
  <2> QED
    BY <2>1 DEF Indexed
<1>3. deleted \subseteq Address
  BY DEF Deleted, TypeOK
<1>4. UNCHANGED <<step, edit, from>> \/ (Begin(Receiver, e) /\ from' = o)
  BY DEF Receive
<1> HIDE DEF update, changed, deleted
<1>5. put \in Registry
  BY <1>1 DEF Registry
<1>6. e \in ImportEdits(o)
  BY <1>2, <1>3, <1>5 DEF ImportEdits, Edit
<1> HIDE DEF e
<1> QED
  BY <1>4, <1>6

(* The watcher's maps after a pass have their types.                       *)
LEMMA ProcessType ==
    ASSUME TypeOK, Process
    PROVE  /\ byOrigin' \in [Site -> SUBSET Address]
           /\ byName' \in Registry
           /\ heardFrom' \subseteq Site
<1>1. byOrigin' \in [Site -> SUBSET Address] /\ byName' \in Registry
  <2>1. CASE Readable(seen)
    <3>1. seen \in Registry
      BY <2>1 DEF TypeOK, Readable
    <3>2. byName' \in Registry
      BY <2>1, <3>1, ViewTypes DEF Process
    <3>3. PICK pick \in Picks(byOrigin) :
             byOrigin' = TrackedAfter(byOrigin, seen, pick)
      BY <2>1 DEF Process
    <3>4. byOrigin' \in [Site -> SUBSET Address]
      BY <3>3 DEF TrackedAfter, TypeOK
    <3> QED
      BY <3>2, <3>4
  <2>2. CASE ~Readable(seen)
    BY <2>2 DEF Process, TypeOK
  <2> QED
    BY <2>1, <2>2
<1>2. heardFrom' \subseteq Site
  BY DEF Process, TypeOK
<1> QED
  BY <1>1, <1>2

(* Every step keeps the types.                                             *)
LEMMA TypeStep == TypeOK /\ [Next]_vars => TypeOK'
<1> SUFFICES ASSUME TypeOK, [Next]_vars
             PROVE  TypeOK'
  OBVIOUS
<1> USE DEF TypeOK, diskVars, netVars, mapVars, watchVars
<1>1. CASE UNCHANGED vars
  BY <1>1 DEF vars
<1>2. ASSUME NEW c \in Command, Operator(c)
      PROVE  TypeOK'
  <2>1. PICK e \in CommandEdits : Start(c, e)
    BY <1>2, OperatorEdit
  <2>2. e \in Edit
    BY DEF CommandEdits
  <2> QED
    BY <2>1, <2>2 DEF Start, Begin, Step, Writer
<1>3. ASSUME NEW c \in Command, KillCommand(c)
      PROVE  TypeOK'
  BY <1>3, BoundsAssumption DEF KillCommand, Kill, Step, Writer
<1>4. ASSUME NEW w \in Writer, Read(w)
      PROVE  TypeOK'
  <2>1. StepAfterError(w) \in Step
    BY DEF StepAfterError, Step
  <2>2. CASE Refused(w)
    BY <1>4, <2>1, <2>2 DEF Read
  <2>3. CASE ~Refused(w)
    BY <1>4, <2>3 DEF Read, Refused, Readable, Step
  <2> QED
    BY <2>2, <2>3
<1>5. ASSUME NEW w \in Writer, Open(w)
      PROVE  TypeOK'
  BY <1>5 DEF Open, Step, Watched
<1>6. ASSUME NEW w \in Writer, Write(w)
      PROVE  TypeOK'
  <2>1. StepAfterWrite(w) \in Step
    BY DEF StepAfterWrite, Step
  <2>2. Applied(base[w], edit[w]) \in Registry
    BY AppliedType
  <2>3. last' \in Registry /\ disk' \in Registry \cup {Empty, Garbled}
    BY <1>6, <2>2 DEF Write, Overwritten
  <2>4. pending' \in BOOLEAN
    BY <1>6 DEF Write, Watched
  <2> QED
    BY <1>6, <2>1, <2>3, <2>4 DEF Write
<1>7. ASSUME NEW o \in Site, Receive(o)
      PROVE  TypeOK'
  <2>1. step' \in [Writer -> Step] /\ edit' \in [Writer -> Edit]
          /\ from' \in Site \cup {Local}
    BY <1>7, ReceiveEdit DEF Begin, Writer, Step, ImportEdits
  <2>2. heardFrom' \subseteq Site
    BY <1>7 DEF Receive
  <2> QED
    BY <1>7, <2>1, <2>2 DEF Receive
<1>8. ASSUME NEW o \in Site, Tick(o)
      PROVE  TypeOK'
  <2>1. [put |-> EmptyRegistry, over |-> FALSE, del |-> byOrigin[o]] \in Edit
    BY EmptyRegistryType DEF Edit
  <2>2. Ager \in Writer /\ {"read", "forget"} \subseteq Step
    BY DEF Writer, Step
  <2>3. step' \in [Writer -> Step] /\ edit' \in [Writer -> Edit]
    <3> DEFINE removal == [put |-> EmptyRegistry, over |-> FALSE,
                           del |-> byOrigin[o]]
    <3>1. CASE byOrigin[o] = {}
      BY <1>8, <2>2, <3>1 DEF Tick
    <3>2. CASE byOrigin[o] # {}
      <4>1. Begin(Ager, removal)
        BY <1>8, <3>2 DEF Tick
      <4> HIDE DEF removal
      <4>2. removal \in Edit
        BY <2>1 DEF removal
      <4> QED
        BY <2>2, <4>1, <4>2 DEF Begin
    <3> QED
      BY <3>1, <3>2
  <2> QED
    BY <1>8, <2>3 DEF Tick
<1>9. CASE ForgetWithdrawn
  BY <1>9 DEF ForgetWithdrawn, Writer, Step
<1>10. CASE ForgetAged
  BY <1>10 DEF ForgetAged, Writer, Step
<1>11. CASE Watch
  <2>1. CASE AddWatch \/ TakeEvent \/ ReadDefinitions
    BY <2>1 DEF AddWatch, TakeEvent, ReadDefinitions, WatcherStep
  <2>2. CASE Process
    BY <2>2, ProcessType DEF Process, WatcherStep
  <2> QED
    BY <1>11, <2>1, <2>2 DEF Watch
<1>12. CASE Others
  <2>1. changes' \in 0..MaxChanges
    BY <1>12, BoundsAssumption DEF Others, Offer, Withdraw, Depart, Change
  <2>2. \A p \in Port : NewService(p, Plain) \in Definition
    BY PlainAssumption DEF NewService, Definition
  <2>3. ASSUME NEW o \in Site, NEW a \in Address,
               Withdraw(o, a) \/ \E p \in Port : Offer(o, a, p)
        PROVE  offered' \in [Site -> Registry]
    <3>1. PICK d \in Definition \cup {NoDef} :
             offered' = [offered EXCEPT ![o][a] = d]
      BY <2>2, <2>3 DEF Offer, Withdraw
    <3> QED
      BY <3>1 DEF Registry
  <2>4. offered' \in [Site -> Registry]
    BY <1>12, <2>3 DEF Others, Depart
  <2> QED
    BY <1>12, <2>1, <2>4 DEF Others, Offer, Withdraw, Depart
<1>13. CASE KillController
  <2>1. kills' \in 0..MaxKills
    BY <1>13, BoundsAssumption DEF KillController, Kill
  <2>2. step' \in [Writer -> Step]
    BY <1>13 DEF KillController, Writer, Step
  <2>3. byOrigin' \in [Site -> SUBSET Address] /\ byName' \in Registry
    BY <1>13, EmptyRegistryType DEF KillController
  <2>4. watcher' \in WatcherStep /\ pending' \in BOOLEAN
    BY <1>13 DEF KillController, WatcherStep
  <2> QED
    BY <1>13, <2>1, <2>2, <2>3, <2>4 DEF KillController
<1>14. CASE AddWatchFails
  BY <1>14, BoundsAssumption DEF AddWatchFails, Kill, WatcherStep
<1>15. CASE Restart
  BY <1>15 DEF Restart, WatcherStep
<1> HIDE DEF TypeOK
<1> QED
  BY <1>1, <1>2, <1>3, <1>4, <1>5, <1>6, <1>7, <1>8, <1>9, <1>10, <1>11,
     <1>12, <1>13, <1>14, <1>15 DEF Next, ReadModifyWrite

(* The initial state has the types.                                        *)
LEMMA InitType == Init => TypeOK
<1>1. NoEdit \in Edit
  BY EmptyRegistryType DEF NoEdit, Edit
<1>2. EmptyRegistry \in Registry /\ 0 \in 0..MaxChanges /\ 0 \in 0..MaxKills
  BY EmptyRegistryType, BoundsAssumption
<1> QED
  BY <1>1, <1>2 DEF Init, TypeOK, Step, WatcherStep

(* Every variable keeps its type.  What the file holds is a map of         *)
(* definitions or one of the two unreadable texts, whatever the order of   *)
(* the accesses (updateSkupperServices and the commands).                  *)
THEOREM TypeCorrect == Spec => []TypeOK
  BY InitType, TypeStep, PTL DEF Spec

-----------------------------------------------------------------------------
(* Writers in any order. *)

Busy(w) == step[w] \in {"read", "open", "write"}

(* A file that can be read is the latest text that was written to its end. *)
LastRead == Readable(disk) => disk = last

(* What a busy writer is going to change.                                  *)
EditsInv ==
    /\ \A c \in Command : Busy(c) => edit[c] \in CommandEdits
    /\ Busy(Receiver) => from \in Site /\ edit[Receiver] \in ImportEdits(from)
    /\ Busy(Ager) => aged # {} /\ edit[Ager].put = EmptyRegistry

StoreInv == LastRead /\ EditsInv

(* The store sees nothing of a step that leaves the file, the snapshots    *)
(* and the ends of the commands alone.                                     *)
Unseen == UNCHANGED <<diskVars, base, StatusView>>

(* The kinds of step: somebody begins, somebody accesses the file, a       *)
(* command is killed, or nothing of interest happens.                      *)
Begins(w, e) ==
    /\ UNCHANGED <<diskVars, base>>
    /\ step' = [step EXCEPT ![w] = "read"]
    /\ edit' = [edit EXCEPT ![w] = e]

CommandBegins ==
    \E c \in Command : \E e \in CommandEdits :
       Begins(c, e) /\ step[c] = "idle" /\ UNCHANGED <<from, aged>>

ReceiverBegins ==
    \E o \in Site : \E e \in ImportEdits(o) :
       Begins(Receiver, e) /\ from' = o /\ UNCHANGED aged

AgerBegins ==
    \E o \in Site : \E e \in Edit :
       /\ Begins(Ager, e) /\ e.put = EmptyRegistry
       /\ aged' # {} /\ UNCHANGED from

Aside ==
    /\ UNCHANGED <<diskVars, base, edit, from>>
    /\ \A w \in Writer : Busy(w)' => Busy(w)
    /\ aged' = aged \/ ~Busy(Ager)'
    /\ \A c \in Command : step'[c] = step[c]

(* The writers are the commands and two others.                            *)
LEMMA Writers ==
    /\ Receiver \in Writer /\ Ager \in Writer /\ Receiver # Ager
    /\ \A c \in Command : c \in Writer /\ c # Receiver /\ c # Ager
  BY WriterAssumption DEF Writer

(* Every step is of one of these kinds.                                    *)
LEMMA StepKinds ==
    ASSUME TypeOK, [Next]_vars
    PROVE  \/ CommandBegins \/ ReceiverBegins \/ AgerBegins
           \/ \E w \in Writer : ReadModifyWrite(w)
           \/ \E c \in Command : KillCommand(c)
           \/ Aside
<1> USE DEF netVars, mapVars, watchVars, diskVars
<1>1. CASE UNCHANGED <<diskVars, step, edit, base, from, aged>>
  BY <1>1 DEF Aside, Busy
<1>2. ASSUME NEW c \in Command, Operator(c)
      PROVE  CommandBegins
  <2>1. PICK e \in CommandEdits : Start(c, e)
    BY <1>2, OperatorEdit
  <2>2. Begins(c, e) /\ step[c] = "idle" /\ UNCHANGED <<from, aged>>
    BY <1>2, <2>1, OperatorEdit DEF Start, Begin, Begins
  <2> QED
    BY <2>2 DEF CommandBegins
<1>3. ASSUME NEW o \in Site, Receive(o)
      PROVE  ReceiverBegins \/ Aside
  <2>1. UNCHANGED <<diskVars, base, aged>>
    BY <1>3 DEF Receive
  <2>2. CASE UNCHANGED <<step, edit, from>>
    BY <2>1, <2>2 DEF Aside, Busy
  <2>3. ASSUME NEW e \in ImportEdits(o), from' = o, Begin(Receiver, e)
        PROVE  ReceiverBegins
    BY <2>1, <2>3 DEF Begin, Begins, ReceiverBegins
  <2> QED
    BY <1>3, <2>2, <2>3, ReceiveEdit
<1>4. ASSUME NEW o \in Site, Tick(o)
      PROVE  AgerBegins \/ Aside
  <2> DEFINE e == [put |-> EmptyRegistry, over |-> FALSE, del |-> byOrigin[o]]
  <2>1. UNCHANGED <<diskVars, base, from>> /\ aged' # {}
    BY <1>4 DEF Tick
  <2>2. CASE byOrigin[o] = {}
    <3>1. step' = [step EXCEPT ![Ager] = "forget"] /\ edit' = edit
      BY <1>4, <2>2 DEF Tick
    <3>2. \A w \in Writer : step'[w] = IF w = Ager THEN "forget" ELSE step[w]
      BY <3>1 DEF TypeOK
    <3> QED
      BY <2>1, <3>1, <3>2, Writers DEF Aside, Busy
  <2>3. CASE byOrigin[o] # {}
    <3>1. Begin(Ager, e)
      BY <1>4, <2>3 DEF Tick
    <3>2. e \in Edit
      BY EmptyRegistryType DEF Edit, TypeOK
    <3>3. e.put = EmptyRegistry
      OBVIOUS
    <3> HIDE DEF e
    <3> QED
      BY <2>1, <3>1, <3>2, <3>3 DEF Begin, Begins, AgerBegins
  <2> QED
    BY <2>2, <2>3
<1>5. CASE ForgetWithdrawn
  <2>1. \A w \in Writer : step'[w] = IF w = Receiver THEN "idle" ELSE step[w]
    BY <1>5 DEF ForgetWithdrawn, TypeOK
  <2> QED
    BY <1>5, <2>1, Writers DEF ForgetWithdrawn, Aside, Busy
<1>6. CASE ForgetAged
  <2>1. \A w \in Writer : step'[w] = IF w = Ager THEN "idle" ELSE step[w]
    BY <1>6 DEF ForgetAged, TypeOK
  <2> QED
    BY <1>6, <2>1, Writers DEF ForgetAged, Aside, Busy
<1>7. CASE KillController
  <2>1. \A w \in Writer :
           step'[w] = IF w \in {Receiver, Ager} THEN "idle" ELSE step[w]
    BY <1>7 DEF KillController, TypeOK
  <2>2. UNCHANGED <<diskVars, base, edit, from>>
    BY <1>7 DEF KillController
  <2> QED
    BY <2>1, <2>2, Writers DEF Aside, Busy
<1>8. CASE Watch \/ Others \/ AddWatchFails \/ Restart \/ UNCHANGED vars
  BY <1>1, <1>8
     DEF Watch, AddWatch, TakeEvent, ReadDefinitions, Process, Others, Offer,
         Withdraw, Depart, AddWatchFails, Restart, vars
<1> QED
  BY <1>2, <1>3, <1>4, <1>5, <1>6, <1>7, <1>8 DEF Next

(* Every step keeps a readable file the last text.                         *)
LEMMA LastStep ==
    ASSUME TypeOK, LastRead, [Next]_vars
    PROVE  LastRead'
<1> USE DEF LastRead, Readable
<1>1. CASE UNCHANGED diskVars
  BY <1>1 DEF diskVars
<1>2. ASSUME NEW w \in Writer, ReadModifyWrite(w)
      PROVE  LastRead'
  BY <1>1, <1>2 DEF ReadModifyWrite, Read, Open, Write, Overwritten
<1>3. ASSUME NEW c \in Command, KillCommand(c)
      PROVE  LastRead'
  BY <1>1, <1>3 DEF KillCommand
<1> QED
  BY <1>1, <1>2, <1>3, StepKinds
     DEF CommandBegins, ReceiverBegins, AgerBegins, Begins, Aside

(* The edits of busy writers keep their shape.                             *)
LEMMA EditsStep ==
    ASSUME TypeOK, EditsInv, [Next]_vars
    PROVE  EditsInv'
<1> USE DEF EditsInv
<1>1. ASSUME NEW w \in Writer, NEW e, Begins(w, e)
      PROVE  /\ edit'[w] = e
             /\ \A v \in Writer : v # w => edit'[v] = edit[v]
             /\ \A v \in Writer : v # w => (Busy(v)' <=> Busy(v))
  BY <1>1 DEF Begins, TypeOK, Busy
<1>2. CASE CommandBegins
  <2>1. PICK c \in Command : \E e \in CommandEdits :
           Begins(c, e) /\ UNCHANGED <<from, aged>>
    BY <1>2 DEF CommandBegins
  <2>2. edit'[c] \in CommandEdits
    BY <1>1, <2>1, Writers
  <2>3. \A v \in Writer : v # c => edit'[v] = edit[v] /\ (Busy(v)' <=> Busy(v))
    BY <1>1, <2>1, Writers
  <2> QED
    BY <2>1, <2>2, <2>3, Writers
<1>3. CASE ReceiverBegins
  BY <1>1, <1>3, Writers DEF ReceiverBegins
<1>4. CASE AgerBegins
  BY <1>1, <1>4, Writers DEF AgerBegins
<1>5. ASSUME NEW w \in Writer, ReadModifyWrite(w)
      PROVE  EditsInv'
  <2>1. UNCHANGED <<edit, from, aged>>
    BY <1>5 DEF ReadModifyWrite, Read, Open, Write
  <2>2. \A v \in Writer : Busy(v)' => Busy(v)
    BY <1>5 DEF ReadModifyWrite, Read, Open, Write, TypeOK, Busy
  <2> QED
    BY <2>1, <2>2, Writers
<1>6. ASSUME NEW c \in Command, KillCommand(c)
      PROVE  EditsInv'
  <2>1. UNCHANGED <<edit, from, aged>>
    BY <1>6 DEF KillCommand
  <2>2. \A v \in Writer : Busy(v)' => Busy(v)
    BY <1>6 DEF KillCommand, TypeOK, Busy
  <2> QED
    BY <2>1, <2>2, Writers
<1>7. CASE Aside
  BY <1>7, Writers DEF Aside
<1> QED
  BY <1>2, <1>3, <1>4, <1>5, <1>6, <1>7, StepKinds

-----------------------------------------------------------------------------
(* The store. *)

(* The store's registries are this module's.                               *)
LEMMA StoreType ==
    ASSUME NEW defs \in Registry
    PROVE  defs \in Store!Registry
  BY DEF Registry, Definition, Store!Registry, Store!Definition

(* A read that succeeds takes a snapshot.                                  *)
LEMMA ReadInStore ==
    ASSUME TypeOK, LastRead, NEW w \in Writer, Read(w), ~Refused(w)
    PROVE  Store!TakeSnapshot(w)
<1>1. base' = [base EXCEPT ![w] = last]
  BY DEF Read, Refused, LastRead
<1>2. \A v \in Writer : step'[v] = IF v = w THEN "open" ELSE step[v]
  BY DEF Read, TypeOK
<1>3. StatusView' = StatusView
  BY <1>2, Writers DEF StatusView, Read
<1>4. UNCHANGED diskVars /\ Readable(disk)
  BY DEF Read, Refused
<1> QED
  BY <1>1, <1>3, <1>4 DEF Store!TakeSnapshot, diskVars, Readable

(* A command that is refused or killed fails without a trace.              *)
LEMMA FailureInStore ==
    ASSUME TypeOK, NEW c \in Command, Busy(c),
           step' = [step EXCEPT ![c] = "failed"], UNCHANGED <<diskVars, base>>
    PROVE  Store!Refuse(c)
<1>1. \A d \in Command : step'[d] = IF d = c THEN "failed" ELSE step[d]
  BY Writers DEF TypeOK
<1>2. /\ StatusView[c] = "open"
      /\ StatusView' = [StatusView EXCEPT ![c] = "failed"]
  BY <1>1 DEF StatusView, Busy
<1> QED
  BY <1>2 DEF Store!Refuse, diskVars, Readable

(* A read that is refused ends a command, and is not seen otherwise.       *)
LEMMA RefusalInStore ==
    ASSUME TypeOK, NEW w \in Writer, Read(w), Refused(w)
    PROVE  Unseen \/ (w \in Command /\ Store!Refuse(w))
<1>1. step' = [step EXCEPT ![w] = StepAfterError(w)] /\ Busy(w)
  BY DEF Read, Busy
<1>2. UNCHANGED <<diskVars, base>>
  BY DEF Read
<1>3. CASE w \in Command
  BY <1>1, <1>2, <1>3, FailureInStore DEF StepAfterError
<1>4. CASE w \notin Command
  <2>1. \A c \in Command : step'[c] = step[c]
    BY <1>1, <1>4, Writers DEF TypeOK
  <2> QED
    BY <1>2, <2>1 DEF Unseen, StatusView
<1> QED
  BY <1>3, <1>4

(* Truncation makes the file illegible.                                    *)
LEMMA OpenInStore ==
    ASSUME TypeOK, NEW w \in Writer, Open(w)
    PROVE  Store!BecomeIllegible
<1>1. \A v \in Writer : step'[v] = IF v = w THEN "write" ELSE step[v]
  BY DEF Open, TypeOK
<1>2. StatusView' = StatusView
  BY <1>1, Writers DEF StatusView, Open
<1> QED
  BY <1>2 DEF Open, Store!BecomeIllegible, Readable

(* A command's write is its success.                                       *)
LEMMA CommandWrite ==
    ASSUME TypeOK, EditsInv, NEW c \in Command, Write(c)
    PROVE  \E a \in Address : Store!Succeed(c, a)
<1>0. c \in Writer /\ Busy(c)
  BY Writers DEF Write, Busy
<1>1. last' = Applied(base[c], edit[c]) /\ base' = base
  BY DEF Write
<1>2. PICK a \in Address :
         /\ \A b \in Address \ {a} : edit[c].put[b] = NoDef
         /\ edit[c].put[a] = NoDef \/ IsLocal(edit[c].put[a])
         /\ edit[c].del \subseteq {a}
  BY <1>0 DEF EditsInv, CommandEdits
<1>3. base[c] \in Registry /\ edit[c] \in Edit
  BY <1>0 DEF TypeOK
<1>4. last' \in Store!Registry
  BY <1>1, <1>3, AppliedType, StoreType
<1>5. \A b \in Address \ {a} : last'[b] = base[c][b]
  BY <1>1, <1>2 DEF Applied
<1>6. last'[a] # base[c][a] => last'[a] = NoDef \/ Store!IsLocal(last'[a])
  BY <1>1, <1>2 DEF Applied, IsLocal, Store!IsLocal
<1>7. \A d \in Command : step'[d] = IF d = c THEN "done" ELSE step[d]
  BY <1>0, Writers DEF Write, TypeOK, StepAfterWrite
<1>8. StatusView[c] = "open" /\ StatusView' = [StatusView EXCEPT ![c] = "done"]
  BY <1>7 DEF Write, StatusView
<1>9. Readable(disk)' \in BOOLEAN
  BY DEF Readable
<1>10. Store!Succeed(c, a)
  BY <1>1, <1>4, <1>5, <1>6, <1>8, <1>9 DEF Store!Succeed
<1> QED
  BY <1>10

(* A write of the receiver or of the ager is an import.                    *)
LEMMA ControllerWrite ==
    ASSUME TypeOK, EditsInv, NEW w \in {Receiver, Ager}, Write(w)
    PROVE  \E o \in Site : Store!Import(w, o)
<1>0. w \in Writer /\ w \notin Command /\ Busy(w)
  BY Writers DEF Write, Busy
<1>1. last' = Applied(base[w], edit[w]) /\ base' = base
  BY DEF Write
<1>2. base[w] \in Registry /\ edit[w] \in Edit
  BY <1>0 DEF TypeOK
<1>3. last' \in Store!Registry
  BY <1>1, <1>2, AppliedType, StoreType
<1>4. PICK o \in Site : edit[w] \in ImportEdits(o)
  <2>1. CASE w = Receiver
    BY <1>0, <2>1 DEF EditsInv
  <2>2. CASE w = Ager
    <3>1. PICK o \in aged : TRUE
      BY <1>0, <2>2 DEF EditsInv
    <3>2. o \in Site /\ edit[w] \in ImportEdits(o)
      BY <1>0, <1>2, <2>2, <3>1
         DEF EditsInv, ImportEdits, EmptyRegistry, TypeOK
    <3> QED
      BY <3>2
  <2> QED
    BY <2>1, <2>2
<1>5. \A a \in Address : \/ last'[a] = base[w][a]
                         \/ last'[a] = NoDef
                         \/ Store!ComesFrom(last'[a], o)
  BY <1>1, <1>4 DEF Applied, ImportEdits, ComesFrom, Store!ComesFrom
<1>6. StatusView' = StatusView
  <2>1. \A c \in Command : step'[c] = step[c]
    BY <1>0, Writers DEF Write, TypeOK
  <2> QED
    BY <2>1 DEF StatusView
<1>7. Readable(disk)' \in BOOLEAN
  BY DEF Readable
<1>8. Store!Import(w, o)
  BY <1>1, <1>3, <1>5, <1>6, <1>7 DEF Store!Import
<1> QED
  BY <1>8

(* Every step is a step of the store or leaves it alone.                   *)
LEMMA StoreStep ==
    ASSUME TypeOK, StoreInv, [Next]_vars
    PROVE  [Store!StoreNext]_(Store!storeVars)
<1> USE DEF StoreInv
<1>1. CASE Unseen
  BY <1>1 DEF Unseen, diskVars, Store!storeVars, Readable
<1>2. ASSUME NEW w \in Writer, NEW e, Begins(w, e),
             w \in Command => step[w] = "idle"
      PROVE  Unseen
  <2>1. \A v \in Writer : step'[v] = IF v = w THEN "read" ELSE step[v]
    BY <1>2 DEF Begins, TypeOK
  <2>2. StatusView' = StatusView
    BY <1>2, <2>1, Writers DEF StatusView
  <2> QED
    BY <1>2, <2>2 DEF Unseen, Begins
<1>3. CASE CommandBegins \/ ReceiverBegins \/ AgerBegins
  BY <1>1, <1>2, <1>3, Writers
     DEF CommandBegins, ReceiverBegins, AgerBegins
<1>4. ASSUME NEW w \in Writer, Read(w)
      PROVE  [Store!StoreNext]_(Store!storeVars)
  <2>1. w \in Command \cup {Receiver, Ager}
    BY DEF Writer
  <2> QED
    BY <1>1, <1>4, <2>1, ReadInStore, RefusalInStore DEF Store!StoreNext
<1>5. ASSUME NEW w \in Writer, Open(w)
      PROVE  [Store!StoreNext]_(Store!storeVars)
  BY <1>5, OpenInStore DEF Store!StoreNext
<1>6. ASSUME NEW w \in Writer, Write(w)
      PROVE  [Store!StoreNext]_(Store!storeVars)
  BY <1>6, CommandWrite, ControllerWrite DEF Store!StoreNext, Writer
<1>7. ASSUME NEW c \in Command, KillCommand(c)
      PROVE  [Store!StoreNext]_(Store!storeVars)
  <2>1. Busy(c) /\ UNCHANGED <<diskVars, base>>
    BY <1>7 DEF KillCommand, Busy
  <2> QED
    BY <1>7, <2>1, FailureInStore DEF KillCommand, Store!StoreNext
<1>8. CASE Aside
  BY <1>1, <1>8 DEF Aside, Unseen, StatusView
<1> QED
  BY <1>3, <1>4, <1>5, <1>6, <1>7, <1>8, StepKinds DEF ReadModifyWrite

(* At first the store is empty and no command has run.                     *)
LEMMA StoreInit == Init => StoreInv /\ Store!StoreInit
<1> SUFFICES ASSUME Init
             PROVE  StoreInv /\ Store!StoreInit
  OBVIOUS
<1>1. \A w \in Writer : step[w] = "idle"
  BY DEF Init
<1>2. Readable(disk)
  BY EmptyRegistryType, UnreadableAssumption DEF Init, Readable
<1>3. StoreInv
  BY <1>1, Writers DEF StoreInv, LastRead, EditsInv, Busy, Init
<1>4. StatusView = [c \in Command |-> "open"]
  BY <1>1 DEF StatusView, Writer
<1>5. Readable(disk) = TRUE
  BY <1>2 DEF Readable
<1>6. Store!StoreInit
  BY <1>4, <1>5 DEF Init, Writer, Store!StoreInit, EmptyRegistry,
                    Store!EmptyRegistry
<1> QED
  BY <1>3, <1>6

(* The commands and the controller's own updates, each of a read, a        *)
(* truncation and a write without a lock (updateSkupperServices,           *)
(* updateServiceInterface, ServiceInterfaceRemove), in any order and       *)
(* whoever is killed between them, act on the file as on a store of        *)
(* snapshots: nobody reads half of a change, a change is applied whole to  *)
(* what its writer has read, and what fails leaves no change behind.       *)
THEOREM ImplementsStoreHolds == Spec => ImplementsStore
<1>1. Init => TypeOK /\ StoreInv /\ Store!StoreInit
  BY InitType, StoreInit
<1>2. TypeOK /\ StoreInv /\ [Next]_vars => TypeOK' /\ StoreInv'
  BY TypeStep, LastStep, EditsStep DEF StoreInv
<1>3. TypeOK /\ StoreInv /\ [Next]_vars
        => [Store!StoreNext]_(Store!storeVars)
  BY StoreStep
<1> QED
  BY <1>1, <1>2, <1>3, PTL DEF Spec, ImplementsStore, Store!StoreSpec
=============================================================================
