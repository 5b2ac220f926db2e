------------------------- MODULE ControllerRunProofs -------------------------
(***************************************************************************)
(* Proofs about ControllerRun: types, how long a pull may be silent, that  *)
(* passes keep what ServiceWatch promises, and what they leave attached.   *)
(***************************************************************************)
EXTENDS ControllerRun, TLAPS

USE DEF getTargetPort, TargetNames

-----------------------------------------------------------------------------
(* Definitions and bindings.                                               *)

(* The targets of a definition, or of bindings, have a port in the end.    *)
LEMMA TargetType ==
    ASSUME NEW targets \in Targets, NEW t \in DOMAIN targets
    PROVE  /\ t \in Target
           /\ targets[t] \in [port : Port \cup {0}, selector : Selector,
                              service : Service]
BY DEF Targets

LEMMA ChangedTargetsType ==
    ASSUME NEW b \in Binding, NEW d \in Definition
    PROVE  ChangedTargets(b, d) \in Targets
<1>1. b.targets \in Targets /\ d.targets \in Targets /\ d.port \in Port
  BY DEF Binding, Definition
<1>2. DOMAIN d.targets \in SUBSET Target
  BY <1>1, TargetType
<1>3. ASSUME NEW t \in DOMAIN d.targets
      PROVE  (IF t \in DOMAIN b.targets
              THEN [b.targets[t] EXCEPT !.port = getTargetPort(d, t)]
              ELSE addTarget(d, t))
             \in [port : Port \cup {0}, selector : Selector, service : Service]
  <2>1. getTargetPort(d, t) \in Port \cup {0}
    BY <1>1, TargetType
  <2>2. CASE t \in DOMAIN b.targets
    BY <1>1, <2>1, <2>2, TargetType
  <2>3. CASE t \notin DOMAIN b.targets
    BY <1>1, <2>1, <2>3, TargetType, TargetAssumption DEF addTarget
  <2> QED
    BY <2>2, <2>3
<1> QED
  BY <1>2, <1>3 DEF ChangedTargets, Targets

(* Whatever bindings were before, once changed they have each target of    *)
(* the required definition with its port, and no other.                    *)
LEMMA ChangedPorts ==
    ASSUME NEW b \in Binding, NEW d \in Definition, NEW p
    PROVE  [t \in DOMAIN ChangedTargets(b, d) |->
               IF ChangedTargets(b, d)[t].port = 0 THEN p
               ELSE ChangedTargets(b, d)[t].port]
              = [t \in DOMAIN d.targets |->
                    IF getTargetPort(d, t) = 0 THEN p ELSE getTargetPort(d, t)]
<1>1. b.targets \in Targets /\ d.targets \in Targets
  BY DEF Binding, Definition
<1>2. DOMAIN ChangedTargets(b, d) = DOMAIN d.targets
  BY DEF ChangedTargets
<1>3. ASSUME NEW t \in DOMAIN d.targets
      PROVE  ChangedTargets(b, d)[t].port = getTargetPort(d, t)
  <2>1. CASE t \in DOMAIN b.targets
    <3>1. b.targets[t] \in [port : Port \cup {0}, selector : Selector,
                            service : Service]
      BY <1>1, <2>1, TargetType
    <3> QED
      BY <2>1, <3>1 DEF ChangedTargets
  <2>2. CASE t \notin DOMAIN b.targets
    BY <2>2 DEF ChangedTargets, addTarget
  <2> QED
    BY <2>1, <2>2
<1> QED
  BY <1>2, <1>3

(* So what they follow of a definition does not depend on what they were.  *)
LEMMA ChangedFollowed ==
    ASSUME NEW b \in Binding, NEW d \in Definition
    PROVE  /\ Changed(b, d) \in Binding
           /\ Followed(Changed(b, d)) = Followed(d)
<1> DEFINE ts == ChangedTargets(b, d)
           c == [port |-> d.port, ingressPort |-> b.ingressPort,
                 option |-> d.option, headless |-> b.headless,
                 origin |-> d.origin, targets |-> ts]
<1>1. Changed(b, d) = c
  <2>1. Changed(b, d) = [b EXCEPT !.port = d.port, !.option = d.option,
                                  !.origin = d.origin, !.targets = ts]
    BY DEF Changed
  <2> HIDE DEF ts
  <2> QED
    BY <2>1 DEF Binding
<1>2. ts \in Targets
  BY ChangedTargetsType
<1>3. c \in Binding
  <2> HIDE DEF ts
  <2> QED
    BY <1>2 DEF Binding, Definition
<1>4. c # NoDef /\ d # NoDef
  BY <1>3, NoDefAssumption
<1>5. Followed(c) =
         [port |-> d.port, option |-> d.option, origin |-> d.origin,
          targets |-> [t \in DOMAIN ts |->
                          IF ts[t].port = 0 THEN d.port ELSE ts[t].port]]
  <2> HIDE DEF ts
  <2> QED
    BY <1>4 DEF Followed
<1>6. [t \in DOMAIN ts |-> IF ts[t].port = 0 THEN d.port ELSE ts[t].port]
        = [t \in DOMAIN d.targets |-> getTargetPort(d, t)]
  <2>1. [t \in DOMAIN ts |-> IF ts[t].port = 0 THEN d.port ELSE ts[t].port]
          = [t \in DOMAIN d.targets |->
                IF getTargetPort(d, t) = 0 THEN d.port ELSE getTargetPort(d, t)]
    <3> HIDE DEF getTargetPort, TargetNames
    <3> QED
      BY ChangedPorts
  <2>2. \A t \in DOMAIN d.targets :
           (IF getTargetPort(d, t) = 0 THEN d.port ELSE getTargetPort(d, t))
             = getTargetPort(d, t)
    OBVIOUS
  <2> QED
    BY <2>1, <2>2
<1>7. Followed(c) = Followed(d)
  <2> HIDE DEF c, ts
  <2> QED
    BY <1>4, <1>5, <1>6 DEF Followed
<1> QED
  BY <1>1, <1>3, <1>7

LEMMA NewFollowed ==
    ASSUME NEW d \in Definition
    PROVE  /\ newServiceBindings(d) \in Binding
           /\ Followed(newServiceBindings(d)) = Followed(d)
<1>1. newServiceBindings(d) \in Binding
  BY DEF newServiceBindings, Definition, Binding
<1>2. newServiceBindings(d) # NoDef /\ d # NoDef
  BY <1>1, NoDefAssumption
<1> QED
  BY <1>1, <1>2 DEF newServiceBindings, Followed

(* All of the bindings are, in what they follow, those of the definitions  *)
(* they were last brought into line with.                                  *)
LEMMA BoundFollowed ==
    ASSUME NEW b \in Bindings, NEW defs \in Definitions
    PROVE  /\ Bound(b, defs) \in Bindings
           /\ AllFollowed(Bound(b, defs)) = AllFollowed(defs)
<1>1. ASSUME NEW a \in Address
      PROVE  /\ Bound(b, defs)[a] \in Binding \cup {NoDef}
             /\ Followed(Bound(b, defs)[a]) = Followed(defs[a])
  <2>1. b[a] \in Binding \cup {NoDef} /\ defs[a] \in Definition \cup {NoDef}
    BY DEF Definitions, Bindings
  <2>2. Bound(b, defs)[a] = IF defs[a] = NoDef THEN NoDef
                            ELSE updateServiceBindings(b[a], defs[a])
    BY DEF Bound
  <2>3. CASE defs[a] = NoDef
    BY <2>2, <2>3
  <2>4. CASE defs[a] # NoDef /\ b[a] = NoDef
    BY <2>1, <2>2, <2>4, NewFollowed DEF updateServiceBindings
  <2>5. CASE defs[a] # NoDef /\ b[a] # NoDef
    BY <2>1, <2>2, <2>5, ChangedFollowed DEF updateServiceBindings
  <2> QED
    BY <2>3, <2>4, <2>5
<1>2. Bound(b, defs) = [a \in Address |-> Bound(b, defs)[a]]
  BY DEF Bound
<1> QED
  BY <1>1, <1>2 DEF Bindings, AllFollowed

LEMMA NoDefinitionsType ==
    NoDefinitions \in Definitions /\ NoDefinitions \in Bindings
BY DEF NoDefinitions, Definitions, Bindings

LEMMA NothingFollowed == AllFollowed(NoDefinitions) = NoDefinitions
BY DEF NoDefinitions, AllFollowed, Followed

-----------------------------------------------------------------------------
(* Types. *)

LEMMA TimeZero == Interval \in 0..Interval /\ 0 \in 0..MaxMessages /\ 0 \in Nat
BY TimeAssumption

LEMMA TypeInit == ControllerInit => ControllerTypeOK
<1> SUFFICES ASSUME ControllerInit
             PROVE  ControllerTypeOK
  OBVIOUS
<1>1. PullTypeOK
  BY TimeZero, Zenon DEF ControllerInit, PullInit, PullTypeOK
<1>2. file \in Definitions /\ svcDefs \in Definitions /\ bindings \in Bindings
  BY NoDefinitionsType, WrittenAssumption DEF ControllerInit
<1>3. /\ writes \in 0..MaxWrites
      /\ restarts \in 0..MaxRestarts
      /\ userSteps \in 0..MaxUserSteps
  BY WrittenAssumption DEF ControllerInit
<1>4. /\ made \in [Containers \cup {Controller} -> Nat]
      /\ up \subseteq {c \in Containers : made[c] # 0}
  BY WrittenAssumption DEF ControllerInit, Containers
<1> QED
  BY <1>1, <1>2, <1>3, <1>4 DEF ControllerInit, ControllerTypeOK, At

LEMMA TypeAnew == ControllerTypeOK /\ Anew /\ pull' \in
                      {"none", "call", "stream", "pulled", "failed"}
                      => PullTypeOK'
BY TimeZero, Zenon DEF Anew, PullTypeOK

LEMMA TypePull == ControllerTypeOK /\ Pulling => ControllerTypeOK'
<1> SUFFICES ASSUME ControllerTypeOK, Pulling
             PROVE  ControllerTypeOK'
  OBVIOUS
<1>0. PullTypeOK
  BY DEF ControllerTypeOK
<1>1. ASSUME PullBegin \/ StreamEnds \/ StreamCanceled PROVE PullTypeOK'
  <2>1. Anew /\ pull' \in {"none", "call", "stream", "pulled", "failed"}
    BY <1>1 DEF PullBegin, StreamEnds, StreamCanceled
  <2> QED
    BY <2>1, TypeAnew
<1>2. ASSUME PullAnswered(driver)
      PROVE  PullTypeOK'
  BY <1>0, <1>2 DEF PullAnswered, PullTypeOK
<1>3. ASSUME TimePasses PROVE PullTypeOK'
  BY <1>0, <1>3, TimeAssumption DEF TimePasses, PullTypeOK
<1>4. ASSUME ReporterTick PROVE PullTypeOK'
  BY <1>0, <1>4, TimeAssumption DEF ReporterTick, Overdue, PullTypeOK
<1>5. ASSUME Progress PROVE PullTypeOK'
  BY <1>0, <1>5, TimeAssumption DEF Progress, PullTypeOK
<1>6. PullTypeOK'
  BY <1>1, <1>2, <1>3, <1>4, <1>5 DEF Pulling, PullStep
<1> QED
  BY <1>6 DEF Pulling, ControllerTypeOK, fileVars, passVars, hostVars

LEMMA TypePass ==
    ControllerTypeOK /\ Step /\ ~Pulling => ControllerTypeOK'
<1> SUFFICES ASSUME ControllerTypeOK, Step, ~Pulling
             PROVE  ControllerTypeOK'
  OBVIOUS
<1>1. CASE Pulled \/ AddWatch \/ WriteEvent
  BY <1>1 DEF Pulled, AddWatch, WriteEvent, ControllerTypeOK, PullTypeOK,
     pullVars, fileVars, hostVars, At
<1>2. CASE getServiceDefinitions
  BY <1>2 DEF getServiceDefinitions, ControllerTypeOK, PullTypeOK, pullVars,
     fileVars, hostVars, At
<1>3. CASE Bind
  <2>1. bindings' \in Bindings
    BY <1>3, BoundFollowed DEF Bind, ControllerTypeOK
  <2> QED
    BY <1>3, <2>1 DEF Bind, ControllerTypeOK, PullTypeOK, pullVars, fileVars,
       hostVars, At
<1>4. CASE EnsureProxies
  <2>1. networked' \subseteq up /\ excused' \subseteq Containers
    BY <1>4 DEF EnsureProxies, ControllerTypeOK
  <2> QED
    BY <1>4, <2>1 DEF EnsureProxies, ControllerTypeOK, PullTypeOK, pullVars,
       fileVars, At
<1>5. CASE RemoveProxies
  <2>1. PICK stopped, removed :
           /\ removed \subseteq stopped
           /\ made' = [c \in Containers \cup {Controller} |->
                          IF c \in removed THEN 0 ELSE made[c]]
           /\ up' = up \ stopped
           /\ networked' = networked \ stopped
    BY <1>5 DEF RemoveProxies
  <2>2. /\ made' \in [Containers \cup {Controller} -> Nat]
        /\ up' \subseteq {c \in Containers : made'[c] # 0}
        /\ networked' \subseteq up'
    BY <2>1 DEF ControllerTypeOK
  <2> QED
    BY <1>5, <2>2 DEF RemoveProxies, ControllerTypeOK, At, PullTypeOK,
       pullVars, fileVars
<1> QED
  BY <1>1, <1>2, <1>3, <1>4, <1>5 DEF Step

LEMMA TypeOther ==
    ControllerTypeOK /\ (Environment \/ Failure \/ Restart \/ UNCHANGED vars)
        => ControllerTypeOK'
<1> SUFFICES ASSUME ControllerTypeOK,
                    Environment \/ Failure \/ Restart \/ UNCHANGED vars
             PROVE  ControllerTypeOK'
  OBVIOUS
<1>1. CASE TruncateFile
  BY <1>1, WrittenAssumption DEF TruncateFile, ControllerTypeOK, PullTypeOK,
     pullVars, passVars, hostVars, Watched
<1>2. CASE WriteFile
  BY <1>2, WrittenAssumption DEF WriteFile, ControllerTypeOK, PullTypeOK,
     pullVars, passVars, hostVars, Watched
<1>3. ASSUME NEW c \in Containers, UserRuns(c)
      PROVE  ControllerTypeOK'
  <2>1. userSteps' \in 0..MaxUserSteps
    BY <1>3, WrittenAssumption DEF UserRuns, ControllerTypeOK
  <2>2. Newest \in Nat \ {0}
    BY WrittenAssumption DEF Newest, ControllerTypeOK
  <2>3. /\ made' \in [Containers \cup {Controller} -> Nat]
        /\ up' \subseteq {x \in Containers : made'[x] # 0}
        /\ networked' \subseteq up'
    BY <1>3, <2>2 DEF UserRuns, ControllerTypeOK
  <2> QED
    BY <1>3, <2>1, <2>3 DEF UserRuns, ControllerTypeOK, PullTypeOK, pullVars,
       passVars, fileVars
<1>4. CASE Restart
  <2>1. PullTypeOK'
    BY <1>4, TypeAnew DEF Restart
  <2>2. restarts' \in 0..MaxRestarts
    BY <1>4, WrittenAssumption DEF Restart, ControllerTypeOK
  <2>3. Newest \in Nat \ {0}
    BY WrittenAssumption DEF Newest, ControllerTypeOK
  <2>4. /\ made' \in [Containers \cup {Controller} -> Nat]
        /\ up' \subseteq {x \in Containers : made'[x] # 0}
    BY <1>4, <2>3, WrittenAssumption DEF Restart, ControllerTypeOK, Containers
  <2> QED
    BY <1>4, <2>1, <2>2, <2>4, NoDefinitionsType DEF Restart, ControllerTypeOK,
       fileVars, At
<1>5. CASE AddWatchFails
  BY <1>5 DEF AddWatchFails, ControllerTypeOK, PullTypeOK, pullVars, fileVars,
     hostVars, At
<1>6. CASE Fails
  <2>1. PullTypeOK'
    BY <1>6, TypeAnew DEF Fails
  <2> QED
    BY <1>6, <2>1, NoDefinitionsType DEF Fails, ControllerTypeOK, fileVars,
       hostVars, At
<1>7. CASE UNCHANGED vars
  BY <1>7 DEF vars, ControllerTypeOK, PullTypeOK, pullVars, passVars, fileVars,
     hostVars
<1> QED
  BY <1>1, <1>2, <1>3, <1>4, <1>5, <1>6, <1>7 DEF Environment, Failure

(* Types hold in every state of the controller and of what is around it.   *)
THEOREM ControllerTypesHold == ControllerSpec => []ControllerTypeOK
<1>1. ControllerTypeOK /\ [ControllerNext]_vars => ControllerTypeOK'
  BY TypePull, TypePass, TypeOther DEF ControllerNext
<1> QED
  BY TypeInit, <1>1, PTL DEF ControllerSpec

-----------------------------------------------------------------------------
(* The pull. *)

(* The timestamp is that of the latest message, and the reporter's next    *)
(* look is not further away than the deadline allows.                      *)
Timed ==
    pull = "stream" /\ ~canceled
    => silence = elapsed /\ elapsed + timer =< Deadline + Interval

SilenceInv ==
    /\ pull \in {"call", "stream"} => elapsed = silence
    /\ pull = "call" => elapsed = 0 /\ timer = Interval
    /\ Timed
    /\ PullBounded

LEMMA SilenceStep ==
    ControllerTypeOK /\ SilenceInv /\ [ControllerNext]_vars => SilenceInv'
<1> SUFFICES ASSUME ControllerTypeOK, SilenceInv, [ControllerNext]_vars
             PROVE  SilenceInv'
  OBVIOUS
<1> USE TimeAssumption DEF SilenceInv, Timed, PullBounded
<1>0. timer \in 0..Interval /\ elapsed \in Nat /\ silence \in Nat
  BY DEF ControllerTypeOK, PullTypeOK
<1>1. CASE PullBegin
  BY <1>1 DEF PullBegin, Anew
<1>2. CASE PullAnswered(driver)
  BY <1>0, <1>2 DEF PullAnswered
<1>3. CASE TimePasses
  BY <1>0, <1>3 DEF TimePasses
<1>4. CASE ReporterTick
  BY <1>0, <1>4 DEF ReporterTick, Overdue
<1>5. CASE Progress
  BY <1>0, <1>5 DEF Progress
<1>6. CASE StreamEnds \/ StreamCanceled
  BY <1>6 DEF StreamEnds, StreamCanceled, Anew
<1>7. CASE Restart \/ Fails
  BY <1>7 DEF Restart, Fails, Anew
<1>8. CASE UNCHANGED pullVars
  BY <1>8 DEF pullVars
<1>9. UNCHANGED pullVars \/ Pulling \/ Restart \/ Fails
  BY DEF ControllerNext, Step, Environment, Failure, Pulled, AddWatch,
     AddWatchFails, WriteEvent, getServiceDefinitions, Bind, EnsureProxies,
     RemoveProxies, TruncateFile, WriteFile, UserRuns, vars
<1> QED
  BY <1>1, <1>2, <1>3, <1>4, <1>5, <1>6, <1>7, <1>8, <1>9
     DEF Pulling, PullStep

(* However the messages come, whatever the interval and the deadline: the  *)
(* pull is over before it has been silent for longer than the two of them. *)
THEOREM PullBoundedHolds == ControllerSpec => []PullBounded
<1>1. ControllerInit => SilenceInv
  BY DEF ControllerInit, PullInit, SilenceInv, Timed, PullBounded
<1>2. SilenceInv => PullBounded
  BY DEF SilenceInv
<1> QED
  BY ControllerTypesHold, SilenceStep, <1>1, <1>2, PTL DEF ControllerSpec

(* And it is not canceled while messages keep coming.                      *)
THEOREM ProgressKeptHolds == ControllerSpec => ProgressKept
<1>1. ControllerInit => SilenceInv
  BY DEF ControllerInit, PullInit, SilenceInv, Timed, PullBounded
<1>2. ControllerTypeOK /\ SilenceInv /\ [ControllerNext]_vars
         => [~canceled /\ canceled' => silence >= Deadline]_pullVars
  <2> SUFFICES ASSUME ControllerTypeOK, SilenceInv, ControllerNext,
                      ~canceled, canceled'
               PROVE  silence >= Deadline
    BY DEF vars
  <2>1. ReporterTick
    BY DEF ControllerNext, Step, Environment, Failure, Pulling, PullBegin,
       Anew, PullStep, PullAnswered, TimePasses, Progress, StreamEnds,
       StreamCanceled, Pulled, AddWatch, AddWatchFails, Fails, WriteEvent,
       getServiceDefinitions, Bind, EnsureProxies, RemoveProxies, TruncateFile,
       WriteFile, UserRuns, Restart, pullVars
  <2>2. elapsed >= Deadline
    BY <2>1 DEF ReporterTick, Overdue
  <2> QED
    BY <2>1, <2>2 DEF ReporterTick, SilenceInv
<1> QED
  BY ControllerTypesHold, SilenceStep, <1>1, <1>2, PTL
     DEF ControllerSpec, ProgressKept

-----------------------------------------------------------------------------
(* Passes implement ServiceWatch.                                          *)

(* What is known, and what is due, as ServiceWatch sees them.              *)
View == IF at = "bind" THEN AllFollowed(svcDefs) ELSE AllFollowed(bindings)
Due == Watched /\ (pending \/ at = "read")

(* The process ends, or is replaced.                                       *)
Ends == Fails \/ Restart

(* What ServiceWatch does not see.                                         *)
Apart ==
    \/ Pulling \/ Pulled \/ AddWatchFails \/ WriteEvent \/ Bind
    \/ EnsureProxies \/ RemoveProxies
    \/ \E c \in Containers : UserRuns(c)
    \/ UNCHANGED vars

(* Only reading the file, the end of the process and what happens to the   *)
(* file change what ServiceWatch sees.                                     *)
LEMMA Unseen ==
    ASSUME ControllerTypeOK, Apart
    PROVE  file' = file /\ Watched' = Watched /\ Due' = Due /\ View' = View
<1>1. CASE Pulling \/ (\E c \in Containers : UserRuns(c)) \/ UNCHANGED vars
  <2>1. UNCHANGED <<file, pending, at, svcDefs, bindings>>
    BY <1>1 DEF Pulling, UserRuns, vars, fileVars, passVars
  <2> QED
    BY <2>1 DEF Watched, Due, View
<1>2. CASE Pulled \/ AddWatchFails \/ EnsureProxies
  BY <1>2
  DEF Pulled, AddWatchFails, EnsureProxies, fileVars, Watched, Due, View
<1>3. CASE RemoveProxies
  BY <1>3 DEF RemoveProxies, fileVars, Watched, Due, View
<1>4. CASE WriteEvent
  BY <1>4 DEF WriteEvent, fileVars, Watched, Due, View
<1>5. CASE Bind
  <2>1. AllFollowed(Bound(bindings, svcDefs)) = AllFollowed(svcDefs)
    BY BoundFollowed DEF ControllerTypeOK
  <2>2. View = AllFollowed(svcDefs) /\ View' = AllFollowed(bindings')
    BY <1>5 DEF Bind, View
  <2>3. file' = file /\ Watched' = Watched /\ Due' = Due
    BY <1>5 DEF Bind, fileVars, Watched, Due
  <2> QED
    BY <1>5, <2>1, <2>2, <2>3 DEF Bind
<1> QED
  BY <1>1, <1>2, <1>3, <1>4, <1>5 DEF Apart

(* Every step of the controller, of its file and of its user is one of the *)
(* watch, or none.                                                         *)
LEMMA WatchStep ==
    ControllerTypeOK /\ [ControllerNext]_vars
        => [Promise!WatchNext]_(Promise!watchVars)
<1> SUFFICES ASSUME ControllerTypeOK, [ControllerNext]_vars
             PROVE  [Promise!WatchNext]_(Promise!watchVars)
  OBVIOUS
<1>1. CASE Apart
  <2>1. file' = file /\ Watched' = Watched /\ Due' = Due /\ View' = View
    BY <1>1, Unseen
  <2> QED
    BY <2>1 DEF Due, View, Promise!watchVars
<1>2. CASE AddWatch
  <2>1. file' = file /\ View' = View
    BY <1>2 DEF AddWatch, fileVars, View
  <2>2. ~Watched /\ Watched' = TRUE /\ Due' = TRUE
    BY <1>2 DEF AddWatch, Watched, Due
  <2> QED
    BY <2>1, <2>2 DEF Due, View, Promise!WatchNext, Promise!Watch
<1>3. CASE getServiceDefinitions
  <2>1. file' = file /\ Watched /\ Due /\ Watched' = Watched
    BY <1>3 DEF getServiceDefinitions, fileVars, Watched, Due
  <2>2. Due' \in BOOLEAN
    BY DEF Due
  <2>3. View' = IF file = Torn THEN View ELSE AllFollowed(file)
    BY <1>3 DEF getServiceDefinitions, View
  <2> QED
    BY <2>1, <2>2, <2>3 DEF Due, View, Promise!WatchNext, Promise!Pass
<1>4. CASE TruncateFile \/ WriteFile
  <2>1. file' \in Written \cup {Torn}
    BY <1>4 DEF TruncateFile, WriteFile
  <2>2. Watched' = Watched /\ View' = View
    BY <1>4 DEF TruncateFile, WriteFile, passVars, Watched, View
  <2>3. Due' = Watched
    BY <1>4 DEF TruncateFile, WriteFile, passVars, Watched, Due
  <2> QED
    BY <2>1, <2>2, <2>3 DEF Due, View, Promise!WatchNext, Promise!Write
<1>5. CASE Ends
  <2>1. /\ file' = file
        /\ at' \in {"dead", "pull"} /\ pending' = FALSE
        /\ bindings' = NoDefinitions
    BY <1>5 DEF Ends, Restart, Fails, fileVars
  <2>2. Watched' = FALSE /\ Due' = FALSE
    BY <2>1 DEF Watched, Due
  <2>3. View' = NoDefinitions
    BY <2>1, NothingFollowed DEF View
  <2> QED
    BY <2>1, <2>2, <2>3 DEF Due, View, Promise!WatchNext, Promise!Stop
<1>6. \/ Apart \/ AddWatch \/ getServiceDefinitions
      \/ TruncateFile \/ WriteFile \/ Ends
  BY DEF ControllerNext, Step, Environment, Failure, Ends, Apart
<1> QED
  BY <1>1, <1>2, <1>3, <1>4, <1>5, <1>6

(* For any definitions and any targets: changing the bindings with the     *)
(* definitions, write events of a file half written, and a controller that *)
(* fails anywhere or is a new one, are steps of a watch that makes its     *)
(* view of the file anew each time.                                        *)
THEOREM ImplementsWatch == ControllerSpec => Implements
<1>1. ControllerInit => Promise!WatchInit
  BY NothingFollowed DEF ControllerInit, Watched, Promise!WatchInit
<1> QED
  BY ControllerTypesHold, WatchStep, <1>1, PTL
     DEF ControllerSpec, Implements, Promise!WatchSpec

-----------------------------------------------------------------------------
(* What passes leave attached.                                             *)

(* Bindings that are there, or are made, want what their definition does:  *)
(* the kind of a target that stays is that of the one required.            *)
LEMMA UpdatedTargets ==
    ASSUME NEW b \in Binding \cup {NoDef}, NEW d \in Definition,
           b # NoDef => \A t \in TargetNames(b) :
                           b.targets[t].selector = Kind[t],
           \A t \in TargetNames(d) : d.targets[t].selector = Kind[t]
    PROVE  LET new == updateServiceBindings(b, d)
           IN /\ new # NoDef
              /\ new.origin = d.origin
              /\ DOMAIN new.targets = DOMAIN d.targets
              /\ \A t \in DOMAIN d.targets : new.targets[t].selector = Kind[t]
<1>1. CASE b = NoDef
  <2>1. newServiceBindings(d) # NoDef
    BY NewFollowed, NoDefAssumption
  <2> QED
    BY <1>1, <2>1 DEF updateServiceBindings, newServiceBindings
<1>2. CASE b # NoDef
  <2> DEFINE new == Changed(b, d)
             ts == ChangedTargets(b, d)
  <2>1. new # NoDef
    BY <1>2, ChangedFollowed, NoDefAssumption
  <2>2. new.origin = d.origin /\ new.targets = ts
    <3> HIDE DEF ts
    <3> QED
      BY <1>2 DEF Changed, Binding, ts
  <2>3. DOMAIN ts = DOMAIN d.targets
    BY DEF ChangedTargets
  <2>4. ASSUME NEW t \in DOMAIN d.targets
        PROVE  ts[t].selector = Kind[t]
    <3>1. CASE t \in DOMAIN b.targets
      <4>1. b.targets[t] \in [port : Port \cup {0}, selector : Selector,
                              service : Service]
        BY <1>2, <3>1, TargetType DEF Binding
      <4>2. b.targets[t].selector = Kind[t]
        BY <1>2, <3>1
      <4>3. ts[t] = [b.targets[t] EXCEPT !.port = getTargetPort(d, t)]
        BY <3>1 DEF ChangedTargets
      <4> QED
        BY <4>1, <4>2, <4>3
    <3>2. CASE t \notin DOMAIN b.targets
      BY <3>2 DEF ChangedTargets, addTarget
    <3> QED
      BY <3>1, <3>2
  <2>5. updateServiceBindings(b, d) = new
    BY <1>2 DEF updateServiceBindings
  <2> HIDE DEF new, ts
  <2> QED
    BY <2>1, <2>2, <2>3, <2>4, <2>5
<1> QED
  BY <1>1, <1>2

LEMMA BoundTargets ==
    ASSUME NEW b \in Bindings, NEW defs \in Definitions,
           OfKind(b), OfKind(defs)
    PROVE  /\ OfKind(Bound(b, defs))
           /\ LocalTargets(Bound(b, defs)) = LocalTargets(defs)
<1> DEFINE new == Bound(b, defs)
<1>1. ASSUME NEW a \in Address, defs[a] = NoDef
      PROVE  new[a] = NoDef
  BY <1>1 DEF Bound
<1>2. ASSUME NEW a \in Address, defs[a] # NoDef
      PROVE  /\ new[a] # NoDef
             /\ new[a].origin = defs[a].origin
             /\ DOMAIN new[a].targets = DOMAIN defs[a].targets
             /\ \A t \in DOMAIN defs[a].targets :
                   new[a].targets[t].selector = Kind[t]
  <2>1. new[a] = updateServiceBindings(b[a], defs[a])
    BY <1>2 DEF Bound
  <2>2. b[a] \in Binding \cup {NoDef} /\ defs[a] \in Definition
    BY <1>2 DEF Bindings, Definitions
  <2>3. /\ b[a] # NoDef => \A t \in TargetNames(b[a]) :
                              b[a].targets[t].selector = Kind[t]
        /\ \A t \in TargetNames(defs[a]) :
              defs[a].targets[t].selector = Kind[t]
    BY <1>2 DEF OfKind
  <2> HIDE DEF new
  <2> QED
    BY <2>1, <2>2, <2>3, UpdatedTargets
<1>3. OfKind(new)
  <2> HIDE DEF new
  <2> QED
    BY <1>1, <1>2 DEF OfKind
<1>4. ASSUME NEW a \in Address, defs[a] # NoDef
      PROVE  {t \in TargetNames(new[a]) : new[a].targets[t].selector = Container}
               = {t \in TargetNames(defs[a]) :
                     defs[a].targets[t].selector = Container}
  <2>1. \A t \in DOMAIN defs[a].targets : defs[a].targets[t].selector = Kind[t]
    BY <1>4 DEF OfKind
  <2> HIDE DEF new
  <2> QED
    BY <1>2, <1>4, <2>1
<1>5. {c \in Address : new[c] # NoDef /\ new[c].origin = Local}
        = {c \in Address : defs[c] # NoDef /\ defs[c].origin = Local}
  <2> HIDE DEF new
  <2> QED
    BY <1>1, <1>2
<1> HIDE DEF new
<1>6. LocalTargets(new) = LocalTargets(defs)
  BY <1>4, <1>5 DEF LocalTargets
<1> QED
  BY <1>3, <1>6 DEF new

LEMMA NothingTargets ==
    LocalTargets(NoDefinitions) = {} /\ OfKind(NoDefinitions)
BY DEF LocalTargets, NoDefinitions, OfKind

KindInv ==
    /\ OfKind(svcDefs) /\ OfKind(bindings)
    /\ file # Torn => OfKind(file)

(* The bindings are those of the file, unless it was touched since.        *)
Fresh ==
    ~pending /\ file # Torn
    => /\ at = "bind" => svcDefs = file
       /\ at \in {"attach", "remove", "wait"}
            => LocalTargets(bindings) = LocalTargets(file)

(* All that the bindings want attached is, but while a pass is about to.   *)
Attached ==
    at # "attach"
    => LocalTargets(bindings) \cap up \subseteq networked \cup excused

AttachedInv == KindInv /\ Fresh /\ Attached

LEMMA AttachedStep ==
    ControllerTypeOK /\ AttachedInv /\ [ControllerNext]_vars => AttachedInv'
<1> SUFFICES ASSUME ControllerTypeOK, AttachedInv, [ControllerNext]_vars
             PROVE  AttachedInv'
  OBVIOUS
<1> USE DEF AttachedInv
<1>1. CASE Pulling \/ UNCHANGED vars
  BY <1>1
     DEF Pulling, vars, fileVars, passVars, hostVars, KindInv, Fresh, Attached
<1>2. CASE Pulled \/ AddWatch \/ AddWatchFails \/ WriteEvent
  BY <1>2 DEF Pulled, AddWatch, AddWatchFails, WriteEvent, fileVars, hostVars,
     KindInv, Fresh, Attached
<1>3. CASE getServiceDefinitions
  BY <1>3
  DEF getServiceDefinitions, fileVars, hostVars, KindInv, Fresh, Attached
<1>4. CASE Bind
  <2>1. LocalTargets(bindings') = LocalTargets(svcDefs) /\ OfKind(bindings')
    BY <1>4, BoundTargets DEF Bind, ControllerTypeOK, KindInv
  <2> QED
    BY <1>4, <2>1 DEF Bind, fileVars, KindInv, Fresh, Attached
<1>5. CASE EnsureProxies
  BY <1>5 DEF EnsureProxies, fileVars, KindInv, Fresh, Attached
<1>6. CASE RemoveProxies
  <2>1. PICK stopped : up' = up \ stopped /\ networked' = networked \ stopped
    BY <1>6 DEF RemoveProxies
  <2>2. /\ at = "remove" /\ at' = "wait"
        /\ UNCHANGED <<file, pending, svcDefs, bindings, excused>>
    BY <1>6 DEF RemoveProxies, fileVars
  <2> QED
    BY <1>6, <2>1, <2>2 DEF KindInv, Fresh, Attached
<1>7. CASE TruncateFile \/ WriteFile
  BY <1>7, WrittenAssumption
     DEF TruncateFile, WriteFile, Watched, passVars, hostVars, KindInv, Fresh,
         Attached
<1>8. ASSUME NEW c \in Containers, UserRuns(c)
      PROVE  AttachedInv'
  BY <1>8 DEF UserRuns, fileVars, passVars, KindInv, Fresh, Attached
<1>9. CASE Ends
  <2>1. /\ file' = file /\ at' \in {"dead", "pull"}
        /\ svcDefs' = NoDefinitions /\ bindings' = NoDefinitions
    BY <1>9 DEF Ends, Restart, Fails, fileVars
  <2> QED
    BY <2>1, NothingTargets DEF KindInv, Fresh, Attached
<1> QED
  BY <1>1, <1>2, <1>3, <1>4, <1>5, <1>6, <1>7, <1>8, <1>9
     DEF ControllerNext, Step, Environment, Failure, Ends

(* However often the file is written, at whatever step of a pass, whatever *)
(* the user does with his containers and however often the controller      *)
(* fails and is replaced, as long as a name tells a target's kind.         *)
THEOREM TargetsAttachedHolds == ControllerSpec => []TargetsAttached
<1>1. ControllerInit => AttachedInv
  BY NothingTargets, WrittenAssumption
     DEF ControllerInit, AttachedInv, KindInv, Fresh, Attached
<1>2. AttachedInv => TargetsAttached
  BY DEF AttachedInv, Fresh, Attached, TargetsAttached
<1> QED
  BY ControllerTypesHold, AttachedStep, <1>1, <1>2, PTL DEF ControllerSpec

(* What either engine lists is labelled or was made after the controller.  *)
LEMMA ListedIsNewer ==
    ASSUME ControllerTypeOK, NEW c \in Containers, c \in ContainerList
    PROVE  c \in labelled \/ ~(made[c] < made[Controller])
<1>1. CASE driver = "docker"
  BY <1>1 DEF ContainerList
<1>2. CASE driver # "docker"
  <2>1. made[Controller] =< made[c]
    BY <1>2 DEF ContainerList
  <2>2. made[c] \in Nat /\ made[Controller] \in Nat
    BY DEF ControllerTypeOK
  <2> QED
    BY <2>1, <2>2
<1> QED
  BY <1>1, <1>2

(* Whatever the bindings are, and however often the controller and the     *)
(* user's containers are made again: with podman too, a pass stops none    *)
(* that was made before the controller.                                    *)
THEOREM OlderContainersKeptHolds == ControllerSpec => OlderContainersKept
<1>1. ASSUME ControllerTypeOK, ControllerNext, NEW c \in Containers,
             c \in up \ labelled, made[c] < made[Controller]
      PROVE  c \in up'
  <2>1. CASE RemoveProxies
    <3>1. PICK stopped \in SUBSET ContainerList : up' = up \ stopped
      BY <2>1 DEF RemoveProxies
    <3>2. c \notin ContainerList
      BY <1>1, ListedIsNewer
    <3> QED
      BY <1>1, <3>1, <3>2
  <2>2. CASE ~RemoveProxies
    BY <1>1, <2>2 DEF ControllerNext, Step, Environment, Failure, Pulling,
       Pulled, AddWatch, AddWatchFails, Fails, WriteEvent,
       getServiceDefinitions, Bind, EnsureProxies, TruncateFile, WriteFile,
       Restart, UserRuns, hostVars
  <2> QED
    BY <2>1, <2>2
<1>2. ControllerTypeOK /\ [ControllerNext]_vars
        => [\A c \in Containers :
               c \in up \ labelled /\ made[c] < made[Controller]
               => c \in up']_vars
  BY <1>1
<1> QED
  BY ControllerTypesHold, <1>2, PTL DEF ControllerSpec, OlderContainersKept

=============================================================================
