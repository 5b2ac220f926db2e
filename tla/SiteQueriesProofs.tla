------------------------- MODULE SiteQueriesProofs -------------------------
(***************************************************************************)
(* Proofs about SiteQueries: a query, whatever the other command does to   *)
(* the site meanwhile.                                                     *)
(***************************************************************************)
EXTENDS SiteQueries, SiteDetailsProofs, TLAPS

-----------------------------------------------------------------------------
(* The call of the engine. *)

(* Blocks are written once, and are in the pipe or in the buffer.          *)
ExecInv ==
    /\ exec \in Exec(SUBSET Connection)
    /\ exec.pipe + exec.buffer = exec.written
    /\ exec.written + exec.left =< MaxOutput
    /\ exec.at \in {"none", "create", "attach"} => exec.written = 0
    /\ driver = "docker" \/ exec.at = "done" => exec.pipe = 0
    /\ exec.at = "return" => driver = "podman"
    /\ driver \in {"docker", "podman"}

LEMMA FirstExec == NoExec({}) \in Exec(SUBSET Connection)
BY QueryAssumption DEF NoExec, Exec

(* The steps of the call, one by one.                                      *)
LEMMA ExecInvStep ==
    ASSUME ExecInv, table \subseteq Connection, driver' = driver,
           \/ ExecStep(Up(Router), table) \/ ExecBegin \/ ExecCut
           \/ exec' = NoExec({}) \/ UNCHANGED exec,
           stdout \in {"terminal", "pipe"}
    PROVE  ExecInv'
<1> USE QueryAssumption DEF ExecInv
<1>0. exec.left \in Nat /\ exec.pipe \in Nat /\ exec.buffer \in Nat
      /\ exec.written \in Nat
  BY DEF Exec
<1>s. ASSUME NEW s \in {"attach", "inspect", "done", "failed"}, Stage(s),
             s = "attach" => exec.written = 0,
             s = "done" => exec.pipe = 0
      PROVE  ExecInv'
  <2>1. exec' \in Exec(SUBSET Connection)
    BY <1>s DEF Stage, Exec
  <2>2. /\ exec'.at = s /\ exec'.left = exec.left /\ exec'.pipe = exec.pipe
        /\ exec'.buffer = exec.buffer /\ exec'.written = exec.written
    BY <1>s DEF Stage, Exec
  <2> QED
    BY <1>s, <2>1, <2>2
<1>1. CASE ExecBegin
  <2>1. exec' = [exec EXCEPT !.at = "create", !.saved = stdout]
    BY <1>1 DEF ExecBegin
  <2>2. exec' \in Exec(SUBSET Connection)
    BY <2>1 DEF Exec
  <2>3. /\ exec'.at = "create" /\ exec'.left = exec.left
        /\ exec'.pipe = exec.pipe /\ exec'.buffer = exec.buffer
        /\ exec'.written = exec.written
    BY <2>1 DEF Exec
  <2> QED
    BY <1>1, <2>2, <2>3 DEF ExecBegin
<1>2. CASE ExecCreate(Up(Router)) \/ ExecStreamEnds \/ ExecReturn
  <2>1. CASE ExecCreate(Up(Router))
    BY <1>s, <2>1 DEF ExecCreate
  <2>2. CASE ExecStreamEnds
    BY <1>s, <2>2 DEF ExecStreamEnds
  <2>3. CASE ExecReturn
    <3>1. exec.pipe = 0
      BY <2>3 DEF ExecReturn
    <3>2. Stage("done") \/ Stage("failed")
      BY <2>3 DEF ExecReturn
    <3> QED
      BY <1>s, <3>1, <3>2
  <2> QED
    BY <1>2, <2>1, <2>2, <2>3
<1>3. CASE ExecAttach(table)
  <2>1. ASSUME NEW n \in 1..MaxOutput,
               exec' = [exec EXCEPT !.at = "copy", !.answer = table, !.left = n]
        PROVE  ExecInv'
    <3>1. exec' \in Exec(SUBSET Connection)
      <4>1. n \in 0..MaxOutput /\ table \in SUBSET Connection
        OBVIOUS
      <4> HIDE QueryAssumption
      <4> QED
        BY <2>1, <4>1 DEF Exec
    <3>2. /\ exec'.at = "copy" /\ exec'.left = n /\ exec'.pipe = exec.pipe
          /\ exec'.buffer = exec.buffer /\ exec'.written = exec.written
      BY <2>1 DEF Exec
    <3>3. exec.written = 0
      BY <1>3 DEF ExecAttach
    <3> QED
      BY <1>0, <3>1, <3>2, <3>3
  <2>2. CASE Stage("failed")
    BY <1>s, <2>2
  <2> QED
    BY <1>3, <2>1, <2>2 DEF ExecAttach
<1>4. CASE ExecOutput
  <2>1. exec.left - 1 \in 0..MaxOutput /\ exec.written + 1 \in 0..MaxOutput
    BY <1>0, <1>4 DEF ExecOutput
  <2>2. CASE driver = "docker"
    <3>1. exec.buffer + 1 \in 0..MaxOutput
      BY <1>0, <2>1, <2>2
    <3>2. exec' = [exec EXCEPT !.left = exec.left - 1,
                               !.written = exec.written + 1,
                               !.buffer = exec.buffer + 1]
      BY <1>4, <2>2 DEF ExecOutput
    <3>3. exec' \in Exec(SUBSET Connection)
      BY <2>1, <3>1, <3>2 DEF Exec
    <3>4. /\ exec'.at = exec.at /\ exec'.left = exec.left - 1
          /\ exec'.pipe = exec.pipe /\ exec'.buffer = exec.buffer + 1
          /\ exec'.written = exec.written + 1
      BY <3>2 DEF Exec
    <3> QED
      BY <1>0, <1>4, <3>3, <3>4 DEF ExecOutput
  <2>3. CASE driver # "docker"
    <3>1. exec.pipe + 1 \in 0..PipeCapacity
      <4>1. exec.pipe < PipeCapacity
        BY <1>4, <2>3 DEF ExecOutput
      <4> QED
        BY <1>0, <4>1
    <3>2. exec' = [exec EXCEPT !.left = exec.left - 1,
                               !.written = exec.written + 1,
                               !.pipe = exec.pipe + 1]
      BY <1>4, <2>3 DEF ExecOutput
    <3>3. exec' \in Exec(SUBSET Connection)
      BY <2>1, <3>1, <3>2 DEF Exec
    <3>4. /\ exec'.at = exec.at /\ exec'.left = exec.left - 1
          /\ exec'.pipe = exec.pipe + 1 /\ exec'.buffer = exec.buffer
          /\ exec'.written = exec.written + 1
      BY <3>2 DEF Exec
    <3> QED
      BY <1>0, <1>4, <2>3, <3>3, <3>4 DEF ExecOutput
  <2> QED
    BY <2>2, <2>3
<1>5. CASE ExecInspect
  <2>1. PICK ok \in BOOLEAN :
               exec' = [exec EXCEPT !.ok = ok,
                           !.at = IF driver = "podman" THEN "return"
                                  ELSE IF ok THEN "done" ELSE "failed"]
    BY <1>5 DEF ExecInspect
  <2>2. exec' \in Exec(SUBSET Connection)
    BY <2>1 DEF Exec
  <2>3. /\ exec'.at = IF driver = "podman" THEN "return"
                      ELSE IF ok THEN "done" ELSE "failed"
        /\ exec'.left = exec.left /\ exec'.pipe = exec.pipe
        /\ exec'.buffer = exec.buffer /\ exec'.written = exec.written
    BY <2>1 DEF Exec
  <2> QED
    BY <2>2, <2>3
<1>6. CASE ExecCopy
  <2>1. exec.pipe - 1 \in 0..PipeCapacity /\ exec.buffer + 1 \in 0..MaxOutput
    <3>1. exec.pipe \in 0..PipeCapacity /\ exec.pipe > 0
      BY <1>6 DEF ExecCopy, Exec
    <3> QED
      BY <1>0, <3>1
  <2>2. exec' = [exec EXCEPT !.pipe = exec.pipe - 1, !.buffer = exec.buffer + 1]
    BY <1>6 DEF ExecCopy
  <2>3. exec' \in Exec(SUBSET Connection)
    BY <2>1, <2>2 DEF Exec
  <2>4. /\ exec'.at = exec.at /\ exec'.left = exec.left
        /\ exec'.pipe = exec.pipe - 1 /\ exec'.buffer = exec.buffer + 1
        /\ exec'.written = exec.written
    BY <2>2 DEF Exec
  <2> QED
    BY <1>0, <1>6, <2>3, <2>4 DEF ExecCopy
<1>7. CASE ExecCut
  <2>1. exec' \in Exec(SUBSET Connection)
    BY <1>7 DEF ExecCut, Exec
  <2>2. /\ exec'.at \in {exec.at, "failed", "inspect"}
        /\ exec'.left = exec.left /\ exec'.pipe = exec.pipe
        /\ exec'.buffer = exec.buffer /\ exec'.written = exec.written
    BY <1>7 DEF ExecCut, Exec
  <2> QED
    BY <2>1, <2>2
<1>8. CASE exec' = NoExec({})
  BY <1>8, FirstExec DEF NoExec
<1>9. CASE UNCHANGED exec
  BY <1>9
<1> QED
  BY <1>1, <1>2, <1>3, <1>4, <1>5, <1>6, <1>7, <1>8, <1>9 DEF ExecStep

-----------------------------------------------------------------------------
(* The query. *)

QueryAt == {"none", "router", "controller", "config", "sites", "services",
            "list", "round", "look", "ask", "report", "crashed"}

(* The connector that is asked about has a name.                           *)
Aimed(query) == query.at \in {"look", "ask"} => query.name \in Name

QueryInv ==
    /\ ExecInv
    /\ q \in Query
    /\ stdout \in {"terminal", "pipe"}
    /\ table \subseteq Connection
    /\ live \subseteq Issuer
    /\ q.op = "none" => q = NoQuery /\ stdout = "terminal"
    /\ ~Asking => exec.at = "none"
    /\ Aimed(q)

(* Where what is printed goes, now or once the call has returned.          *)
ShownInv ==
    /\ driver = "docker" => stdout = "terminal"
    /\ exec.at \in {"none", "done"} => stdout = "terminal" \/ q.broke
    /\ exec.at \in {"create", "attach", "copy", "inspect", "return"} =>
          exec.saved = "terminal" \/ q.broke

(* What is known to be active was active since the query began.            *)
ActiveInv ==
    /\ ReportedActive
    /\ q.op # "none" => ActiveHosts(table) \subseteq live
    /\ ActiveHosts(exec.answer) \subseteq live
    /\ exec.at = "none" => exec.answer = {}

Inv == QueryInv /\ ShownInv /\ ActiveInv

LEMMA DriverKept == [QueriesNext]_allVars => driver' = driver
<1>1. CommandStep => driver' = driver
  BY DEF CommandStep, WriteInitialConfig, ConfigureConnector, DropConnector,
     MakeContainer, LookAtContainer, MakeContainerAgain, OtherStep, Keep,
     UpdateRouterConfig, Make
<1>2. RouterStep \/ Ask \/ QueryStep \/ UNCHANGED allVars => driver' = driver
  BY DEF RouterStep, Open, Opened, Closed, SetConnections, Ask, Status, List,
     CheckAll, CheckOne, BeginQuery, QueryStep, InspectRouter,
     InspectController, ReadMode, CountServices, ConnectorList,
     ConnectorInspect, NextConnector, NextRound, Look, AskRouter, RunQdmanage,
     NoAnswer, SitesAnswer, ConnectionsAnswer, Return, Exit, allVars, dataVars
<1> QED
  BY <1>1, <1>2 DEF QueriesNext, SiteStep

LEMMA NoQueryType ==
    /\ NoQuery \in Query
    /\ NoQuery.op = "none" /\ NoQuery.at = "none" /\ NoQuery.broke = FALSE
    /\ \A n \in Name : NoQuery.active[n] = NoConnector
<1>1. 0 \in 0..(MaxAttempts + WaitFor)
  BY QueryAssumption
<1> QED
  BY <1>1 DEF NoQuery, Query

LEMMA NoQueryAimed == Aimed(NoQuery)
BY DEF NoQuery, Aimed

LEMMA NothingActive == ActiveHosts({}) = {}
BY DEF ActiveHosts

LEMMA ActiveType ==
    ASSUME NEW t, t \subseteq Connection
    PROVE  ActiveHosts(t) \subseteq Issuer
BY DEF ActiveHosts, Connection

(* A step that asks neither the router nor the engine's exec.              *)
LEMMA ReadStep ==
    ASSUME Inv, q.op # "none", exec.at = "none",
           q' \in Query, q'.op = q.op, q'.broke = q.broke, q'.active = q.active,
           Aimed(q)', UNCHANGED <<exec, stdout, table, live, driver>>
    PROVE  Inv'
<1>1. ExecInv'
  BY ExecInvStep DEF Inv, QueryInv
<1> QED
  BY <1>1 DEF Inv, QueryInv, ShownInv, ActiveInv, ReportedActive

(* A step of the call that gets the answer.                                *)
LEMMA CallStep ==
    ASSUME Inv, Asking, driver' = driver,
           \/ RunQdmanage
           \/ AskRouter
    PROVE  Inv'
<1> USE DEF Inv
<1>1. UNCHANGED <<table, q, live>>
  BY DEF RunQdmanage, AskRouter
<1>2. ExecInv'
  BY ExecInvStep DEF QueryInv, RunQdmanage, AskRouter
<1>3. q.op # "none"
  BY NoQueryType DEF QueryInv, Asking
<1>4. exec \in Exec(SUBSET Connection)
  BY DEF QueryInv, ExecInv
<1>5. CASE AskRouter
  <2>1. /\ exec.at = "none" /\ exec'.at = "create" /\ exec'.saved = stdout
        /\ exec'.answer = exec.answer
        /\ stdout' = IF driver = "podman" THEN "pipe" ELSE stdout
    BY <1>4, <1>5 DEF AskRouter, ExecBegin, Exec
  <2> QED
    BY <1>1, <1>2, <1>3, <2>1 DEF QueryInv, ShownInv, ActiveInv, ReportedActive,
       Asking
<1>6. CASE RunQdmanage
  <2>1. /\ exec.at # "none" /\ exec'.at # "none"
        /\ exec'.answer \in {exec.answer, table}
        /\ exec'.saved = exec.saved
    BY <1>4, <1>6 DEF RunQdmanage, ExecStep, ExecCreate, ExecAttach, ExecOutput,
       ExecStreamEnds, ExecInspect, ExecCopy, ExecReturn, Stage, Exec
  <2>2. \/ stdout' = stdout /\ (exec'.at = "done" => driver = "docker")
           /\ (exec'.at \in {"create", "attach", "copy", "inspect", "return"} =>
                 exec.at \in {"create", "attach", "copy", "inspect", "return"})
        \/ stdout' = exec.saved /\ exec.at = "return"
           /\ exec'.at \in {"done", "failed"}
    <3>1. CASE ExecInspect
      BY <1>2, <1>4, <3>1 DEF ExecInspect, Exec, QueryInv, ExecInv
    <3>2. CASE ExecReturn
      BY <1>4, <3>2 DEF ExecReturn, Stage, Exec
    <3>3. CASE ~ExecInspect /\ ~ExecReturn
      BY <1>4, <1>6, <3>3 DEF RunQdmanage, ExecStep, ExecCreate, ExecAttach,
         ExecOutput, ExecStreamEnds, ExecCopy, Stage, Exec
    <3> QED
      BY <3>1, <3>2, <3>3
  <2>3. ShownInv'
    BY <1>1, <2>1, <2>2 DEF ShownInv, QueryInv, ExecInv
  <2>4. ActiveInv'
    BY <1>1, <1>3, <2>1 DEF ActiveInv, ReportedActive
  <2>5. stdout' \in {"terminal", "pipe"}
    BY <1>4, <2>2 DEF QueryInv, Exec
  <2> QED
    BY <1>1, <1>2, <1>3, <2>3, <2>4, <2>5 DEF QueryInv, Asking
<1> QED
  BY <1>5, <1>6

(* The call is over, and the query goes on with or without an answer.      *)
LEMMA ReturnStep ==
    ASSUME Inv, Asking, NEW next, Return(next), driver' = driver,
           next \in Query, next.op = q.op, Aimed(next),
           \/ exec.at = "failed" /\ next.broke = TRUE
           \/ exec.at \in {"none", "done"} /\ next.broke = q.broke,
           \A n \in Name : next.active[n] \in live \cup {NoConnector}
    PROVE  Inv'
<1> USE DEF Inv
<1>1. /\ q' = next /\ exec' = NoExec({})
      /\ UNCHANGED <<stdout, table, live>>
  BY DEF Return
<1>2. ExecInv'
  BY <1>1, ExecInvStep DEF QueryInv
<1>3. exec'.at = "none" /\ exec'.answer = {}
  BY <1>1 DEF NoExec
<1>4. q.op # "none"
  BY NoQueryType DEF QueryInv, Asking
<1>5. QueryInv'
  BY <1>1, <1>2, <1>3, <1>4 DEF QueryInv
<1>6. ShownInv'
  BY <1>1, <1>3 DEF ShownInv
<1>7. ActiveInv'
  BY <1>1, <1>3, <1>4, NothingActive DEF ActiveInv, ReportedActive
<1> QED
  BY <1>5, <1>6, <1>7

LEMMA BeginStep ==
    ASSUME Inv, NEW query \in Query, BeginQuery(query), driver' = driver,
           query.op # "none", query.at # "none", query.active = NoQuery.active,
           query.broke = FALSE, query.at \notin {"sites", "ask"}, Aimed(query)
    PROVE  Inv'
<1> USE DEF Inv
<1>1. /\ q.op = "none" /\ q' = query /\ live' = ActiveHosts(table)
      /\ UNCHANGED <<exec, stdout, table>>
  BY DEF BeginQuery
<1>2. ExecInv'
  BY <1>1, ExecInvStep DEF QueryInv
<1>3. q = NoQuery /\ stdout = "terminal"
  BY <1>1 DEF QueryInv
<1>4. exec.at = "none"
  BY <1>3, NoQueryType DEF QueryInv, Asking
<1>5. live' \subseteq Issuer
  BY <1>1, ActiveType DEF QueryInv
<1>6. QueryInv'
  BY <1>1, <1>2, <1>4, <1>5 DEF QueryInv
<1>7. ShownInv'
  BY <1>1, <1>3, <1>4 DEF ShownInv
<1>8. ActiveInv'
  BY <1>1, <1>4, NoQueryType, NothingActive DEF ActiveInv, ReportedActive
<1> QED
  BY <1>6, <1>7, <1>8

LEMMA ExitStep ==
    ASSUME Inv, Exit, driver' = driver
    PROVE  Inv'
<1> USE DEF Inv
<1>1. /\ q' = NoQuery /\ stdout' = "terminal" /\ live' = {}
      /\ UNCHANGED <<exec, table>>
  BY DEF Exit
<1>2. exec.at = "none"
  BY DEF Exit, QueryInv, Asking
<1>3. ExecInv'
  BY <1>1, ExecInvStep DEF QueryInv
<1>4. QueryInv'
  BY <1>1, <1>2, <1>3, NoQueryType, NoQueryAimed DEF QueryInv
<1>5. ShownInv'
  BY <1>1, <1>2 DEF ShownInv
<1>6. ActiveInv'
  BY <1>1, <1>2, NoQueryType, NothingActive DEF ActiveInv, ReportedActive
<1> QED
  BY <1>4, <1>5, <1>6

(* The other command and the router.                                       *)
LEMMA SiteInvStep ==
    ASSUME Inv, SiteStep, driver' = driver
    PROVE  Inv'
<1> USE DEF Inv
<1>1. /\ UNCHANGED <<stdout, q, live>>
      /\ \/ table' = {} /\ ExecCut
         \/ UNCHANGED <<table, exec>>
  BY DEF SiteStep
<1>2. ExecInv'
  BY <1>1, ExecInvStep DEF QueryInv
<1>3. /\ exec'.answer = exec.answer /\ exec'.saved = exec.saved
      /\ exec'.at = "none" <=> exec.at = "none"
      /\ exec'.at = "done" <=> exec.at = "done"
      /\ exec'.at \in {"create", "attach", "copy", "inspect", "return"} =>
            exec.at \in {"create", "attach", "copy", "inspect", "return"}
  BY <1>1 DEF ExecCut, QueryInv, ExecInv, Exec
<1>4. table' \subseteq table
  BY <1>1
<1>5. ActiveHosts(table') \subseteq ActiveHosts(table)
  BY <1>4 DEF ActiveHosts
<1>6. QueryInv'
  BY <1>1, <1>2, <1>3, <1>4 DEF QueryInv, Asking
<1>7. ShownInv'
  BY <1>1, <1>3 DEF ShownInv
<1>8. ActiveInv'
  BY <1>1, <1>3, <1>5 DEF ActiveInv, ReportedActive
<1> QED
  BY <1>6, <1>7, <1>8

LEMMA RouterInvStep ==
    ASSUME Inv, RouterStep, driver' = driver
    PROVE  Inv'
<1> USE DEF Inv
<1>1. PICK next \in SUBSET Connection : SetConnections(next)
  <2>1. CASE \E h \in Issuer : Open(h)
    <3>1. PICK h \in Issuer : Open(h)
      BY <2>1
    <3>2. [host |-> h, active |-> FALSE] \in Connection
      BY DEF Connection
    <3> QED
      BY <3>1, <3>2 DEF Open, QueryInv
  <2>2. CASE \E c \in table : Opened(c)
    <3>1. PICK c \in table : Opened(c)
      BY <2>2
    <3>2. [c EXCEPT !.active = TRUE] \in Connection
      BY DEF QueryInv, Connection
    <3> QED
      BY <3>1, <3>2 DEF Opened, QueryInv
  <2>3. CASE \E c \in table : Closed(c)
    BY <2>3 DEF Closed, QueryInv
  <2> QED
    BY <2>1, <2>2, <2>3 DEF RouterStep
<1>2. /\ table' = next /\ live' = live \cup ActiveHosts(next)
      /\ UNCHANGED <<exec, stdout, q>>
  BY <1>1 DEF SetConnections
<1>3. ExecInv'
  BY <1>2, ExecInvStep DEF QueryInv
<1>4. live' \subseteq Issuer
  BY <1>2, ActiveType DEF QueryInv
<1>5. QueryInv'
  BY <1>2, <1>3, <1>4 DEF QueryInv, Asking
<1>6. ShownInv'
  BY <1>2 DEF ShownInv
<1>7. ActiveInv'
  BY <1>2 DEF ActiveInv, ReportedActive
<1> QED
  BY <1>5, <1>6, <1>7

-----------------------------------------------------------------------------
(* The steps of a query that read files or ask about a container, and the  *)
(* ways its round goes on.                                                 *)
LEMMA Stages ==
    ASSUME q \in Query, NEW s \in QueryAt
    PROVE  /\ To(s) \in Query
           /\ To(s).op = q.op /\ To(s).at = s /\ To(s).broke = q.broke
           /\ To(s).active = q.active
           /\ Failed \in Query
           /\ Failed.op = q.op /\ Failed.broke = q.broke
           /\ Failed.active = q.active
           /\ Aimed(Failed)
           /\ To(s).name = q.name
           /\ s \notin {"look", "ask"} => Aimed(To(s))
<1>1. /\ To(s) \in Query
      /\ To(s).op = q.op /\ To(s).at = s /\ To(s).broke = q.broke
      /\ To(s).active = q.active /\ To(s).name = q.name
  BY DEF To, Query, QueryAt
<1>2. /\ Failed \in Query
      /\ Failed.op = q.op /\ Failed.broke = q.broke
      /\ Failed.active = q.active /\ Failed.at = "report"
  BY DEF To, Failed, Query
<1> QED
  BY <1>1, <1>2 DEF Aimed

LEMMA LookStep ==
    ASSUME Inv, driver' = driver,
           \/ InspectRouter \/ InspectController \/ ReadMode \/ CountServices
           \/ ConnectorList \/ ConnectorInspect \/ NextConnector \/ NextRound
    PROVE  Inv'
<1> DEFINE Same == q' \in Query /\ q'.op = q.op /\ q'.broke = q.broke
                   /\ q'.active = q.active /\ Aimed(q)'
<1>0. q \in Query
  BY DEF Inv, QueryInv
<1>1. UNCHANGED <<exec, stdout, table, live>> /\ q.at \notin {"none", "sites", "ask"}
  BY DEF InspectRouter, InspectController, ReadMode, CountServices,
     ConnectorList, ConnectorInspect, NextConnector, NextRound, Look
<1>2. exec.at = "none" /\ q.op # "none"
  BY <1>1, NoQueryType DEF Inv, QueryInv, Asking
<1>3. CASE InspectRouter \/ InspectController \/ ReadMode \/ CountServices
  <2>1. q' \in {To("crashed"), To("controller"), To("config"), To("sites"),
                To("report"), Failed}
    BY <1>3 DEF InspectRouter, InspectController, ReadMode, CountServices, Look
  <2> QED
    <3>1. Same
      BY <1>0, <2>1, Stages DEF QueryAt
    <3> QED
      BY <1>1, <1>2, <3>1, ReadStep
<1>4. CASE ConnectorList
  <2> DEFINE listed == {n \in Name : dirs[n] # NoFile}
             Listing(query) == [query EXCEPT !.listed = listed]
  <2>1. q' \in {Listing(To("report")), Listing(To("round")), Failed, To("round")}
    BY <1>4 DEF ConnectorList, Look
  <2>2. Same
    <3>1. To("report") \in Query /\ To("round") \in Query
      BY <1>0, Stages DEF QueryAt
    <3>2. ASSUME NEW query \in Query
          PROVE  /\ Listing(query) \in Query /\ Listing(query).op = query.op
                 /\ Listing(query).broke = query.broke
                 /\ Listing(query).active = query.active
                 /\ Aimed(query) => Aimed(Listing(query))
      BY DEF Query, Aimed
    <3> HIDE DEF Listing
    <3> QED
      BY <1>0, <2>1, <3>1, <3>2, Stages DEF QueryAt
  <2> QED
    BY <1>1, <1>2, <2>2, ReadStep
<1>5. CASE ConnectorInspect
  <2> DEFINE Leading(query, h) == [query EXCEPT !.host = h]
  <2>1. \/ q' = To("round")
        \/ dirs[q.name] \in Issuer /\ q' = Leading(To("ask"), dirs[q.name])
    BY <1>5 DEF ConnectorInspect, Look
  <2>2. Same
    <3>1. ASSUME NEW query \in Query, NEW h \in Issuer
          PROVE  /\ Leading(query, h) \in Query
                 /\ Leading(query, h).op = query.op
                 /\ Leading(query, h).broke = query.broke
                 /\ Leading(query, h).active = query.active
                 /\ Aimed(query) => Aimed(Leading(query, h))
      BY DEF Query, Aimed
    <3>2. Aimed(To("ask"))
      <4>1. q.name \in Name
        BY <1>5 DEF Inv, QueryInv, Aimed, ConnectorInspect, Look
      <4> QED
        BY <1>0, <4>1, Stages DEF QueryAt, Aimed
    <3> HIDE DEF Leading
    <3> QED
      BY <1>0, <2>1, <3>1, <3>2, Stages DEF QueryAt
  <2> QED
    BY <1>1, <1>2, <2>2, ReadStep
<1>6. CASE NextConnector
  <2>1. PICK n \in q.todo :
           q' = [To("look") EXCEPT !.name = n, !.todo = q.todo \ {n}]
    BY <1>6 DEF NextConnector, To
  <2>2. n \in Name /\ q.todo \ {n} \in SUBSET Name
    BY <1>0 DEF Query
  <2>3. To("look") \in Query
    BY <1>0, Stages DEF QueryAt
  <2>4. Same
    <3>1. /\ q' \in Query /\ q'.op = To("look").op
          /\ q'.broke = To("look").broke /\ q'.active = To("look").active
          /\ q'.name = n
      BY <2>1, <2>2, <2>3 DEF Query
    <3> QED
      BY <1>0, <2>2, <3>1, Stages DEF QueryAt, Aimed
  <2> QED
    BY <1>1, <1>2, <2>4, ReadStep
<1>7. CASE NextRound
  <2>1. \/ q' = To("report")
        \/ q.tries < WaitFor
           /\ q' = [q EXCEPT !.todo = q.listed, !.tries = q.tries + 1]
    BY <1>7 DEF NextRound, Look
  <2>2. q.tries < WaitFor => q.tries + 1 \in 0..(MaxAttempts + WaitFor)
    BY <1>0, QueryAssumption DEF Query
  <2>3. CASE q' = To("report")
    <3>1. Same
      BY <1>0, <2>3, Stages DEF QueryAt
    <3> QED
      BY <1>1, <1>2, <3>1, ReadStep
  <2>4. CASE q' # To("report")
    <3>1. q' = [q EXCEPT !.todo = q.listed, !.tries = q.tries + 1]
          /\ q.tries + 1 \in 0..(MaxAttempts + WaitFor)
      BY <2>1, <2>2, <2>4
    <3>2. q'.at = "round"
      BY <1>0, <1>7, <3>1 DEF NextRound, Look, Query
    <3>3. Same
      BY <1>0, <3>1, <3>2 DEF Query, Aimed
    <3> QED
      BY <1>1, <1>2, <3>3, ReadStep
  <2> QED
    BY <2>3, <2>4
<1> QED
  BY <1>3, <1>4, <1>5, <1>6, <1>7

(* The steps that take the answer, or the lack of one.                     *)
LEMMA UnansweredType ==
    ASSUME q \in Query
    PROVE  /\ Unanswered \in Query
           /\ Unanswered.op = q.op /\ Unanswered.broke = q.broke
           /\ Unanswered.active = q.active
           /\ Aimed(q) => Aimed(Unanswered)
<1>1. CASE q.at = "ask"
  BY <1>1, Stages DEF Unanswered, QueryAt
<1>2. CASE q.at # "ask" /\ q.tries + 1 < MaxAttempts
  <2>1. q.tries + 1 \in 0..(MaxAttempts + WaitFor)
    BY <1>2, QueryAssumption DEF Query
  <2>2. Unanswered = [q EXCEPT !.tries = q.tries + 1]
    BY <1>2 DEF Unanswered
  <2> QED
    BY <2>1, <2>2 DEF Query, Aimed
<1>3. CASE q.at # "ask" /\ ~(q.tries + 1 < MaxAttempts)
  BY <1>3, Stages DEF Unanswered, QueryAt
<1> QED
  BY <1>1, <1>2, <1>3

LEMMA NoAnswerStep ==
    ASSUME Inv, NoAnswer, driver' = driver
    PROVE  Inv'
<1>0. q \in Query /\ Asking /\ Aimed(q)
  BY DEF Inv, QueryInv, NoAnswer
<1>1. \A n \in Name : q.active[n] \in live \cup {NoConnector}
  BY DEF Inv, ActiveInv, ReportedActive
<1>2. CASE exec.at = "none" /\ Return(Unanswered)
  BY <1>0, <1>1, <1>2, UnansweredType, ReturnStep
<1>3. CASE ExecEnded
           /\ Return([Unanswered EXCEPT !.broke = @ \/ exec.at = "failed"])
  <2> DEFINE next == [Unanswered EXCEPT !.broke = @ \/ exec.at = "failed"]
  <2>1. Unanswered.broke \in BOOLEAN
    BY <1>0, UnansweredType DEF Query
  <2>2. /\ next \in Query /\ next.op = Unanswered.op
        /\ next.active = Unanswered.active /\ Aimed(next)
        /\ exec.at = "failed" => next.broke = TRUE
        /\ exec.at = "done" => next.broke = Unanswered.broke
    <3>1. CASE exec.at = "failed"
      <4>1. next = [Unanswered EXCEPT !.broke = TRUE]
        BY <3>1
      <4> QED
        BY <1>0, <3>1, <4>1, UnansweredType DEF Query, Aimed
    <3>2. CASE exec.at # "failed"
      <4>1. next = [Unanswered EXCEPT !.broke = Unanswered.broke]
        BY <2>1, <3>2
      <4> QED
        BY <1>0, <3>2, <4>1, UnansweredType DEF Query, Aimed
    <3> QED
      BY <3>1, <3>2
  <2>3. exec.at \in {"done", "failed"} /\ Return(next)
    BY <1>3 DEF ExecEnded
  <2> HIDE DEF next
  <2> QED
    BY <1>0, <1>1, <2>2, <2>3, UnansweredType, ReturnStep
<1> QED
  BY <1>2, <1>3 DEF NoAnswer

LEMMA SitesAnswerStep ==
    ASSUME Inv, SitesAnswer, driver' = driver
    PROVE  Inv'
<1>1. Asking /\ exec.at = "done" /\ Return(To("services"))
  BY DEF SitesAnswer, Asking, Decodable
<1>2. q \in Query /\ \A n \in Name : q.active[n] \in live \cup {NoConnector}
  BY DEF Inv, QueryInv, ActiveInv, ReportedActive
<1> QED
  BY <1>1, <1>2, Stages, ReturnStep DEF QueryAt

(* The host that was asked for is that of an active connection.            *)
LEMMA ConnectionsAnswerStep ==
    ASSUME Inv, ConnectionsAnswer, driver' = driver
    PROVE  Inv'
<1> DEFINE seen == [To("round") EXCEPT !.listed = @ \cup {q.name}]
           found == [seen EXCEPT !.active[q.name] = q.host]
<1>0. q \in Query /\ Asking /\ exec.at = "done"
  BY DEF Inv, QueryInv, ConnectionsAnswer, Asking, Decodable
<1>1. \A n \in Name : q.active[n] \in live \cup {NoConnector}
  BY DEF Inv, ActiveInv, ReportedActive
<1>2. To("round") \in Query /\ To("round").op = q.op
      /\ To("round").broke = q.broke /\ To("round").active = q.active
  BY <1>0, Stages DEF QueryAt
<1>3. PICK next \in {seen, found} :
         /\ Return(next)
         /\ next = found => \/ next = seen
                            \/ \E c \in exec.answer :
                                  c.host = q.host /\ ConnectionActive(c)
  BY DEF ConnectionsAnswer
<1>4. q.name \in Name
  BY <1>0 DEF Inv, QueryInv, Aimed, ConnectionsAnswer
<1>5. seen \in Query /\ seen.op = q.op /\ seen.broke = q.broke
      /\ seen.active = q.active /\ seen.at = "round"
  BY <1>0, <1>2, <1>4, Stages DEF Query, QueryAt
<1>6. CASE next = seen
  BY <1>0, <1>1, <1>3, <1>5, <1>6, ReturnStep DEF Aimed
<1>7. CASE next = found /\ next # seen
  <2>1. q.host \in ActiveHosts(exec.answer)
    BY <1>3, <1>7 DEF ActiveHosts, ConnectionActive
  <2>2. q.host \in live /\ q.host \in Issuer
    BY <2>1 DEF Inv, ActiveInv, QueryInv
  <2> HIDE DEF seen
  <2>3. /\ found \in Query /\ found.op = seen.op /\ found.broke = seen.broke
        /\ found.at = seen.at
        /\ found.active = [seen.active EXCEPT ![q.name] = q.host]
    BY <1>4, <1>5, <2>2 DEF Query
  <2>4. \A n \in Name : found.active[n] \in live \cup {NoConnector}
    BY <1>1, <1>5, <2>2, <2>3, <1>0 DEF Query
  <2> HIDE DEF found
  <2> QED
    BY <1>0, <1>3, <1>5, <1>7, <2>3, <2>4, ReturnStep DEF Aimed
<1> QED
  BY <1>3, <1>6, <1>7

-----------------------------------------------------------------------------
(* All steps. *)

LEMMA AskStep ==
    ASSUME Inv, Ask, driver' = driver
    PROVE  Inv'
<1>1. CASE Status
  <2> DEFINE query == [NoQuery EXCEPT !.op = "status", !.at = "router"]
  <2>1. /\ query \in Query /\ query.op = "status" /\ query.at = "router"
        /\ query.active = NoQuery.active /\ query.broke = FALSE
    BY NoQueryType DEF Query
  <2> HIDE DEF query
  <2> QED
    BY <1>1, <2>1, BeginStep DEF Status, Aimed, query
<1>2. CASE List
  <2> DEFINE query == [NoQuery EXCEPT !.op = "list", !.at = "list"]
  <2>1. /\ query \in Query /\ query.op = "list" /\ query.at = "list"
        /\ query.active = NoQuery.active /\ query.broke = FALSE
    BY NoQueryType DEF Query
  <2> HIDE DEF query
  <2> QED
    BY <1>2, <2>1, BeginStep DEF List, Aimed, query
<1>3. CASE CheckAll
  <2> DEFINE query == [NoQuery EXCEPT !.op = "check", !.at = "list"]
  <2>1. /\ query \in Query /\ query.op = "check" /\ query.at = "list"
        /\ query.active = NoQuery.active /\ query.broke = FALSE
    BY NoQueryType DEF Query
  <2> HIDE DEF query
  <2> QED
    BY <1>3, <2>1, BeginStep DEF CheckAll, Aimed, query
<1>4. ASSUME NEW n \in Name, CheckOne(n)
      PROVE  Inv'
  <2> DEFINE query == [NoQuery EXCEPT !.op = "check", !.at = "look", !.name = n]
  <2>1. /\ query \in Query /\ query.op = "check" /\ query.at = "look"
        /\ query.active = NoQuery.active /\ query.broke = FALSE
        /\ query.name = n
    BY NoQueryType DEF Query
  <2> HIDE DEF query
  <2> QED
    BY <1>4, <2>1, BeginStep DEF CheckOne, Aimed, query
<1> QED
  BY <1>1, <1>2, <1>3, <1>4 DEF Ask

LEMMA UnchangedStep ==
    ASSUME Inv, UNCHANGED allVars
    PROVE  Inv'
<1>1. UNCHANGED <<exec, stdout, table, q, live, driver>>
  BY DEF allVars, queryVars, dataVars
<1>2. ExecInv'
  BY <1>1, ExecInvStep DEF Inv, QueryInv
<1> QED
  BY <1>1, <1>2 DEF Inv, QueryInv, ShownInv, ActiveInv, ReportedActive, Asking,
     Aimed

LEMMA InvInit == QueriesInit => Inv
<1> SUFFICES ASSUME QueriesInit
             PROVE  Inv
  OBVIOUS
<1>1. driver \in {"docker", "podman"}
  BY SetupsAssumption DEF QueriesInit, DataInit
<1>2. exec = NoExec({}) /\ q = NoQuery /\ stdout = "terminal" /\ table = {}
      /\ live = {}
  BY DEF QueriesInit
<1>3. ExecInv
  BY <1>1, <1>2, FirstExec, QueryAssumption DEF ExecInv, NoExec
<1>4. exec.at = "none" /\ exec.answer = {}
  BY <1>2 DEF NoExec
<1> QED
  BY <1>2, <1>3, <1>4, NoQueryType, NoQueryAimed, NothingActive
     DEF Inv, QueryInv, ShownInv, ActiveInv, ReportedActive

(* The inductive invariant: what the call of the engine has written is     *)
(* where it should be, what a query knows is from its own time, and the    *)
(* terminal is kept for when it is needed again.                           *)
THEOREM QueriesInvariant == QueriesSpec => []Inv
<1>1. Inv /\ [QueriesNext]_allVars => Inv'
  <2> SUFFICES ASSUME Inv, [QueriesNext]_allVars
               PROVE  Inv'
    OBVIOUS
  <2>1. driver' = driver
    BY DriverKept
  <2>2. CASE SiteStep \/ RouterStep \/ Ask \/ UNCHANGED allVars
    BY <2>1, <2>2, SiteInvStep, RouterInvStep, AskStep, UnchangedStep
  <2>3. CASE AskRouter \/ RunQdmanage
    <3>1. Asking
      BY <2>3 DEF AskRouter, RunQdmanage, ExecStep, ExecCreate, ExecAttach,
         ExecOutput, ExecStreamEnds, ExecInspect, ExecCopy, ExecReturn, Inv,
         QueryInv
    <3> QED
      BY <2>1, <2>3, <3>1, CallStep
  <2>4. CASE NoAnswer \/ SitesAnswer \/ ConnectionsAnswer \/ Exit
    BY <2>1, <2>4, NoAnswerStep, SitesAnswerStep, ConnectionsAnswerStep,
       ExitStep
  <2>5. CASE \/ InspectRouter \/ InspectController \/ ReadMode
             \/ CountServices \/ ConnectorList \/ ConnectorInspect
             \/ NextConnector \/ NextRound
    BY <2>1, <2>5, LookStep
  <2> QED
    BY <2>2, <2>3, <2>4, <2>5 DEF QueriesNext, QueryStep
<1> QED
  BY InvInit, <1>1, PTL DEF QueriesSpec

(* Types, for every number of sites, names, blocks and attempts.           *)
THEOREM QueriesTypesHold == QueriesSpec => []QueriesTypeOK
<1>1. Inv => QueriesTypeOK
  BY DEF Inv, QueryInv, ExecInv, QueriesTypeOK
<1> QED
  BY QueriesInvariant, <1>1, PTL

(* No interleaving of a query with a command that connects, disconnects or *)
(* recreates the router lets it report a connection that was not there.    *)
THEOREM ReportedActiveHolds == QueriesSpec => []ReportedActive
<1>1. Inv => ReportedActive
  BY DEF Inv, ActiveInv
<1> QED
  BY QueriesInvariant, <1>1, PTL

(* Whatever the capacity of the pipe, and wherever the router stops.       *)
THEOREM OutputWholeHolds == QueriesSpec => []OutputWhole
<1>1. Inv => OutputWhole
  BY DEF Inv, QueryInv, ExecInv, Exec, OutputWhole
<1> QED
  BY QueriesInvariant, <1>1, PTL

(* However often the router is asked within one query.                     *)
THEOREM ShownHolds == QueriesSpec => []Shown
<1>1. Inv => Shown
  BY DEF Inv, QueryInv, ShownInv, Shown, Asking
<1> QED
  BY QueriesInvariant, <1>1, PTL

(* QueryEnds excepts a query that hangs in podman's driver: it can hang    *)
(* only if a command may print more than a pipe holds, as what is not      *)
(* written yet has no room only when all the pipe's blocks are taken       *)
(* (podman.go:388).                                                        *)
THEOREM NoJamBelowCapacity ==
    ASSUME MaxOutput =< PipeCapacity
    PROVE  QueriesSpec => []~Jammed
<1>1. Inv => ~Jammed
  <2> SUFFICES ASSUME Inv, Jammed
               PROVE  FALSE
    OBVIOUS
  <2>1. /\ exec.left \in Nat /\ exec.buffer \in Nat /\ exec.pipe \in Nat
        /\ exec.written \in Nat
    BY QueryAssumption DEF Inv, QueryInv, ExecInv, Exec
  <2>2. /\ exec.pipe + exec.buffer = exec.written
        /\ exec.written + exec.left =< MaxOutput
        /\ exec.left > 0 /\ exec.pipe = PipeCapacity
    BY DEF Inv, QueryInv, ExecInv, Jammed
  <2> QED
    BY <2>1, <2>2, QueryAssumption
<1> QED
  BY QueriesInvariant, <1>1, PTL

-----------------------------------------------------------------------------
(* Queries read the site and leave it as it is. *)

LEMMA QueriesLeaveSite ==
    ASSUME [QueriesNext]_allVars
    PROVE  [CommandStep]_<<vars, dataVars>>
<1>1. CASE SiteStep
  BY <1>1 DEF SiteStep
<1>2. CASE RouterStep
  BY <1>2 DEF RouterStep, Open, Opened, Closed, SetConnections
<1>3. CASE Ask
  BY <1>3 DEF Ask, Status, List, CheckAll, CheckOne, BeginQuery
<1>4. CASE \/ InspectRouter \/ InspectController \/ ReadMode \/ CountServices
           \/ ConnectorList \/ ConnectorInspect \/ NextConnector \/ NextRound
  BY <1>4 DEF InspectRouter, InspectController, ReadMode, CountServices,
     ConnectorList, ConnectorInspect, NextConnector, NextRound, Look
<1>5. CASE \/ AskRouter \/ RunQdmanage \/ NoAnswer \/ SitesAnswer
           \/ ConnectionsAnswer \/ Exit
  BY <1>5 DEF AskRouter, RunQdmanage, NoAnswer, SitesAnswer,
     ConnectionsAnswer, Return, Exit
<1>6. CASE UNCHANGED allVars
  BY <1>6 DEF allVars
<1> QED
  BY <1>1, <1>2, <1>3, <1>4, <1>5, <1>6 DEF QueriesNext, QueryStep

(* A query and the router, at whatever moment they run, change nothing of  *)
(* what the commands work on.                                              *)
THEOREM QueriesImplementDetails == QueriesSpec => DetailsSpec
<1>1. QueriesInit => Init /\ DataInit
  BY DEF QueriesInit
<1>2. [QueriesNext]_allVars => [CommandStep]_<<vars, dataVars>>
  BY QueriesLeaveSite
<1> QED
  BY <1>1, <1>2, PTL DEF QueriesSpec, DetailsSpec

(* So what holds of the commands holds also while queries run.             *)
THEOREM QueriesKeepPromises ==
    QueriesSpec => FileAgrees /\ TlsProvisioned /\ RecreatedAlike
BY QueriesImplementDetails, FileAgreesHolds, TlsProvisionedHolds,
   RecreatedAlikeHolds, PTL
=============================================================================
