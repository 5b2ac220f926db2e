----------------------------- MODULE SiteQueries -----------------------------
(***************************************************************************)
(* `status`, `version`, `list-connectors` and `check-connection`, used     *)
(* while another command changes the site: they read its files, ask the    *)
(* engine about its containers, and ask the router what it is connected    *)
(* to, by running qdmanage in the router's container.                      *)
(***************************************************************************)
EXTENDS SiteDetails

CONSTANTS
    MaxOutput,      \* bound on what qdmanage prints, in blocks
    PipeCapacity,   \* blocks a pipe holds
    WaitFor,        \* the option --wait of check-connection
    MaxAttempts     \* times `status` asks the router, 6 in the code

VARIABLES
    exec, stdout,   \* running qdmanage (ContainerExec)
    table,          \* the router's connections to other sites
    q,              \* the query
    live            \* history: sites the router had an active connection to
                    \* since the query began

ASSUME QueryAssumption ==
    /\ MaxOutput \in Nat \ {0} /\ PipeCapacity \in Nat \ {0}
    /\ WaitFor \in Nat /\ MaxAttempts \in Nat \ {0}

INSTANCE ContainerExec

queryVars == <<exec, stdout, table, q, live>>
allVars == <<vars, dataVars, queryVars>>

Connection == [host : Issuer, active : BOOLEAN]

(* todo: connectors still to be inspected in this round; active: the hosts *)
(* of those found active; broke: an exec failed.  "crashed": a panic.      *)
Query == [op : {"none", "status", "list", "check"},
          at : {"none", "router", "controller", "config", "sites", "services",
                "list", "round", "look", "ask", "report", "crashed"},
          listed : SUBSET Name, todo : SUBSET Name, name : Name \cup {0},
          host : Issuer \cup {NoConnector},
          active : [Name -> Issuer \cup {NoConnector}],
          tries : 0..(MaxAttempts + WaitFor), error : BOOLEAN,
          broke : BOOLEAN]

NoQuery == [op |-> "none", at |-> "none", listed |-> {}, todo |-> {},
            name |-> 0, host |-> NoConnector,
            active |-> [n \in Name |-> NoConnector], tries |-> 0,
            error |-> FALSE, broke |-> FALSE]

QueriesTypeOK ==
    /\ exec \in Exec(SUBSET Connection)
    /\ stdout \in {"terminal", "pipe"}
    /\ table \subseteq Connection
    /\ q \in Query
    /\ live \subseteq Issuer

QueriesInit ==
    /\ Init
    /\ DataInit
    /\ exec = NoExec({})
    /\ stdout = "terminal"
    /\ table = {}
    /\ q = NoQuery
    /\ live = {}

-----------------------------------------------------------------------------
(* The other command.  A router that is not running has no connections and *)
(* runs no command.                                                        *)
SiteStep ==
    /\ CommandStep
    /\ IF Up(Router) /\ ~containers'[Router].up
       THEN table' = {} /\ ExecCut
       ELSE UNCHANGED <<table, exec>>
    /\ UNCHANGED <<stdout, q, live>>

ActiveHosts(connections_) == {c.host : c \in {d \in connections_ : d.active}}

SetConnections(next) ==
    /\ table' = next
    /\ live' = live \cup ActiveHosts(next)
    /\ UNCHANGED <<vars, dataVars, exec, stdout, q>>

(* The router opens a connection for a connector it has read.              *)
Open(host) ==
    /\ Up(Router) /\ Readable(loaded)
    /\ \E n \in Name : loaded.connectors[n] = host
    /\ SetConnections(table \cup {[host |-> host, active |-> FALSE]})

Opened(c) ==
    /\ ~c.active
    /\ SetConnections((table \ {c}) \cup {[c EXCEPT !.active = TRUE]})

Closed(c) == SetConnections(table \ {c})

RouterStep ==
    \/ \E h \in Issuer : Open(h)
    \/ \E c \in table : Opened(c) \/ Closed(c)

-----------------------------------------------------------------------------
(* Where the query goes next.                                              *)
To(stage) == [q EXCEPT !.at = stage]
Failed == [To("report") EXCEPT !.error = TRUE]

(* It reads a file, or asks the engine about a container.                  *)
Look(stage, found, next, otherwise) ==
    /\ q.at = stage
    /\ q' = IF found THEN next ELSE otherwise
    /\ UNCHANGED <<vars, dataVars, exec, stdout, table, live>>

BeginQuery(query) ==
    /\ q.op = "none"
    /\ q' = query
    /\ live' = ActiveHosts(table)
    /\ UNCHANGED <<vars, dataVars, exec, stdout, table>>

(* What it has to say is printed, and the process ends.                    *)
Exit ==
    /\ q.at \in {"report", "crashed"}
    /\ q' = NoQuery
    /\ stdout' = "terminal"
    /\ live' = {}
    /\ UNCHANGED <<vars, dataVars, exec, table>>

-----------------------------------------------------------------------------
(* GetNodes and GetConnections: the container is looked for, and qdmanage  *)
(* is run in it.                                                           *)
Asking == q.at \in {"sites", "ask"}

AskRouter ==
    /\ Asking /\ Exists(Router)
    /\ ExecBegin
    /\ UNCHANGED <<vars, dataVars, table, q, live>>

RunQdmanage ==
    /\ ExecStep(Up(Router), table)
    /\ UNCHANGED <<vars, dataVars, table, q, live>>

Return(next) ==
    /\ q' = next
    /\ exec' = NoExec({})
    /\ UNCHANGED <<vars, dataVars, stdout, table, live>>

(* Mutant: as long as there is no answer.                                  *)
UnansweredAgain ==
    IF q.at = "ask" THEN To("round") ELSE [q EXCEPT !.tries = @ + 1]

(* RouterInspect tries several times.                                      *)
Unanswered ==
    IF q.at = "ask" THEN To("round")
    ELSE IF q.tries + 1 < MaxAttempts THEN [q EXCEPT !.tries = @ + 1]
    ELSE Failed

NoAnswer ==
    /\ Asking
    /\ \/ exec.at = "none" /\ ~Exists(Router) /\ Return(Unanswered)
       \/ ExecEnded /\ ~Decodable
          /\ Return([Unanswered EXCEPT !.broke = @ \/ exec.at = "failed"])

SitesAnswer ==
    /\ q.at = "sites" /\ Decodable
    /\ Return(To("services"))

(* Mutant: that there is a connection is enough.                           *)
ConnectionThere(c) == TRUE

ConnectionActive(c) == c.active

(* GetInterRouterOrEdgeConnection: the first connection to that host.      *)
ConnectionsAnswer ==
    /\ q.at = "ask" /\ Decodable
    /\ LET matches == {c \in exec.answer : c.host = q.host}
           seen == [To("round") EXCEPT !.listed = @ \cup {q.name}]
       IN \/ matches = {} /\ Return(seen)
          \/ \E c \in matches :
                Return(IF ConnectionActive(c) /\ q.active[q.name] = NoConnector
                       THEN [seen EXCEPT !.active[q.name] = q.host] ELSE seen)

-----------------------------------------------------------------------------
(* `status` and `version`: RouterInspect.  What podman's ContainerInspect  *)
(* returns has no state to take the status from.                           *)
Status == BeginQuery([NoQuery EXCEPT !.op = "status", !.at = "router"])

InspectRouter ==
    Look("router", siteConfig \in Uid /\ Exists(Router),
         To(IF driver = "podman" THEN "crashed" ELSE "controller"), Failed)

InspectController ==
    Look("controller", Exists(Controller), To("config"), Failed)

ReadMode == Look("config", Readable(config), To("sites"), Failed)

(* ServiceInterfaceList, whose error is the error of all.                  *)
CountServices ==
    \E decodable \in BOOLEAN :
        Look("services",
             siteConfig \in Uid /\ Exists(Router) /\ connections /\ decodable,
             To("report"), Failed)

-----------------------------------------------------------------------------
(* `list-connectors` and `check-connection all` begin with ConnectorList.  *)
(* The latter takes an error for an empty list.                            *)
List == BeginQuery([NoQuery EXCEPT !.op = "list", !.at = "list"])
CheckAll == BeginQuery([NoQuery EXCEPT !.op = "check", !.at = "list"])

ConnectorList ==
    Look("list",
         siteConfig \in Uid /\ Exists(Router) /\ Readable(config) /\ connections,
         [To(IF q.op = "list" THEN "report" ELSE "round") EXCEPT
             !.listed = {n \in Name : dirs[n] # NoFile}],
         IF q.op = "list" THEN Failed ELSE To("round"))

(* With a name it inspects that connector first; if that fails there is    *)
(* nothing to wait for.                                                    *)
CheckOne(n) ==
    BeginQuery([NoQuery EXCEPT !.op = "check", !.at = "look", !.name = n])

(* ConnectorInspect: the host the token names, then the router's word.  A  *)
(* directory with some of its files counts as one without these.           *)
ConnectorInspect ==
    LET host == dirs[q.name]
    IN Look("look",
            /\ siteConfig \in Uid /\ Exists(Router) /\ Readable(config)
            /\ host \in Issuer,
            [To("ask") EXCEPT !.host = host],
            To("round"))

NextConnector ==
    /\ q.at = "round"
    /\ \E n \in q.todo :
          q' = [To("look") EXCEPT !.name = n, !.todo = @ \ {n}]
    /\ UNCHANGED <<vars, dataVars, exec, stdout, table, live>>

FoundActive == {n \in Name : q.active[n] # NoConnector}

(* Mutant: the wait has no end.                                            *)
NextRoundAlways ==
    /\ q.todo = {}
    /\ Look("round", FoundActive # q.listed,
            [q EXCEPT !.todo = q.listed], To("report"))

(* One round is made each second.                                          *)
NextRound ==
    /\ q.todo = {}
    /\ Look("round", FoundActive # q.listed /\ q.tries < WaitFor,
            [q EXCEPT !.todo = q.listed, !.tries = @ + 1], To("report"))

-----------------------------------------------------------------------------
Ask == Status \/ List \/ CheckAll \/ (\E n \in Name : CheckOne(n))

QueryStep ==
    \/ InspectRouter \/ InspectController \/ ReadMode \/ CountServices
    \/ ConnectorList \/ ConnectorInspect \/ NextConnector \/ NextRound
    \/ AskRouter \/ RunQdmanage \/ NoAnswer \/ SitesAnswer \/ ConnectionsAnswer
    \/ Exit

QueriesNext == SiteStep \/ RouterStep \/ Ask \/ QueryStep

QueriesSpec ==
    /\ QueriesInit /\ [][QueriesNext]_allVars
    /\ WF_allVars(QueryStep)

-----------------------------------------------------------------------------
(* Properties.                                                             *)

(* What check-connection calls active was active, at some moment since it  *)
(* began, with the site that the connector's token named when it looked,   *)
(* whatever was connected, disconnected or recreated meanwhile             *)
(* (connector_inspect.go:43-76, main.go:323-388, mgmt.go:93-126).          *)
ReportedActive ==
    \A n \in Name : q.active[n] \in live \cup {NoConnector}

(* The output of a command that ran to its end is all there when           *)
(* ContainerExec returns: nothing is left in podman's pipe                 *)
(* (podman.go:388-408, docker.go:664-681).                                 *)
OutputWhole ==
    exec.at = "done" => exec.pipe = 0 /\ exec.buffer = exec.written

(* What a query prints reaches the terminal: the pipe podman's driver puts *)
(* in the place of standard output is taken away again after every exec,   *)
(* also when several follow one another, unless one failed                 *)
(* (podman.go:368-404).                                                    *)
Shown == q.at = "report" => stdout = "terminal" \/ q.broke

(* A query ends, however the site changes under it, or it hangs because    *)
(* the engine waits for room in the pipe that podman's driver does not     *)
(* read yet (router_inspect.go:55-62, main.go:353-364, podman.go:388).     *)
QueryEnds == q.op # "none" ~> (q.op = "none" \/ Jammed)
=============================================================================
