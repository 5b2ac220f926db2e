----------------------------- MODULE SiteState -----------------------------
(***************************************************************************)
(* What the commands that set up a site share: the files in the host's     *)
(* skupper directory, the container engine, and where the running command  *)
(* is.  One command runs at a time.  A command is a sequence of accesses   *)
(* to files and calls of the engine; it may end after any of them, because *)
(* an access fails or because it is killed.                                *)
(***************************************************************************)
EXTENDS ContainerEngine

CONSTANTS
    Peer,           \* other sites, known by the tokens they give out
    Given,          \* names an operator gives to a connector
    MaxGenerated,   \* bound on the generated names conn1, conn2, ...
    MaxFaults,      \* bound on failures of the engine, of files and kills
    MaxTokens,      \* bound on tokens given out
    Modes,          \* whether sites are edges: TRUE, FALSE or both
    NoUid,          \* no identity
    NoConnector,    \* no connector has that name
    Partial         \* a directory with some of its files

VARIABLES
    siteConfig,     \* sites/skupper0.json: the site's identity
    connections,    \* the directory connections exists
    dirs,           \* dirs[n]: whose token connections/n was made from
    config,         \* config/qdrouterd.json
    ca,             \* the certificate authority for tokens exists
    defined,        \* skupper-services has a service
    tokens,         \* the sites of which this host gave out tokens
    at,             \* what the running command does next
    on,             \* the container it does that to
    cmd,            \* the command and what it has read
    outcome,        \* how the last command ended
    faults,         \* failures so far
    leaving,        \* history: connectors whose directory was removed while
                    \* the configuration has them
    installed       \* history: the identity of the last init, if it was
                    \* successful and no init or delete began since

fileVars == <<siteConfig, connections, dirs, config, ca, defined>>
cmdVars == <<at, on, cmd, outcome>>
vars == <<engineVars, fileVars, tokens, cmdVars, faults, leaving, installed>>

(* The n-th generated name is the number n.                                *)
Name == (1..MaxGenerated) \cup Given
Issuer == Uid \cup Peer

ASSUME ScaleAssumption ==
    /\ MaxGenerated \in Nat /\ MaxFaults \in Nat /\ MaxTokens \in Nat
    /\ Modes \subseteq BOOLEAN
    /\ IsFiniteSet(Given) /\ IsFiniteSet(Uid) /\ Given \cap Nat = {}
ASSUME DistinctAssumption ==
    /\ NoUid \notin Uid /\ NoFile # Torn
    /\ {NoFile, Partial, NoConnector} \cap Issuer = {}
    /\ {NoFile, Torn} \cap Uid = {} /\ NoFile # Partial
    /\ NoContainer \notin Container

RouterConfig == [site : Uid, edge : BOOLEAN,
                 connectors : [Name -> Issuer \cup {NoConnector}]]

ASSUME UnreadableAssumption == {NoFile, Torn} \cap RouterConfig = {}

Readable(file) == file \notin {NoFile, Torn}

Op == {"none", "init", "delete", "connect", "disconnect"}
Command == [op : Op, name : Name \cup {0}, from : Issuer \cup {NoUid},
            site : Uid \cup {NoUid}, errors : BOOLEAN]
NoCommand == [op |-> "none", name |-> 0, from |-> NoUid, site |-> NoUid,
              errors |-> FALSE]

At == {"idle", "wipe", "site", "layout", "config", "network", "create",
       "certs", "start", "files", "connect", "removeDir", "unconfig",
       "inspect", "stop", "remove", "proxies", "deleteStop", "deleteRemove",
       "deleteNetwork", "deleteFiles"}

TypeOK ==
    /\ containers \in [Deployment -> Container \cup {NoContainer}]
    /\ network \in BOOLEAN
    /\ attached \in BOOLEAN
    /\ loaded \in RouterConfig \cup {NoFile, Torn}
    /\ siteConfig \in Uid \cup {NoFile, Torn}
    /\ connections \in BOOLEAN
    /\ dirs \in [Name -> Issuer \cup {NoFile, Partial}]
    /\ config \in RouterConfig \cup {NoFile, Torn}
    /\ ca \in BOOLEAN
    /\ defined \in BOOLEAN
    /\ tokens \subseteq Uid
    /\ at \in At
    /\ on \in Deployment
    /\ cmd \in Command
    /\ outcome \in {"none", "done", "failed"}
    /\ faults \in 0..MaxFaults
    /\ leaving \subseteq Name
    /\ installed \in Uid \cup {NoUid}

SiteInit ==
    /\ EngineInit
    /\ siteConfig = NoFile
    /\ connections = FALSE
    /\ dirs = [n \in Name |-> NoFile]
    /\ config = NoFile
    /\ ca = FALSE
    /\ defined = FALSE
    /\ tokens = {}
    /\ at = "idle"
    /\ on = Controller
    /\ cmd = NoCommand
    /\ outcome = "none"
    /\ faults = 0
    /\ leaving = {}
    /\ installed = NoUid

-----------------------------------------------------------------------------
(* The identities that something remembers.  NewUUID returns another one.  *)
Remembered ==
    {siteConfig} \cup tokens
    \cup {containers[d].site : d \in {e \in Deployment : Exists(e)}}
    \cup {dirs[n] : n \in Name}
    \cup (IF Readable(config)
          THEN {config.site} \cup {config.connectors[n] : n \in Name}
          ELSE {})
    \cup (IF Readable(loaded)
          THEN {loaded.site} \cup {loaded.connectors[n] : n \in Name}
          ELSE {})

Begin(command, first, container) ==
    /\ at = "idle"
    /\ cmd' = command
    /\ at' = first
    /\ on' = container
    /\ outcome' = "none"
    /\ UNCHANGED faults

Go(next) == at' = next /\ UNCHANGED <<on, cmd, outcome, faults>>

GoOn(next, container) ==
    at' = next /\ on' = container /\ UNCHANGED <<cmd, outcome, faults>>

End(result) ==
    /\ at' = "idle"
    /\ on' = Controller
    /\ cmd' = NoCommand
    /\ outcome' = result

(* The command ends with an error because of what it has found.            *)
Refused == End("failed") /\ UNCHANGED <<faults, fileVars, engineVars, leaving>>

(* Something goes wrong that does not follow from the state.               *)
Fault == faults < MaxFaults /\ faults' = faults + 1

(* All of the host's skupper directory is gone.                            *)
Erased ==
    /\ siteConfig' = NoFile
    /\ connections' = FALSE
    /\ dirs' = [n \in Name |-> NoFile]
    /\ config' = NoFile
    /\ ca' = FALSE
    /\ defined' = FALSE

(* Some of it is gone.                                                     *)
PartlyErased ==
    /\ siteConfig' \in {siteConfig, NoFile}
    /\ config' \in {config, NoFile}
    /\ connections' \in {connections, FALSE}
    /\ \E gone \in SUBSET Name :
          /\ connections' \/ gone = Name
          /\ dirs' = [n \in Name |-> IF n \in gone THEN NoFile ELSE dirs[n]]
    /\ ca' \in {ca, FALSE}
    /\ defined' \in {defined, FALSE}

Configure(n, issuer) ==
    /\ config' = [config EXCEPT !.connectors[n] = issuer]
    /\ leaving' = leaving \ {n}
=============================================================================
