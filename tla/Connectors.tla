----------------------------- MODULE Connectors -----------------------------
(***************************************************************************)
(* `connect`, `disconnect` and `connection-token`.                         *)
(***************************************************************************)
EXTENDS SiteState, FiniteSetsExt

(* A token can be given out by a site that others can connect to.          *)
ConnectorTokenCreate ==
    /\ at = "idle"
    /\ siteConfig \in Uid
    /\ Exists(Router)
    /\ Readable(config)
    /\ ~config.edge
    /\ ca
    /\ Cardinality(tokens \cup {siteConfig}) =< MaxTokens
    /\ tokens' = tokens \cup {siteConfig}
    /\ UNCHANGED <<engineVars, fileVars, cmdVars, faults, leaving, installed>>

(* conn<k> with k one more than the greatest number found in a name, or 1. *)
(* The pattern is conn([0-9])+, whose group holds the last digit.          *)
GeneratedName ==
    Max({1} \cup {(n % 10) + 1 : n \in {k \in 1..MaxGenerated : dirs[k] # NoFile}})

(* Mutant: a directory that exists is accepted.                            *)
ConnectOver(n, issuer) ==
    /\ siteConfig \in Uid
    /\ Exists(Router)
    /\ issuer # siteConfig
    /\ connections
    /\ Begin([NoCommand EXCEPT !.op = "connect", !.name = n, !.from = issuer],
             "files", Router)
    /\ dirs' = [dirs EXCEPT ![n] = Partial]
    /\ UNCHANGED <<siteConfig, connections, config, ca, defined, engineVars,
                   tokens, leaving, installed>>

(* Mutant: the origin of the token is not compared with the site.          *)
ConnectToSelf(n, issuer) ==
    /\ siteConfig \in Uid
    /\ Exists(Router)
    /\ connections
    /\ dirs[n] = NoFile
    /\ Begin([NoCommand EXCEPT !.op = "connect", !.name = n, !.from = issuer],
             "files", Router)
    /\ dirs' = [dirs EXCEPT ![n] = Partial]
    /\ UNCHANGED <<siteConfig, connections, config, ca, defined, engineVars,
                   tokens, leaving, installed>>

(* `connect` up to the directory it makes.  What it reads before that      *)
(* ends it with an error if it does not fit.                               *)
Connect(n, issuer) ==
    /\ siteConfig \in Uid
    /\ Exists(Router)
    /\ issuer # siteConfig
    /\ connections
    /\ dirs[n] = NoFile
    /\ Begin([NoCommand EXCEPT !.op = "connect", !.name = n, !.from = issuer],
             "files", Router)
    /\ dirs' = [dirs EXCEPT ![n] = Partial]
    /\ UNCHANGED <<siteConfig, connections, config, ca, defined, engineVars,
                   tokens, leaving, installed>>

WriteToken ==
    /\ at = "files"
    /\ dirs' = [dirs EXCEPT ![cmd.name] = cmd.from]
    /\ Go("connect")
    /\ UNCHANGED <<siteConfig, connections, config, ca, defined, engineVars,
                   tokens, leaving, installed>>

(* Mutant: the router is left running.                                     *)
AddConnectorOnly ==
    /\ at = "connect"
    /\ IF Readable(config)
       THEN /\ Configure(cmd.name, cmd.from)
            /\ GoOn("inspect", Controller)
            /\ UNCHANGED <<siteConfig, connections, dirs, ca, defined,
                           engineVars>>
       ELSE Refused
    /\ UNCHANGED <<tokens, installed>>

(* The configuration gets the connector and its TLS profile.               *)
AddConnector ==
    /\ at = "connect"
    /\ IF Readable(config)
       THEN /\ Configure(cmd.name, cmd.from)
            /\ Go("inspect")
            /\ UNCHANGED <<siteConfig, connections, dirs, ca, defined,
                           engineVars>>
       ELSE Refused
    /\ UNCHANGED <<tokens, installed>>

(* `disconnect`.  For a name the configuration does not have only the      *)
(* containers are recreated.                                               *)
Disconnect(n) ==
    /\ siteConfig \in Uid
    /\ Exists(Router)
    /\ Readable(config)
    /\ Begin([NoCommand EXCEPT !.op = "disconnect", !.name = n],
             IF config.connectors[n] = NoConnector THEN "inspect"
             ELSE "removeDir",
             Router)
    /\ UNCHANGED <<fileVars, engineVars, tokens, leaving, installed>>

RemoveDirectory ==
    /\ at = "removeDir"
    /\ dirs' = [dirs EXCEPT ![cmd.name] = NoFile]
    /\ leaving' = leaving \cup {cmd.name}
    /\ Go("unconfig")
    /\ UNCHANGED <<siteConfig, connections, config, ca, defined, engineVars,
                   tokens, installed>>

RemoveConnector ==
    /\ at = "unconfig"
    /\ Configure(cmd.name, NoConnector)
    /\ Go("inspect")
    /\ UNCHANGED <<siteConfig, connections, dirs, ca, defined, engineVars,
                   tokens, installed>>

-----------------------------------------------------------------------------
(* RecreateContainer, of the router and then of the controller.            *)

(* Mutant: what the engine tells of a container leaves out its             *)
(* environment.                                                            *)
InspectWithoutEnvironment ==
    /\ at = "inspect"
    /\ IF Exists(on)
       THEN /\ cmd' = [cmd EXCEPT !.site = NoUid]
            /\ at' = "stop"
            /\ UNCHANGED <<on, outcome, faults, fileVars, engineVars, leaving>>
       ELSE Refused
    /\ UNCHANGED <<tokens, installed>>

InspectContainer ==
    /\ at = "inspect"
    /\ IF Exists(on)
       THEN /\ cmd' = [cmd EXCEPT !.site = containers[on].site]
            /\ at' = "stop"
            /\ UNCHANGED <<on, outcome, faults, fileVars, engineVars, leaving>>
       ELSE Refused
    /\ UNCHANGED <<tokens, installed>>

StopContainer ==
    /\ at = "stop"
    /\ Stop(on)
    /\ Go("remove")
    /\ UNCHANGED <<fileVars, network, attached, loaded, tokens, leaving,
                   installed>>

RemoveContainer ==
    /\ at = "remove"
    /\ Remove(on)
    /\ Go("create")
    /\ UNCHANGED <<fileVars, network, attached, tokens, leaving, installed>>

CreateContainerAgain ==
    /\ at = "create" /\ cmd.op # "init"
    /\ IF CreateAllowed(on)
       THEN /\ Create(on, cmd.site)
            /\ Go("start")
            /\ UNCHANGED <<fileVars, network, attached, loaded, leaving>>
       ELSE Refused
    /\ UNCHANGED <<tokens, installed>>

StartContainerAgain ==
    /\ at = "start" /\ cmd.op # "init"
    /\ IF StartAllowed(on)
       THEN /\ Start(on, config)
            /\ IF on = Router THEN GoOn("inspect", Controller) ELSE Go("proxies")
            /\ UNCHANGED <<fileVars, network, attached, leaving>>
       ELSE Refused
    /\ UNCHANGED <<tokens, installed>>

(* For each service a container of its name is restarted.  Nobody makes    *)
(* such containers any more: it works only if the user has one.            *)
RestartProxies ==
    /\ at = "proxies"
    /\ End("done") \/ (defined /\ End("failed"))
    /\ UNCHANGED <<fileVars, engineVars, tokens, faults, leaving, installed>>

ConnectorStep ==
    \/ WriteToken \/ AddConnector \/ RemoveDirectory \/ RemoveConnector
    \/ InspectContainer \/ StopContainer \/ RemoveContainer
    \/ CreateContainerAgain \/ StartContainerAgain \/ RestartProxies
=============================================================================
