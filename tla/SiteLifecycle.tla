--------------------------- MODULE SiteLifecycle ---------------------------
(***************************************************************************)
(* `init` and `delete` (RouterCreate, RouterRemove).                       *)
(***************************************************************************)
EXTENDS SiteState

(* `init`.  What was there is not looked at: the files go first, containers *)
(* and the network of an earlier site are met later.                       *)
InitSite(u) ==
    /\ u \in Uid \ Remembered
    /\ Begin([NoCommand EXCEPT !.op = "init", !.site = u], "wipe", Router)
    /\ installed' = NoUid
    /\ UNCHANGED <<fileVars, engineVars, tokens, leaving>>

(* The error of RemoveAll is dropped.                                      *)
WipeHost ==
    /\ at = "wipe"
    /\ \/ /\ Erased
          /\ leaving' = {}
          /\ Go("site")
       \/ /\ Fault
          /\ PartlyErased /\ siteConfig' = NoFile
          /\ leaving' = Name
          /\ at' = "site" /\ UNCHANGED <<on, cmd, outcome>>
    /\ UNCHANGED <<engineVars, tokens, installed>>

(* Mutant: existing resources are looked for before anything is written.   *)
WriteSiteConfigUnlessInstalled ==
    /\ at = "site"
    /\ IF network THEN Refused
       ELSE /\ siteConfig' = cmd.site
            /\ Go("layout")
            /\ UNCHANGED <<connections, dirs, config, ca, defined, engineVars,
                           leaving>>
    /\ UNCHANGED <<tokens, installed>>

WriteSiteConfig ==
    /\ at = "site"
    /\ siteConfig' = cmd.site
    /\ Go("layout")
    /\ UNCHANGED <<connections, dirs, config, ca, defined, engineVars, tokens,
                   leaving, installed>>

(* Images are pulled, then come the directories, in any order, and an      *)
(* empty skupper-services.  A directory that is still there is refused.    *)
MakeDirectories ==
    /\ at = "layout"
    /\ IF connections \/ config # NoFile \/ ca \/ defined
       THEN /\ connections' \in {connections, TRUE}
            /\ End("failed")
            /\ UNCHANGED <<defined, faults>>
       ELSE /\ connections' = TRUE
            /\ defined' = FALSE
            /\ Go("config")
    /\ UNCHANGED <<siteConfig, dirs, config, ca, engineVars, tokens, leaving,
                   installed>>

InitialConfig(site, edge) ==
    [site |-> site, edge |-> edge, connectors |-> [n \in Name |-> NoConnector]]

WriteRouterConfig ==
    /\ at = "config"
    /\ \E edge \in Modes : config' = InitialConfig(cmd.site, edge)
    /\ Go("network")
    /\ UNCHANGED <<siteConfig, connections, dirs, ca, defined, engineVars,
                   tokens, leaving, installed>>

CreateNetwork ==
    /\ at = "network"
    /\ IF network THEN Refused
       ELSE /\ network' = TRUE
            /\ Go("create")
            /\ UNCHANGED <<fileVars, containers, attached, loaded, leaving>>
    /\ UNCHANGED <<tokens, installed>>

CreateContainer ==
    /\ at = "create" /\ cmd.op = "init"
    /\ IF CreateAllowed(on)
       THEN /\ Create(on, cmd.site)
            /\ Go(IF on = Router THEN "certs" ELSE "start")
            /\ UNCHANGED <<fileVars, network, attached, loaded, leaving>>
       ELSE Refused
    /\ UNCHANGED <<tokens, installed>>

(* Errors on the way to the certificates are dropped.                      *)
MakeCertificates ==
    /\ at = "certs"
    /\ at' = "start"
    /\ \/ ca' = TRUE /\ UNCHANGED faults
       \/ Fault /\ UNCHANGED ca
    /\ UNCHANGED <<siteConfig, connections, dirs, config, defined, engineVars,
                   tokens, on, cmd, outcome, leaving, installed>>

StartContainer ==
    /\ at = "start" /\ cmd.op = "init"
    /\ \/ /\ ~StartAllowed(on)
          /\ Refused
          /\ UNCHANGED installed
       \/ /\ StartAllowed(on)
          /\ Start(on, config)
          /\ \/ on = Router /\ GoOn("create", Controller) /\ UNCHANGED installed
             \/ /\ on = Controller
                /\ End("done") /\ UNCHANGED faults
                /\ installed' = cmd.site
          /\ UNCHANGED <<fileVars, network, attached, leaving>>
    /\ UNCHANGED tokens

InitStep ==
    \/ WipeHost \/ WriteSiteConfig \/ MakeDirectories \/ WriteRouterConfig
    \/ CreateNetwork \/ CreateContainer \/ MakeCertificates \/ StartContainer

-----------------------------------------------------------------------------
(* `delete`.  It goes on after errors and ends with the list of them.      *)

DeleteSite ==
    /\ siteConfig \in Uid
    /\ Begin([NoCommand EXCEPT !.op = "delete"], "deleteStop", Controller)
    /\ installed' = NoUid
    /\ UNCHANGED <<fileVars, engineVars, tokens, leaving>>

Report == cmd' = [cmd EXCEPT !.errors = TRUE]

NextContainer ==
    /\ on' = Router
    /\ at' = IF on = Controller THEN "deleteStop" ELSE "deleteNetwork"

(* A container that is not found, for whatever reason, is left alone.      *)
DeleteStop ==
    /\ at = "deleteStop"
    /\ \/ /\ Exists(on)
          /\ Stop(on)
          /\ at' = "deleteRemove"
          /\ UNCHANGED <<on, cmd, faults>>
       \/ /\ ~Exists(on)
          /\ NextContainer
          /\ UNCHANGED <<cmd, containers, faults>>
       \/ /\ Exists(on) /\ Fault
          /\ Report \/ UNCHANGED cmd
          /\ NextContainer
          /\ UNCHANGED containers
    /\ UNCHANGED <<fileVars, network, attached, loaded, tokens, outcome,
                   leaving, installed>>

DeleteRemove ==
    /\ at = "deleteRemove"
    /\ NextContainer
    /\ \/ Remove(on) /\ UNCHANGED <<cmd, faults>>
       \/ Fault /\ Report /\ UNCHANGED <<containers, loaded>>
    /\ UNCHANGED <<fileVars, network, attached, tokens, outcome, leaving,
                   installed>>

DeleteNetwork ==
    /\ at = "deleteNetwork"
    /\ at' = "deleteFiles"
    /\ \/ ~network /\ UNCHANGED <<network, cmd, faults>>
       \/ /\ network /\ NetworkRemoveAllowed
          /\ network' = FALSE
          /\ UNCHANGED <<cmd, faults>>
       \/ /\ network /\ ~NetworkRemoveAllowed
          /\ Report
          /\ UNCHANGED <<network, faults>>
       \/ /\ network /\ Fault
          /\ Report \/ UNCHANGED cmd
          /\ UNCHANGED network
    /\ UNCHANGED <<fileVars, containers, attached, loaded, tokens, on, outcome,
                   leaving, installed>>

DeleteFiles ==
    /\ at = "deleteFiles"
    /\ Erased
    /\ leaving' = {}
    /\ End(IF cmd.errors THEN "failed" ELSE "done")
    /\ UNCHANGED <<engineVars, tokens, faults, installed>>

DeleteStep == DeleteStop \/ DeleteRemove \/ DeleteNetwork \/ DeleteFiles
=============================================================================
