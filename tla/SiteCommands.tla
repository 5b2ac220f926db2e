---------------------------- MODULE SiteCommands ----------------------------
(***************************************************************************)
(* A host on which an operator sets up a site, connects it to others and   *)
(* takes it down again, with commands that may fail at any point, and the  *)
(* controller and the user, who change the little of the site that the     *)
(* commands depend on.                                                     *)
(***************************************************************************)
EXTENDS SiteLifecycle, Connectors

Init == SiteInit

(* A file or a directory that the next step was to write or remove is      *)
(* found in between.                                                       *)
CutShort ==
    \/ /\ at \in {"wipe", "deleteFiles"}
       /\ PartlyErased
       /\ leaving' = Name
    \/ /\ at = "site"
       /\ siteConfig' = Torn
       /\ UNCHANGED <<connections, dirs, config, ca, defined, leaving>>
    \/ /\ at = "layout"
       /\ connections' = TRUE
       /\ UNCHANGED <<siteConfig, dirs, config, ca, defined, leaving>>
    \/ /\ at = "config" \/ (at \in {"connect", "unconfig"} /\ Readable(config))
       /\ config' = Torn
       /\ UNCHANGED <<siteConfig, connections, dirs, ca, defined, leaving>>
    \/ /\ at = "removeDir"
       /\ dirs' = [dirs EXCEPT ![cmd.name] = Partial]
       /\ leaving' = leaving \cup {cmd.name}
       /\ UNCHANGED <<siteConfig, connections, config, ca, defined>>

(* The command is killed, a file cannot be written, or a call of the       *)
(* engine fails where that ends the command.  A call that took effect      *)
(* although it failed or timed out is one with the failure of the next.    *)
Abort ==
    /\ at # "idle"
    /\ Fault
    /\ End("failed")
    /\ CutShort \/ UNCHANGED <<fileVars, leaving>>
    /\ UNCHANGED <<engineVars, tokens, installed>>

(* Services come and go.                                                   *)
Define ==
    /\ siteConfig \in Uid /\ Exists(Router) /\ connections
    /\ at = "idle"
    /\ defined' = ~defined
    /\ UNCHANGED <<siteConfig, connections, dirs, config, ca, engineVars,
                   tokens, cmdVars, faults, leaving, installed>>

(* The controller attaches a target of a service to the network.           *)
Attach ==
    /\ defined /\ network /\ Up(Controller)
    /\ attached' = TRUE
    /\ UNCHANGED <<fileVars, containers, network, loaded, tokens, cmdVars,
                   faults, leaving, installed>>

(* The user stops it.                                                      *)
Detach ==
    /\ attached
    /\ attached' = FALSE
    /\ UNCHANGED <<fileVars, containers, network, loaded, tokens, cmdVars,
                   faults, leaving, installed>>

Operator ==
    \/ \E u \in Uid : InitSite(u)
    \/ DeleteSite
    \/ \E n \in Given \cup ({GeneratedName} \cap Name), i \in Peer \cup tokens :
          Connect(n, i)
    \/ \E n \in Name : Disconnect(n)
    \/ ConnectorTokenCreate

Step == InitStep \/ DeleteStep \/ ConnectorStep

Next == Operator \/ Step \/ Abort \/ Define \/ Attach \/ Detach

Spec == Init /\ [][Next]_vars

(* A command goes on until it ends.  The operator repeats `delete` again   *)
(* and again, as long as that is possible.                                 *)
RetryFairness == WF_vars(Step) /\ SF_vars(DeleteSite)

RetrySpec == Spec /\ RetryFairness

(* And `init` too.                                                         *)
FairSpec == RetrySpec /\ SF_vars(\E u \in Uid : InitSite(u))

-----------------------------------------------------------------------------
(* Properties.                                                             *)

(* Every connector in the router's configuration has the directory of the  *)
(* token it was made from, whole, unless a `disconnect` or the removal of  *)
(* the site was interrupted after it had begun with the directory          *)
(* (connector_create.go:79-115, connector_remove.go:33-46): the router     *)
(* never meets a connector with another site's credentials, however        *)
(* commands fail and whichever names are used again.                       *)
Provisioned ==
    Readable(config) =>
        \A n \in Name \ leaving :
            config.connectors[n] \in {NoConnector, dirs[n]}

(* A site that was installed stays one site: until the next `init` or      *)
(* `delete`, and through every `connect` and `disconnect` that fails       *)
(* half-way, its files and the containers recreated from one another carry *)
(* the identity of that installation, none of its connectors leads to it,  *)
(* and what it needs to continue is there (driver.go:50-107,               *)
(* connector_create.go:65).                                                *)
OneSite ==
    installed # NoUid =>
        /\ siteConfig = installed
        /\ network /\ connections
        /\ Readable(config) =>
              /\ config.site = installed
              /\ \A n \in Name : config.connectors[n] # installed
        /\ \A d \in Deployment : Exists(d) => containers[d].site = installed

(* A command that reports success leaves both containers running, with the *)
(* router on the configuration that is in the file (RouterCreate,          *)
(* ConnectorCreate and ConnectorRemove).                                   *)
Succeeds ==
    /\ cmd.op \in {"init", "connect", "disconnect"}
    /\ outcome' = "done"

Effective ==
    [][Succeeds => /\ \A d \in Deployment : Exists(d)' /\ Up(d)'
                   /\ loaded' = config']_vars

(* Nothing of a site is left.                                              *)
Clean ==
    /\ \A d \in Deployment : ~Exists(d)
    /\ ~network
    /\ siteConfig = NoFile /\ config = NoFile /\ ~connections

(* A host is never lost: whatever was interrupted, an operator who keeps   *)
(* trying `init` and `delete` gets a site installed again, if the user's   *)
(* containers leave the network (router_create.go:437-513,                 *)
(* router_remove.go).                                                      *)
Recoverable == <>[]~attached => []<>(installed # NoUid)

(* A `delete` that began ends with nothing left, if the operator repeats   *)
(* it as long as it fails and user's containers leave the network.         *)
DeleteFinishes ==
    <>[]~attached => (cmd.op = "delete" ~> Clean)
=============================================================================
