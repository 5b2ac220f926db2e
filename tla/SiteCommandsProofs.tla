------------------------- MODULE SiteCommandsProofs -------------------------
(***************************************************************************)
(* Proofs about SiteCommands: types, the credentials of the connectors,    *)
(* the identity of an installed site, and what a success means.            *)
(***************************************************************************)
EXTENDS SiteCommands, TLAPS

InitStages == {"wipe", "site", "layout", "config", "network", "certs"}
RecreateStages == {"inspect", "stop", "remove", "proxies"}
DeleteStages == {"deleteStop", "deleteRemove", "deleteNetwork", "deleteFiles"}

(* What a step relies on that an earlier one has found.                    *)
Prepared ==
    /\ at \in InitStages => cmd.op = "init"
    /\ at \in InitStages \cup {"stop", "remove", "create", "start"} =>
          cmd.site \in Uid
    /\ at \in {"files", "connect", "removeDir", "unconfig"} => cmd.name \in Name
    /\ at \in {"files", "connect"} => cmd.from \in Issuer
    /\ at \in {"removeDir", "unconfig"} => Readable(config)
    /\ at = "stop" => Exists(on)
    /\ at \in RecreateStages \cup {"files", "connect", "removeDir", "unconfig"} =>
          cmd.op \in {"connect", "disconnect"}
    /\ at \in DeleteStages => cmd.op = "delete"
    /\ at \in {"create", "start"} => cmd.op \in {"init", "connect", "disconnect"}
    /\ at \in {"files", "connect", "removeDir", "unconfig"} => on = Router
    /\ at \in InitStages => on = Router
    /\ at = "proxies" => on = Controller

ProvisionedInv ==
    /\ Provisioned
    /\ at = "files" => dirs[cmd.name] = Partial
    /\ at = "connect" => dirs[cmd.name] = cmd.from

(* What `init` has set up when it is at a stage.                           *)
InitSoFar ==
    cmd.op = "init" =>
        /\ at \in InitStages \cup {"create", "start"}
        /\ at \notin {"wipe", "site"} => siteConfig = cmd.site
        /\ at \notin {"wipe", "site", "layout"} => connections
        /\ at \in {"network", "create", "certs", "start"} =>
              config \in {InitialConfig(cmd.site, TRUE),
                          InitialConfig(cmd.site, FALSE)}
        /\ at \in {"create", "certs", "start"} => network
        /\ on = Controller \/ at \in {"certs", "start"} =>
              Exists(Router) /\ containers[Router].site = cmd.site
        /\ on = Controller /\ at = "start" =>
              Exists(Controller) /\ containers[Controller].site = cmd.site

OneSiteInv ==
    /\ OneSite
    /\ InitSoFar
    /\ installed # NoUid =>
          /\ installed \in Uid
          /\ cmd.op \notin {"init", "delete"}
          /\ at \in {"stop", "remove", "create", "start"} => cmd.site = installed
          /\ at \in {"files", "connect"} => cmd.from # installed

(* Once the router has been started, it runs on what is in the file, and   *)
(* once the controller has been, both run.                                 *)
StartedInv ==
    /\ on = Controller
       /\ at \in {"inspect", "stop", "remove", "create", "start", "proxies"} =>
          Up(Router) /\ loaded = config
    /\ at = "proxies" => Up(Controller)
    /\ cmd.op # "none" => outcome = "none"

-----------------------------------------------------------------------------
(* Types. *)

TypeInv == TypeOK /\ Prepared

LEMMA NoCommandType == NoCommand \in Command
BY DEF NoCommand, Command, Op

LEMMA CommandType ==
    ASSUME NEW c \in Command
    PROVE  /\ [c EXCEPT !.errors = TRUE] \in Command
           /\ [c EXCEPT !.errors = TRUE].op = c.op
           /\ \A u \in Uid : /\ [c EXCEPT !.site = u] \in Command
                             /\ [c EXCEPT !.site = u].op = c.op
                             /\ [c EXCEPT !.site = u].site = u
BY DEF Command

LEMMA ConfigType ==
    /\ \A u \in Uid, e \in BOOLEAN : InitialConfig(u, e) \in RouterConfig
    /\ \A c \in RouterConfig, n \in Name, i \in Issuer \cup {NoConnector} :
          [c EXCEPT !.connectors[n] = i] \in RouterConfig
BY DEF InitialConfig, RouterConfig

ContainersType == containers \in [Deployment -> Container \cup {NoContainer}]

LEMMA ContainerType ==
    ASSUME ContainersType, NEW d \in Deployment
    PROVE  /\ \A u \in Uid : Create(d, u) => ContainersType'
           /\ \A c : Exists(d) /\ Start(d, c) => ContainersType'
           /\ Exists(d) /\ Stop(d) => ContainersType'
           /\ Remove(d) => ContainersType'
           /\ Exists(d) => containers[d].site \in Uid
<1> USE DEF ContainersType
<1>1. \A u \in Uid : [site |-> u, up |-> FALSE] \in Container
  BY DEF Container
<1>2. \A c \in Container, b \in BOOLEAN :
         [c EXCEPT !.up = b] \in Container /\ c.site \in Uid
  BY DEF Container
<1> QED
  BY <1>1, <1>2 DEF Create, Start, Stop, Remove, Exists

(* An ended command needs nothing.                                         *)
LEMMA EndTypes ==
    ASSUME NEW r \in {"done", "failed"}, End(r)
    PROVE  /\ at' = "idle" /\ at' \in At /\ on' \in Deployment
           /\ cmd' \in Command /\ outcome' \in {"none", "done", "failed"}
           /\ Prepared'
BY NoCommandType DEF End, At, Deployment, Prepared, InitStages, RecreateStages,
   DeleteStages

LEMMA RefusedTypes ==
    ASSUME TypeInv, Refused, UNCHANGED <<tokens, installed>>
    PROVE  TypeInv'
<1>1. End("failed") /\ UNCHANGED <<faults, fileVars, engineVars, leaving>>
  BY DEF Refused
<1> QED
  BY <1>1, EndTypes DEF TypeInv, TypeOK, fileVars, engineVars

LEMMA FaultTypes ==
    ASSUME TypeInv, Fault
    PROVE  faults' \in 0..MaxFaults
BY ScaleAssumption DEF TypeInv, TypeOK, Fault

LEMMA TypeInit == Init => TypeInv
<1> SUFFICES ASSUME Init
             PROVE  TypeInv
  OBVIOUS
<1>1. TypeOK
  <2>1. faults \in 0..MaxFaults
    BY ScaleAssumption DEF Init, SiteInit
  <2>2. containers \in [Deployment -> Container \cup {NoContainer}]
    BY DEF Init, SiteInit, EngineInit
  <2> QED
    BY <2>1, <2>2, NoCommandType DEF Init, SiteInit, EngineInit, TypeOK, At,
       Deployment
<1>2. Prepared
  BY DEF Init, SiteInit, Prepared, InitStages, RecreateStages, DeleteStages
<1> QED
  BY <1>1, <1>2 DEF TypeInv

LEMMA TypeInitStep == TypeInv /\ InitStep => TypeInv'
<1> SUFFICES ASSUME TypeInv, InitStep
             PROVE  TypeInv'
  OBVIOUS
<1> USE DEF TypeInv
<1>1. CASE WipeHost
  <2>1. /\ at = "wipe" /\ at' = "site"
        /\ UNCHANGED <<on, cmd, outcome, engineVars, tokens, installed>>
    BY <1>1 DEF WipeHost, Go
  <2>2. /\ siteConfig' = NoFile /\ leaving' \subseteq Name
        /\ config' \in {config, NoFile}
    BY <1>1 DEF WipeHost, Erased, PartlyErased
  <2>3. faults' \in 0..MaxFaults
    BY <1>1, FaultTypes DEF WipeHost, Go, TypeOK
  <2>4. /\ connections' \in BOOLEAN /\ ca' \in BOOLEAN /\ defined' \in BOOLEAN
    BY <1>1 DEF WipeHost, Erased, PartlyErased, TypeOK
  <2>5. dirs' \in [Name -> Issuer \cup {NoFile, Partial}]
    BY <1>1 DEF WipeHost, Erased, PartlyErased, TypeOK
  <2>6. TypeOK'
    BY <2>1, <2>2, <2>3, <2>4, <2>5 DEF TypeOK, engineVars, At
  <2>7. Prepared'
    BY <2>1 DEF Prepared, InitStages, RecreateStages, DeleteStages
  <2> QED
    BY <2>6, <2>7
<1>2. CASE WriteSiteConfig
  <2>1. TypeOK'
    BY <1>2
       DEF WriteSiteConfig, TypeOK, engineVars, At, Deployment, Go, Prepared,
           InitStages
  <2>2. Prepared'
    BY <1>2
       DEF WriteSiteConfig, TypeOK, Prepared, InitStages, RecreateStages,
           DeleteStages, Deployment, Router, Controller, Go
  <2> QED
    BY <2>1, <2>2
<1>3. CASE MakeDirectories
  <2>1. /\ connections' \in BOOLEAN /\ defined' \in BOOLEAN
        /\ UNCHANGED <<siteConfig, dirs, config, ca, engineVars, tokens, leaving,
                      installed, faults>>
        /\ End("failed") \/ Go("config")
    BY <1>3 DEF MakeDirectories, Go, TypeOK
  <2>2. CASE End("failed")
    BY <2>1, <2>2, EndTypes DEF TypeOK, engineVars
  <2>3. CASE Go("config")
    <3>1. TypeOK'
      BY <2>1, <2>3 DEF Go, TypeOK, engineVars, At
    <3>2. Prepared'
      BY <1>3, <2>3 DEF MakeDirectories, Go, Prepared, InitStages,
         RecreateStages, DeleteStages
    <3> QED
      BY <3>1, <3>2
  <2> QED
    BY <2>1, <2>2, <2>3
<1>4. CASE WriteRouterConfig
  <2>1. TypeOK'
    BY <1>4, ConfigType, ScaleAssumption
       DEF WriteRouterConfig, TypeOK, engineVars, At, Deployment, Go, Prepared,
           InitStages
  <2>2. Prepared'
    BY <1>4, ConfigType, ScaleAssumption
       DEF WriteRouterConfig, TypeOK, Prepared, InitStages, RecreateStages,
           DeleteStages, Deployment, Router, Controller, Go
  <2> QED
    BY <2>1, <2>2
<1>5. CASE CreateNetwork
  <2>1. CASE Refused
    BY <1>5, <2>1, RefusedTypes DEF CreateNetwork
  <2>2. CASE ~Refused
    <3>1. TypeOK'
      BY <1>5, <2>2 DEF CreateNetwork, TypeOK, fileVars, engineVars, At, Go
    <3>2. Prepared'
      BY <1>5, <2>2
         DEF CreateNetwork, TypeOK, Prepared, InitStages, RecreateStages,
             DeleteStages, Deployment, Router, Controller, Go
    <3> QED
      BY <3>1, <3>2
  <2> QED
    BY <2>1, <2>2
<1>6. CASE CreateContainer
  <2>1. CASE Refused
    BY <1>6, <2>1, RefusedTypes DEF CreateContainer
  <2>2. CASE ~Refused
    <3>1. TypeOK'
      BY <1>6, <2>2, ContainerType
         DEF CreateContainer, TypeOK, fileVars, engineVars, At, Deployment, Go,
             Prepared, ContainersType
    <3>2. Prepared'
      BY <1>6, <2>2, ContainerType
         DEF CreateContainer, TypeOK, Prepared, InitStages, RecreateStages,
             DeleteStages, Deployment, Router, Controller, Go
    <3> QED
      BY <3>1, <3>2
  <2> QED
    BY <2>1, <2>2
<1>7. CASE MakeCertificates
  <2>0. faults' \in 0..MaxFaults /\ ca' \in BOOLEAN
    BY <1>7, FaultTypes DEF MakeCertificates, TypeOK
  <2>3. /\ at' = "start"
        /\ UNCHANGED <<siteConfig, connections, dirs, config, defined, engineVars,
                      tokens, on, cmd, outcome, leaving, installed>>
    BY <1>7 DEF MakeCertificates
  <2>1. TypeOK'
    BY <2>0, <2>3 DEF TypeOK, engineVars, At
  <2>2. Prepared'
    BY <1>7, FaultTypes
       DEF MakeCertificates, TypeOK, Prepared, InitStages, RecreateStages,
           DeleteStages, Deployment, Router, Controller, Fault
  <2> QED
    BY <2>1, <2>2
<1>8. CASE StartContainer
  <2>1. CASE ~StartAllowed(on)
    BY <1>8, <2>1, RefusedTypes DEF StartContainer
  <2>2. CASE StartAllowed(on)
    <3>1. TypeOK'
      BY <1>8, <2>2, ContainerType, EndTypes
         DEF StartContainer, TypeOK, fileVars, engineVars, At, Deployment,
             GoOn, Prepared, ContainersType, StartAllowed, Start
    <3>2. Prepared'
      BY <1>8, <2>2, ContainerType, EndTypes
         DEF StartContainer, TypeOK, Prepared, InitStages, RecreateStages,
             DeleteStages, Deployment, Router, Controller, GoOn, StartAllowed
    <3> QED
      BY <3>1, <3>2
  <2> QED
    BY <2>1, <2>2
<1> QED
  BY <1>1, <1>2, <1>3, <1>4, <1>5, <1>6, <1>7, <1>8 DEF InitStep

LEMMA TypeDeleteStep == TypeInv /\ DeleteStep => TypeInv'
<1> SUFFICES ASSUME TypeInv, DeleteStep
             PROVE  TypeInv'
  OBVIOUS
<1> USE DEF TypeInv
<1>1. CASE DeleteStop
  <2>1. TypeOK'
    BY <1>1, ContainerType, CommandType, FaultTypes
       DEF DeleteStop, TypeOK, fileVars, At, Deployment, ContainersType,
           NextContainer, Report, Controller, Router
  <2>2. Prepared'
    BY <1>1, ContainerType, CommandType, FaultTypes
       DEF DeleteStop, TypeOK, Prepared, InitStages, RecreateStages,
           DeleteStages, Deployment, Router, Controller, NextContainer, Report,
           Fault
  <2> QED
    BY <2>1, <2>2
<1>2. CASE DeleteRemove
  <2>1. TypeOK'
    BY <1>2, ContainerType, CommandType, FaultTypes
       DEF DeleteRemove, TypeOK, fileVars, At, Deployment, ContainersType,
           NextContainer, Report, Remove, Router, Controller
  <2>2. Prepared'
    BY <1>2, ContainerType, CommandType, FaultTypes
       DEF DeleteRemove, TypeOK, Prepared, InitStages, RecreateStages,
           DeleteStages, Deployment, Router, Controller, NextContainer, Report
  <2> QED
    BY <2>1, <2>2
<1>3. CASE DeleteNetwork
  <2>0. faults' \in 0..MaxFaults /\ cmd' \in Command /\ network' \in BOOLEAN
    BY <1>3, CommandType, FaultTypes DEF DeleteNetwork, TypeOK, Report
  <2>1. TypeOK'
    BY <1>3, <2>0 DEF DeleteNetwork, TypeOK, fileVars, At
  <2>2. Prepared'
    BY <1>3, CommandType, FaultTypes
       DEF DeleteNetwork, TypeOK, Prepared, InitStages, RecreateStages,
           DeleteStages, Deployment, Router, Controller, Report
  <2> QED
    BY <2>1, <2>2
<1>4. CASE DeleteFiles
  <2>1. TypeOK'
    BY <1>4, EndTypes DEF DeleteFiles, TypeOK, engineVars, At, Erased
  <2>2. Prepared'
    BY <1>4, EndTypes
       DEF DeleteFiles, TypeOK, Prepared, InitStages, RecreateStages,
           DeleteStages, Deployment, Router, Controller
  <2> QED
    BY <2>1, <2>2
<1> QED
  BY <1>1, <1>2, <1>3, <1>4 DEF DeleteStep

LEMMA TypeConnectorStep == TypeInv /\ ConnectorStep => TypeInv'
<1> SUFFICES ASSUME TypeInv, ConnectorStep
             PROVE  TypeInv'
  OBVIOUS
<1> USE DEF TypeInv
<1>1. CASE WriteToken
  <2>1. TypeOK'
    BY <1>1
       DEF WriteToken, TypeOK, fileVars, engineVars, At, Deployment, Go,
           Prepared
  <2>2. Prepared'
    BY <1>1
       DEF WriteToken, TypeOK, Prepared, InitStages, RecreateStages,
           DeleteStages, Deployment, Router, Controller, Go
  <2> QED
    BY <2>1, <2>2
<1>2. CASE AddConnector
  <2>1. CASE Refused
    BY <1>2, <2>1, RefusedTypes DEF AddConnector
  <2>2. CASE ~Refused
    <3>1. TypeOK'
      BY <1>2, <2>2, ConfigType
         DEF AddConnector, TypeOK, fileVars, engineVars, At, Deployment, Go,
             Prepared, Configure, Readable
    <3>2. Prepared'
      BY <1>2, <2>2, ConfigType
         DEF AddConnector, TypeOK, Prepared, InitStages, RecreateStages,
             DeleteStages, Deployment, Router, Controller, Go, Configure,
             Readable
    <3> QED
      BY <3>1, <3>2
  <2> QED
    BY <2>1, <2>2
<1>3. CASE RemoveDirectory
  <2>1. TypeOK'
    BY <1>3
       DEF RemoveDirectory, TypeOK, fileVars, engineVars, At, Deployment, Go,
           Prepared
  <2>2. Prepared'
    BY <1>3
       DEF RemoveDirectory, TypeOK, Prepared, InitStages, RecreateStages,
           DeleteStages, Deployment, Router, Controller, Go
  <2> QED
    BY <2>1, <2>2
<1>4. CASE RemoveConnector
  <2>1. TypeOK'
    BY <1>4, ConfigType
       DEF RemoveConnector, TypeOK, fileVars, engineVars, At, Deployment, Go,
           Prepared, Configure, Readable
  <2>2. Prepared'
    BY <1>4, ConfigType
       DEF RemoveConnector, TypeOK, Prepared, InitStages, RecreateStages,
           DeleteStages, Deployment, Router, Controller, Go, Configure,
           Readable
  <2> QED
    BY <2>1, <2>2
<1>5. CASE InspectContainer
  <2>1. CASE Refused
    BY <1>5, <2>1, RefusedTypes DEF InspectContainer
  <2>2. CASE ~Refused
    <3>0. containers[on].site \in Uid /\ Exists(on)
      BY <1>5, <2>2, ContainerType DEF InspectContainer, TypeOK, ContainersType
    <3>1. /\ cmd' = [cmd EXCEPT !.site = containers[on].site] /\ at' = "stop"
          /\ UNCHANGED <<on, outcome, faults, fileVars, engineVars, leaving,
                        tokens, installed>>
          /\ at = "inspect"
      BY <1>5, <2>2 DEF InspectContainer
    <3>2. cmd' \in Command /\ cmd'.op = cmd.op /\ cmd'.site \in Uid
      BY <3>0, <3>1, CommandType DEF TypeOK
    <3>3. TypeOK'
      BY <3>1, <3>2 DEF TypeOK, fileVars, engineVars, At
    <3>4. Prepared'
      BY <3>0, <3>1, <3>2 DEF Prepared, InitStages, RecreateStages,
         DeleteStages, engineVars, Exists
    <3> QED
      BY <3>3, <3>4
  <2> QED
    BY <2>1, <2>2
<1>6. CASE StopContainer
  <2>1. TypeOK'
    BY <1>6, ContainerType
       DEF StopContainer, TypeOK, fileVars, engineVars, At, Deployment,
           ContainersType, Go, Prepared
  <2>2. Prepared'
    BY <1>6, ContainerType
       DEF StopContainer, TypeOK, Prepared, InitStages, RecreateStages,
           DeleteStages, Deployment, Router, Controller, Go
  <2> QED
    BY <2>1, <2>2
<1>7. CASE RemoveContainer
  <2>1. TypeOK'
    BY <1>7, ContainerType
       DEF RemoveContainer, TypeOK, fileVars, engineVars, At, ContainersType,
           Go, Remove
  <2>2. Prepared'
    BY <1>7, ContainerType
       DEF RemoveContainer, TypeOK, Prepared, InitStages, RecreateStages,
           DeleteStages, Deployment, Router, Controller, Go
  <2> QED
    BY <2>1, <2>2
<1>8. CASE CreateContainerAgain
  <2>1. CASE Refused
    BY <1>8, <2>1, RefusedTypes DEF CreateContainerAgain
  <2>2. CASE ~Refused
    <3>1. TypeOK'
      BY <1>8, <2>2, ContainerType
         DEF CreateContainerAgain, TypeOK, fileVars, engineVars, At,
             Deployment, ContainersType, Go, Prepared
    <3>2. Prepared'
      BY <1>8, <2>2, ContainerType
         DEF CreateContainerAgain, TypeOK, Prepared, InitStages,
             RecreateStages, DeleteStages, Deployment, Router, Controller, Go
    <3> QED
      BY <3>1, <3>2
  <2> QED
    BY <2>1, <2>2
<1>9. CASE StartContainerAgain
  <2>1. CASE Refused
    BY <1>9, <2>1, RefusedTypes DEF StartContainerAgain
  <2>2. CASE ~Refused
    <3>1. TypeOK'
      BY <1>9, <2>2, ContainerType
         DEF StartContainerAgain, TypeOK, fileVars, engineVars, At, Deployment,
             ContainersType, Go, GoOn, StartAllowed, Start
    <3>2. Prepared'
      BY <1>9, <2>2, ContainerType
         DEF StartContainerAgain, TypeOK, Prepared, InitStages, RecreateStages,
             DeleteStages, Deployment, Router, Controller, Go, GoOn
    <3> QED
      BY <3>1, <3>2
  <2> QED
    BY <2>1, <2>2
<1>10. CASE RestartProxies
  <2>1. TypeOK'
    BY <1>10, EndTypes DEF RestartProxies, TypeOK, fileVars, engineVars, At
  <2>2. Prepared'
    BY <1>10, EndTypes
       DEF RestartProxies, TypeOK, Prepared, InitStages, RecreateStages,
           DeleteStages, Deployment, Router, Controller
  <2> QED
    BY <2>1, <2>2
<1> QED
  BY <1>1, <1>2, <1>3, <1>4, <1>5, <1>6, <1>7, <1>8, <1>9, <1>10
     DEF ConnectorStep

LEMMA BeginTypes ==
    /\ \A u \in Uid : LET c == [NoCommand EXCEPT !.op = "init", !.site = u]
                      IN  c \in Command /\ c.op = "init" /\ c.site = u
    /\ LET c == [NoCommand EXCEPT !.op = "delete"]
       IN  c \in Command /\ c.op = "delete"
    /\ \A n \in Name, i \in Issuer :
          LET c == [NoCommand EXCEPT !.op = "connect", !.name = n, !.from = i]
          IN  c \in Command /\ c.op = "connect" /\ c.name = n /\ c.from = i
    /\ \A n \in Name :
          LET c == [NoCommand EXCEPT !.op = "disconnect", !.name = n]
          IN  c \in Command /\ c.op = "disconnect" /\ c.name = n
BY DEF NoCommand, Command, Op

LEMMA TypeOperator == TypeInv /\ Operator => TypeInv'
<1> SUFFICES ASSUME TypeInv, Operator
             PROVE  TypeInv'
  OBVIOUS
<1> USE DEF TypeInv
<1>1. CASE \E u \in Uid : InitSite(u)
  <2>1. PICK u \in Uid : InitSite(u)
    BY <1>1
  <2> DEFINE c == [NoCommand EXCEPT !.op = "init", !.site = u]
  <2>2. c \in Command /\ c.op = "init" /\ c.site = u
    BY BeginTypes
  <2>3. /\ cmd' = c /\ at' = "wipe" /\ on' = Router /\ outcome' = "none"
        /\ installed' = NoUid
        /\ UNCHANGED <<faults, fileVars, engineVars, tokens, leaving>>
    BY <2>1 DEF InitSite, Begin
  <2> HIDE DEF c
  <2>4. TypeOK'
    BY <2>2, <2>3 DEF TypeOK, fileVars, engineVars, At, Deployment
  <2>5. Prepared'
    BY <2>2, <2>3 DEF Prepared, InitStages, RecreateStages, DeleteStages
  <2> QED
    BY <2>4, <2>5
<1>2. CASE DeleteSite
  <2> DEFINE c == [NoCommand EXCEPT !.op = "delete"]
  <2>1. c \in Command /\ c.op = "delete"
    BY BeginTypes
  <2>2. /\ cmd' = c /\ at' = "deleteStop" /\ on' = Controller
        /\ outcome' = "none" /\ installed' = NoUid
        /\ UNCHANGED <<faults, fileVars, engineVars, tokens, leaving>>
    BY <1>2 DEF DeleteSite, Begin
  <2> HIDE DEF c
  <2>3. TypeOK'
    BY <2>1, <2>2 DEF TypeOK, fileVars, engineVars, At, Deployment
  <2>4. Prepared'
    BY <2>1, <2>2 DEF Prepared, InitStages, RecreateStages, DeleteStages
  <2> QED
    BY <2>3, <2>4
<1>3. CASE \E n \in Given \cup ({GeneratedName} \cap Name),
              i \in Peer \cup tokens : Connect(n, i)
  <2>1. PICK n \in Name, i \in Issuer : Connect(n, i)
    BY <1>3 DEF Name, Issuer, TypeOK
  <2> DEFINE c == [NoCommand EXCEPT !.op = "connect", !.name = n, !.from = i]
  <2>2. c \in Command /\ c.op = "connect" /\ c.name = n /\ c.from = i
    BY DEF NoCommand, Command, Op
  <2>3. /\ cmd' = c /\ at' = "files" /\ on' = Router /\ outcome' = "none"
        /\ dirs' = [dirs EXCEPT ![n] = Partial]
        /\ UNCHANGED <<siteConfig, connections, config, ca, defined, engineVars,
                      tokens, faults, leaving, installed>>
    BY <2>1 DEF Connect, Begin
  <2> HIDE DEF c
  <2>4. TypeOK'
    BY <2>2, <2>3 DEF TypeOK, engineVars, At, Deployment
  <2>5. Prepared'
    BY <2>2, <2>3 DEF Prepared, InitStages, RecreateStages, DeleteStages
  <2> QED
    BY <2>4, <2>5
<1>4. CASE \E n \in Name : Disconnect(n)
  <2>1. PICK n \in Name : Disconnect(n)
    BY <1>4
  <2> DEFINE c == [NoCommand EXCEPT !.op = "disconnect", !.name = n]
  <2>2. c \in Command /\ c.op = "disconnect" /\ c.name = n
    BY BeginTypes
  <2>3. /\ cmd' = c /\ at' \in {"inspect", "removeDir"} /\ on' = Router
        /\ outcome' = "none" /\ Readable(config)
        /\ UNCHANGED <<faults, fileVars, engineVars, tokens, leaving, installed>>
    BY <2>1 DEF Disconnect, Begin
  <2> HIDE DEF c
  <2>4. TypeOK'
    BY <2>2, <2>3 DEF TypeOK, fileVars, engineVars, At, Deployment
  <2>5. Prepared'
    BY <2>2, <2>3 DEF Prepared, InitStages, RecreateStages, DeleteStages,
       fileVars, Readable
  <2> QED
    BY <2>4, <2>5
<1>5. CASE ConnectorTokenCreate
  <2>1. TypeOK'
    BY <1>5 DEF ConnectorTokenCreate, TypeOK, fileVars, engineVars, cmdVars
  <2>2. Prepared'
    BY <1>5 DEF ConnectorTokenCreate, Prepared, cmdVars, Exists, Readable
  <2> QED
    BY <2>1, <2>2
<1> QED
  BY <1>1, <1>2, <1>3, <1>4, <1>5 DEF Operator

LEMMA CutShortTypes ==
    ASSUME TypeInv, CutShort
    PROVE  /\ siteConfig' \in Uid \cup {NoFile, Torn}
           /\ connections' \in BOOLEAN
           /\ dirs' \in [Name -> Issuer \cup {NoFile, Partial}]
           /\ config' \in RouterConfig \cup {NoFile, Torn}
           /\ ca' \in BOOLEAN
           /\ defined' \in BOOLEAN
           /\ leaving' \subseteq Name
<1>1. CASE at \in {"wipe", "deleteFiles"} /\ PartlyErased /\ leaving' = Name
  <2>1. /\ ca' \in BOOLEAN /\ defined' \in BOOLEAN /\ connections' \in BOOLEAN
    BY <1>1 DEF TypeInv, TypeOK, PartlyErased
  <2> QED
    BY <1>1, <2>1 DEF TypeInv, TypeOK, PartlyErased
<1>2. CASE ~(at \in {"wipe", "deleteFiles"} /\ PartlyErased /\ leaving' = Name)
  BY <1>2 DEF TypeInv, TypeOK, CutShort, Prepared
<1> QED
  BY <1>1, <1>2

LEMMA TypeOther ==
    TypeInv /\ (Abort \/ Define \/ Attach \/ Detach \/ UNCHANGED vars) => TypeInv'
<1> SUFFICES ASSUME TypeInv,
                    Abort \/ Define \/ Attach \/ Detach \/ UNCHANGED vars
             PROVE  TypeInv'
  OBVIOUS
<1> USE DEF TypeInv
<1>1. CASE Abort
  <2>1. faults' \in 0..MaxFaults
    BY <1>1, FaultTypes DEF Abort
  <2>2. End("failed") /\ UNCHANGED <<engineVars, tokens, installed>>
    BY <1>1 DEF Abort
  <2>3. CASE CutShort
    BY <2>1, <2>2, <2>3, EndTypes, CutShortTypes DEF TypeOK, engineVars
  <2>4. CASE UNCHANGED <<fileVars, leaving>>
    BY <2>1, <2>2, <2>4, EndTypes DEF TypeOK, engineVars, fileVars
  <2> QED
    BY <1>1, <2>3, <2>4 DEF Abort
<1>2. CASE Define
  <2>1. TypeOK'
    BY <1>2 DEF Define, TypeOK, engineVars, cmdVars
  <2>2. Prepared'
    BY <1>2 DEF Define, Prepared, cmdVars, Exists, Readable
  <2> QED
    BY <2>1, <2>2
<1>3. CASE Attach
  <2>1. TypeOK'
    BY <1>3 DEF Attach, TypeOK, fileVars, cmdVars
  <2>2. Prepared'
    BY <1>3 DEF Attach, Prepared, fileVars, cmdVars, Exists, Readable
  <2> QED
    BY <2>1, <2>2
<1>4. CASE Detach
  <2>1. TypeOK'
    BY <1>4 DEF Detach, TypeOK, fileVars, cmdVars
  <2>2. Prepared'
    BY <1>4 DEF Detach, Prepared, fileVars, cmdVars, Exists, Readable
  <2> QED
    BY <2>1, <2>2
<1>5. CASE UNCHANGED vars
  <2>1. TypeOK'
    BY <1>5 DEF vars, TypeOK, fileVars, engineVars, cmdVars
  <2>2. Prepared'
    BY <1>5 DEF vars, Prepared, fileVars, engineVars, cmdVars, Exists, Readable
  <2> QED
    BY <2>1, <2>2
<1> QED
  BY <1>1, <1>2, <1>3, <1>4, <1>5

(* Types hold, and a step finds what it relies on: a command that is cut   *)
(* short leaves nothing that another would take for something else.        *)
THEOREM TypeCorrect == Spec => []TypeInv
<1>1. TypeInv /\ [Next]_vars => TypeInv'
  BY TypeOperator, TypeInitStep, TypeDeleteStep, TypeConnectorStep, TypeOther
     DEF Next, Step
<1> QED
  BY TypeInit, <1>1, PTL DEF Spec

(* In particular types do: what a command reads after others were cut      *)
(* short, whatever there was, it can have written itself.                  *)
THEOREM TypesHold == Spec => []TypeOK
BY TypeCorrect, PTL DEF TypeInv

-----------------------------------------------------------------------------
(* The credentials of the connectors. *)

LEMMA ProvisionedFrame ==
    ASSUME ProvisionedInv, UNCHANGED <<config, dirs, leaving>>,
           at' \notin {"files", "connect"} \/ UNCHANGED <<at, cmd>>
    PROVE  ProvisionedInv'
BY DEF ProvisionedInv, Provisioned, Readable

(* The steps that change the configuration, a directory or what is excused. *)
ConnectorChange ==
    \/ WipeHost \/ WriteRouterConfig \/ DeleteFiles
    \/ \E n \in Name, i \in Issuer : Connect(n, i)
    \/ WriteToken \/ (AddConnector /\ Readable(config))
    \/ RemoveDirectory \/ RemoveConnector
    \/ (Abort /\ CutShort)

LEMMA OtherSteps ==
    ASSUME TypeInv, [Next]_vars, ~ConnectorChange
    PROVE  /\ UNCHANGED <<config, dirs, leaving>>
           /\ at' \notin {"files", "connect"} \/ UNCHANGED <<at, cmd>>
<1>1. CASE InitStep
  BY <1>1 DEF InitStep, ConnectorChange, WriteSiteConfig, MakeDirectories,
     CreateNetwork, CreateContainer, MakeCertificates, StartContainer, Go, GoOn,
     End, Refused, fileVars
<1>2. CASE DeleteStep
  BY <1>2 DEF DeleteStep, ConnectorChange, DeleteStop, DeleteRemove,
     DeleteNetwork, NextContainer, fileVars
<1>3. CASE ConnectorStep
  BY <1>3 DEF ConnectorStep, ConnectorChange, AddConnector, InspectContainer,
     StopContainer, RemoveContainer, CreateContainerAgain, StartContainerAgain,
     RestartProxies, Go, GoOn, End, Refused, fileVars
<1>4. CASE Operator
  <2>1. CASE \E u \in Uid : InitSite(u)
    BY <2>1 DEF InitSite, Begin, fileVars
  <2>2. CASE DeleteSite
    BY <2>2 DEF DeleteSite, Begin, fileVars
  <2>3. CASE \E n \in Given \cup ({GeneratedName} \cap Name),
                i \in Peer \cup tokens : Connect(n, i)
    BY <2>3 DEF ConnectorChange, Name, Issuer, TypeInv, TypeOK
  <2>4. CASE \E n \in Name : Disconnect(n)
    BY <2>4 DEF Disconnect, Begin, fileVars
  <2>5. CASE ConnectorTokenCreate
    BY <2>5 DEF ConnectorTokenCreate, fileVars, cmdVars
  <2> QED
    BY <1>4, <2>1, <2>2, <2>3, <2>4, <2>5 DEF Operator
<1>5. CASE Abort
  BY <1>5 DEF Abort, ConnectorChange, End, fileVars
<1>6. CASE Define \/ Attach \/ Detach \/ UNCHANGED vars
  BY <1>6 DEF Define, Attach, Detach, vars, fileVars, cmdVars
<1> QED
  BY <1>1, <1>2, <1>3, <1>4, <1>5, <1>6 DEF Next, Step

(* A connector is in the configuration only if its directory is there: so  *)
(* none is where a directory is new or still incomplete.                   *)
LEMMA NoConnectorYet ==
    ASSUME TypeInv, ProvisionedInv, Readable(config),
           NEW n \in Name \ leaving, dirs[n] \in {NoFile, Partial}
    PROVE  config.connectors[n] = NoConnector
<1>1. config.connectors[n] \in Issuer \cup {NoConnector}
  BY DEF TypeInv, TypeOK, RouterConfig, Readable
<1> QED
  BY <1>1, DistinctAssumption DEF ProvisionedInv, Provisioned

LEMMA ProvisionedStep ==
    TypeInv /\ ProvisionedInv /\ [Next]_vars => ProvisionedInv'
<1> SUFFICES ASSUME TypeInv, ProvisionedInv, [Next]_vars
             PROVE  ProvisionedInv'
  OBVIOUS
<1> USE DEF ProvisionedInv, Provisioned
<1>1. CASE WipeHost
  <2>1. at' = "site" /\ (leaving' = Name \/ config' = NoFile)
    BY <1>1 DEF WipeHost, Erased, Go
  <2> QED
    BY <2>1 DEF Readable
<1>2. CASE WriteRouterConfig
  BY <1>2 DEF WriteRouterConfig, InitialConfig, Go, Readable
<1>3. CASE DeleteFiles
  BY <1>3 DEF DeleteFiles, Erased, End, Readable
<1>4. CASE \E n \in Name, i \in Issuer : Connect(n, i)
  <2>1. PICK n \in Name, i \in Issuer : Connect(n, i)
    BY <1>4
  <2>2. /\ dirs[n] = NoFile /\ dirs' = [dirs EXCEPT ![n] = Partial]
        /\ at' = "files" /\ cmd'.name = n
        /\ UNCHANGED <<config, leaving>>
    BY <2>1 DEF Connect, Begin, NoCommand
  <2>3. Readable(config) /\ n \notin leaving => config.connectors[n] = NoConnector
    BY <2>2, NoConnectorYet
  <2> QED
    BY <2>2, <2>3 DEF TypeInv, TypeOK, Readable
<1>5. CASE WriteToken
  <2>1. /\ dirs[cmd.name] = Partial /\ dirs' = [dirs EXCEPT ![cmd.name] = cmd.from]
        /\ at' = "connect" /\ cmd.name \in Name
        /\ UNCHANGED <<config, leaving, cmd>>
    BY <1>5 DEF WriteToken, Go, TypeInv, Prepared
  <2>2. Readable(config) /\ cmd.name \notin leaving =>
           config.connectors[cmd.name] = NoConnector
    BY <2>1, NoConnectorYet
  <2> QED
    BY <2>1, <2>2 DEF TypeInv, TypeOK, Readable
<1>6. CASE AddConnector /\ Readable(config)
  <2>1. /\ Readable(config) /\ config \in RouterConfig /\ cmd.name \in Name
        /\ dirs[cmd.name] = cmd.from
        /\ config' = [config EXCEPT !.connectors[cmd.name] = cmd.from]
        /\ leaving' = leaving \ {cmd.name} /\ dirs' = dirs /\ at' = "inspect"
    BY <1>6 DEF AddConnector, Go, TypeInv, TypeOK, Prepared, Configure, Readable
  <2>2. \A n \in Name : config'.connectors[n] =
           IF n = cmd.name THEN cmd.from ELSE config.connectors[n]
    BY <2>1 DEF RouterConfig
  <2> QED
    BY <2>1, <2>2
<1>7. CASE RemoveDirectory
  <2>1. /\ cmd.name \in Name /\ dirs' = [dirs EXCEPT ![cmd.name] = NoFile]
        /\ leaving' = leaving \cup {cmd.name} /\ config' = config
        /\ at' = "unconfig"
    BY <1>7 DEF RemoveDirectory, Go, TypeInv, Prepared
  <2> QED
    BY <2>1 DEF TypeInv, TypeOK, Readable
<1>8. CASE RemoveConnector
  <2>1. /\ Readable(config) /\ config \in RouterConfig /\ cmd.name \in Name
        /\ config' = [config EXCEPT !.connectors[cmd.name] = NoConnector]
        /\ leaving' = leaving \ {cmd.name} /\ dirs' = dirs /\ at' = "inspect"
    BY <1>8
       DEF RemoveConnector, Go, TypeInv, TypeOK, Prepared, Configure, Readable
  <2>2. \A n \in Name : config'.connectors[n] =
           IF n = cmd.name THEN NoConnector ELSE config.connectors[n]
    BY <2>1 DEF RouterConfig
  <2> QED
    BY <2>1, <2>2
<1>9. CASE Abort /\ CutShort
  <2>1. at' = "idle"
    BY <1>9 DEF Abort, End
  <2>2. CASE leaving' = Name
    BY <2>1, <2>2
  <2>3. CASE config' = Torn
    BY <2>1, <2>3 DEF Readable
  <2>4. CASE at = "removeDir" /\ ~(leaving' = Name) /\ ~(config' = Torn)
    BY <1>9, <2>1, <2>4 DEF CutShort, TypeInv, TypeOK, Readable, Prepared
  <2>5. CASE at \in {"site", "layout"}
    BY <1>9, <2>1, <2>5 DEF CutShort, Readable
  <2> QED
    BY <1>9, <2>2, <2>3, <2>4, <2>5 DEF CutShort
<1>10. CASE ~ConnectorChange
  BY <1>10, OtherSteps, ProvisionedFrame
<1> QED
  BY <1>1, <1>2, <1>3, <1>4, <1>5, <1>6, <1>7, <1>8, <1>9, <1>10
     DEF ConnectorChange

(* However commands fail and whichever names are used again, the router's  *)
(* configuration never has a connector next to another site's credentials, *)
(* or next to none, except where a removal was interrupted.                *)
THEOREM ProvisionedHolds == Spec => []Provisioned
<1>1. Init => ProvisionedInv
  BY DEF Init, SiteInit, ProvisionedInv, Provisioned, Readable
<1>2. ProvisionedInv => Provisioned
  BY DEF ProvisionedInv
<1> QED
  BY TypeCorrect, <1>1, ProvisionedStep, <1>2, PTL DEF Spec

-----------------------------------------------------------------------------
(* The identity of an installed site. *)

OneSiteVars == <<siteConfig, connections, config, containers, network>>

LEMMA OneSiteFrame ==
    ASSUME OneSiteInv, UNCHANGED OneSiteVars, UNCHANGED installed,
           UNCHANGED <<at, on, cmd>> \/ (at' = "idle" /\ cmd'.op = "none")
    PROVE  OneSiteInv'
<1>1. OneSite'
  BY DEF OneSiteInv, OneSite, OneSiteVars, Exists, Readable
<1>2. InitSoFar'
  BY DEF OneSiteInv, InitSoFar, OneSiteVars, Exists
<1> QED
  BY <1>1, <1>2 DEF OneSiteInv

LEMMA NotInstalled ==
    ASSUME cmd'.op # "init", installed' = NoUid
    PROVE  OneSiteInv'
BY DEF OneSiteInv, OneSite, InitSoFar

LEMMA RefusedSite ==
    ASSUME OneSiteInv, Refused, UNCHANGED installed
    PROVE  OneSiteInv'
BY OneSiteFrame DEF Refused, End, NoCommand, fileVars, engineVars, OneSiteVars

(* What a container is after each call.                                    *)
LEMMA ContainerAfter ==
    ASSUME ContainersType, NEW d \in Deployment
    PROVE  /\ \A u \in Uid : Create(d, u) =>
                 /\ Exists(d)' /\ containers'[d].site = u
                 /\ \A e \in Deployment \ {d} : containers'[e] = containers[e]
           /\ \A c : Exists(d) /\ Start(d, c) =>
                 /\ Exists(d)' /\ Up(d)' /\ containers'[d].site = containers[d].site
                 /\ \A e \in Deployment \ {d} : containers'[e] = containers[e]
           /\ Exists(d) /\ Stop(d) =>
                 /\ Exists(d)' /\ containers'[d].site = containers[d].site
                 /\ \A e \in Deployment \ {d} : containers'[e] = containers[e]
           /\ Remove(d) =>
                 /\ ~Exists(d)'
                 /\ \A e \in Deployment \ {d} : containers'[e] = containers[e]
<1> USE DEF ContainersType
<1>1. \A k \in Container : k # NoContainer
  BY DistinctAssumption
<1>2. \A u \in Uid : LET k == [site |-> u, up |-> FALSE]
                    IN  k \in Container /\ k.site = u
  BY DEF Container
<1>3. \A c \in Container, b \in BOOLEAN : LET k == [c EXCEPT !.up = b]
         IN k \in Container /\ k.site = c.site /\ k.up = b
  BY DEF Container
<1>4. \A u \in Uid : Create(d, u) =>
                 /\ Exists(d)' /\ containers'[d].site = u
                 /\ \A e \in Deployment \ {d} : containers'[e] = containers[e]
  BY <1>1, <1>2 DEF Create, Exists
<1>5. ASSUME Exists(d), NEW b \in BOOLEAN,
             containers' = [containers EXCEPT ![d].up = b]
      PROVE  /\ Exists(d)' /\ containers'[d].site = containers[d].site
             /\ containers'[d].up = b
             /\ \A e \in Deployment \ {d} : containers'[e] = containers[e]
  <2>1. containers[d] \in Container
    BY <1>5 DEF Exists
  <2>2. containers'[d] = [containers[d] EXCEPT !.up = b]
    BY <1>5
  <2>3. containers'[d] \in Container /\ containers'[d].site = containers[d].site
        /\ containers'[d].up = b
    BY <1>3, <2>1, <2>2
  <2> QED
    BY <1>1, <1>5, <2>3 DEF Exists
<1>6. Remove(d) =>
         /\ ~Exists(d)'
         /\ \A e \in Deployment \ {d} : containers'[e] = containers[e]
  BY DEF Remove, Exists
<1> QED
  BY <1>4, <1>5, <1>6 DEF Start, Stop, Up

LEMMA OneSiteInitStep == TypeInv /\ OneSiteInv /\ InitStep => OneSiteInv'
<1> SUFFICES ASSUME TypeInv, OneSiteInv, InitStep
             PROVE  OneSiteInv'
  OBVIOUS
<1>1. cmd.op = "init" /\ installed = NoUid /\ InitSoFar /\ cmd.site \in Uid
  BY DEF InitStep, WipeHost, WriteSiteConfig, MakeDirectories,
     WriteRouterConfig, CreateNetwork, CreateContainer, MakeCertificates,
     StartContainer, TypeInv, Prepared, InitStages, OneSiteInv
<1>2. ASSUME installed' = NoUid, InitSoFar'
      PROVE  OneSiteInv'
  BY <1>2 DEF OneSiteInv, OneSite
<1>c. ContainersType /\ on \in Deployment /\ Router # Controller
      /\ Router \in Deployment /\ Controller \in Deployment
  BY DEF TypeInv, TypeOK, ContainersType, Deployment, Router, Controller
<1>3. CASE WipeHost
  BY <1>1, <1>2, <1>3
     DEF WipeHost, Go, InitSoFar, TypeInv, Prepared, InitStages, Router,
         Controller
<1>4. CASE WriteSiteConfig
  BY <1>1, <1>2, <1>4 DEF WriteSiteConfig, Go, InitSoFar, TypeInv, Prepared,
     InitStages, Router, Controller
<1>5. CASE MakeDirectories
  <2>1. /\ at = "layout" /\ on = Router
        /\ UNCHANGED <<siteConfig, installed>>
        /\ End("failed") \/ (connections' /\ Go("config"))
    BY <1>5 DEF MakeDirectories, TypeInv, Prepared, InitStages
  <2>2. CASE End("failed")
    BY <1>1, <2>1, <2>2, NotInstalled DEF End, NoCommand
  <2>3. CASE connections' /\ Go("config")
    BY <1>1, <1>2, <2>1, <2>3 DEF Go, InitSoFar, InitStages, Router, Controller
  <2> QED
    BY <2>1, <2>2, <2>3
<1>6. CASE WriteRouterConfig
  <2>1. config' \in {InitialConfig(cmd.site, TRUE), InitialConfig(cmd.site, FALSE)}
    BY <1>6, ScaleAssumption DEF WriteRouterConfig
  <2>2. /\ at = "config" /\ at' = "network" /\ on = Router
        /\ UNCHANGED <<on, cmd, siteConfig, connections, installed>>
    BY <1>6 DEF WriteRouterConfig, Go, TypeInv, Prepared, InitStages
  <2> QED
    BY <1>1, <1>2, <2>1, <2>2 DEF InitSoFar, InitStages, Router, Controller
<1>7. CASE CreateNetwork
  <2>1. CASE Refused
    BY <1>7, <2>1, RefusedSite DEF CreateNetwork
  <2>2. CASE ~Refused
    <3>1. /\ at = "network" /\ at' = "create" /\ on = Router /\ network' = TRUE
          /\ UNCHANGED <<on, cmd, siteConfig, connections, config, installed>>
      BY <1>7, <2>2
         DEF CreateNetwork, Go, fileVars, TypeInv, Prepared, InitStages
    <3> QED
      BY <1>1, <1>2, <3>1 DEF InitSoFar, InitStages, Router, Controller
  <2> QED
    BY <2>1, <2>2
<1>8. CASE CreateContainer
  <2>1. CASE Refused
    BY <1>8, <2>1, RefusedSite DEF CreateContainer
  <2>2. CASE ~Refused
    <3>1. /\ at = "create" /\ at' = IF on = Router THEN "certs" ELSE "start"
          /\ Create(on, cmd.site)
          /\ UNCHANGED <<on, cmd, fileVars, network, installed>>
      BY <1>8, <2>2 DEF CreateContainer, Go
    <3>2. /\ Exists(on)' /\ containers'[on].site = cmd.site
          /\ \A e \in Deployment \ {on} : containers'[e] = containers[e]
      BY <1>1, <1>c, <3>1, ContainerAfter
    <3>3. on \in {Router, Controller}
      BY <1>c DEF Deployment
    <3> QED
      BY <1>1, <1>2, <1>c, <3>1, <3>2, <3>3
         DEF InitSoFar, InitStages, fileVars, Exists
  <2> QED
    BY <2>1, <2>2
<1>9. CASE MakeCertificates
  BY <1>1, <1>2, <1>9 DEF MakeCertificates, engineVars, InitSoFar, InitStages,
     TypeInv, Prepared, Exists, Router, Controller
<1>10. CASE StartContainer
  <2>1. CASE Refused /\ UNCHANGED installed
    BY <2>1, RefusedSite
  <2>2. CASE ~(Refused /\ UNCHANGED installed)
    <3>1. /\ at = "start" /\ StartAllowed(on) /\ Start(on, config)
          /\ UNCHANGED <<fileVars, network>>
      BY <1>10, <2>2 DEF StartContainer
    <3>2. /\ containers'[on] # NoContainer
          /\ containers'[on].site = containers[on].site
          /\ \A e \in Deployment \ {on} : containers'[e] = containers[e]
      <4>1. Exists(on) /\ Start(on, config)
        BY <3>1 DEF StartAllowed
      <4> QED
        BY <1>c, <4>1, ContainerAfter DEF Exists
    <3>3. \A d \in Deployment : Exists(d)' => Exists(d)
      BY <1>c, <3>1, <3>2 DEF StartAllowed, Exists
    <3>4. Exists(Router)' /\ containers'[Router].site = cmd.site
      <4>1. Exists(Router) /\ containers[Router].site = cmd.site
        BY <1>1, <3>1 DEF InitSoFar
      <4> QED
        BY <1>c, <3>2, <4>1 DEF Exists
    <3>5. CASE on = Router /\ GoOn("create", Controller) /\ UNCHANGED installed
      BY <1>1, <1>2, <1>c, <3>1, <3>4, <3>5
         DEF InitSoFar, InitStages, GoOn, fileVars
    <3>6. CASE on = Controller /\ End("done") /\ installed' = cmd.site
      <4>1. Exists(Controller)' /\ containers'[Controller].site = cmd.site
        <5>1. containers[Controller].site = cmd.site
          BY <1>1, <3>1, <3>6 DEF InitSoFar
        <5> QED
          BY <3>2, <3>6, <5>1 DEF Exists
      <4>2. /\ siteConfig' = installed' /\ network' /\ connections'
            /\ config' \in {InitialConfig(cmd.site, TRUE),
                            InitialConfig(cmd.site, FALSE)}
        BY <1>1, <3>1, <3>6 DEF InitSoFar, fileVars, InitStages
      <4>3. cmd.site # NoConnector
        BY <1>1, DistinctAssumption DEF Issuer
      <4>4. OneSite'
        BY <3>4, <3>6, <4>1, <4>2, <4>3 DEF OneSite, InitialConfig, Deployment
      <4>5. cmd'.op = "none" /\ at' = "idle"
        BY <3>6 DEF End, NoCommand
      <4> QED
        BY <1>1, <3>6, <4>4, <4>5 DEF OneSiteInv, InitSoFar
    <3> QED
      BY <1>10, <2>2, <3>5, <3>6 DEF StartContainer
  <2> QED
    BY <2>1, <2>2
<1> QED
  BY <1>3, <1>4, <1>5, <1>6, <1>7, <1>8, <1>9, <1>10 DEF InitStep

LEMMA OneSiteConnectorStep ==
    TypeInv /\ OneSiteInv /\ ConnectorStep => OneSiteInv'
<1> SUFFICES ASSUME TypeInv, OneSiteInv, ConnectorStep
             PROVE  OneSiteInv'
  OBVIOUS
<1>1. /\ cmd.op \in {"connect", "disconnect"}
      /\ cmd'.op \in {"connect", "disconnect", "none"}
      /\ installed' = installed
  <2>1. cmd.op \in {"connect", "disconnect"} /\ installed' = installed
    BY DEF ConnectorStep, WriteToken, AddConnector, RemoveDirectory,
       RemoveConnector, InspectContainer, StopContainer, RemoveContainer,
       CreateContainerAgain, StartContainerAgain, RestartProxies, TypeInv,
       Prepared, RecreateStages
  <2>2. cmd \in Command
    BY DEF TypeInv, TypeOK
  <2>3. cmd' = cmd \/ cmd' = NoCommand
        \/ (at = "inspect" /\ cmd' = [cmd EXCEPT !.site = containers[on].site])
    BY DEF ConnectorStep, WriteToken, AddConnector, RemoveDirectory,
       RemoveConnector, InspectContainer, StopContainer, RemoveContainer,
       CreateContainerAgain, StartContainerAgain, RestartProxies, Go, GoOn, End,
       Refused
  <2> QED
    BY <2>1, <2>2, <2>3 DEF NoCommand, Command
<1>2. CASE installed = NoUid
  BY <1>1, <1>2, NotInstalled
<1>3. CASE installed # NoUid
  <2>0. /\ ContainersType /\ on \in Deployment /\ installed \in Uid
        /\ cmd.name \in Name \cup {0}
    BY <1>3 DEF TypeInv, TypeOK, ContainersType, Command
  <2>s. /\ siteConfig = installed /\ network /\ connections
        /\ Readable(config) =>
              /\ config.site = installed
              /\ \A n \in Name : config.connectors[n] # installed
        /\ \A d \in Deployment : Exists(d) => containers[d].site = installed
    BY <1>3 DEF OneSiteInv, OneSite
  <2>t. /\ at \in {"stop", "remove", "create", "start"} => cmd.site = installed
        /\ at \in {"files", "connect"} => cmd.from # installed
    BY <1>3 DEF OneSiteInv
  <2>1. CASE UNCHANGED OneSiteVars /\ UNCHANGED <<at, on, cmd>>
    BY <1>1, <2>1, OneSiteFrame
  <2>2. CASE Refused
    BY <1>1, <2>2, RefusedSite
  <2>3. CASE WriteToken
    BY <1>1, <1>3, <2>0, <2>3, <2>s, <2>t
       DEF WriteToken, Go, OneSiteInv, OneSite, InitSoFar, engineVars, Exists,
           Readable
  <2>4. CASE AddConnector /\ Readable(config)
    <3>1. /\ at = "connect" /\ at' = "inspect" /\ cmd' = cmd
          /\ config \in RouterConfig /\ cmd.name \in Name
          /\ config' = [config EXCEPT !.connectors[cmd.name] = cmd.from]
          /\ UNCHANGED <<siteConfig, connections, engineVars>>
      BY <2>4
         DEF AddConnector, Go, TypeInv, TypeOK, Prepared, Configure, Readable
    <3>2. /\ config'.site = config.site
          /\ \A n \in Name : config'.connectors[n] =
                IF n = cmd.name THEN cmd.from ELSE config.connectors[n]
      BY <3>1 DEF RouterConfig
    <3> QED
      BY <1>1, <1>3, <2>0, <2>4, <2>s, <2>t, <3>1, <3>2
         DEF OneSiteInv, OneSite, InitSoFar, engineVars, Exists
  <2>5. CASE RemoveDirectory
    BY <1>1, <1>3, <2>0, <2>5, <2>s
       DEF RemoveDirectory, Go, OneSiteInv, OneSite, InitSoFar, engineVars,
           Exists, Readable
  <2>6. CASE RemoveConnector
    <3>1. /\ at' = "inspect" /\ cmd' = cmd /\ Readable(config)
          /\ config \in RouterConfig /\ cmd.name \in Name
          /\ config' = [config EXCEPT !.connectors[cmd.name] = NoConnector]
          /\ UNCHANGED <<siteConfig, connections, engineVars>>
      BY <2>6 DEF RemoveConnector, Go, TypeInv, TypeOK, Prepared, Configure,
         Readable
    <3>2. /\ config'.site = config.site
          /\ \A n \in Name : config'.connectors[n] =
                IF n = cmd.name THEN NoConnector ELSE config.connectors[n]
      BY <3>1 DEF RouterConfig
    <3>3. NoConnector # installed
      BY <2>0, DistinctAssumption DEF Issuer
    <3> QED
      BY <1>1, <1>3, <2>0, <2>s, <3>1, <3>2, <3>3
         DEF OneSiteInv, OneSite, InitSoFar, engineVars, Exists
  <2>7. CASE InspectContainer /\ Exists(on)
    <3>1. /\ cmd' = [cmd EXCEPT !.site = containers[on].site] /\ at' = "stop"
          /\ UNCHANGED <<on, fileVars, engineVars>>
      BY <2>7 DEF InspectContainer
    <3>2. cmd'.site = installed
      BY <2>0, <2>7, <2>s, <3>1 DEF TypeInv, TypeOK, Command
    <3> QED
      BY <1>1, <1>3, <2>0, <2>s, <3>1, <3>2
         DEF OneSiteInv, OneSite, InitSoFar, fileVars, engineVars, Exists,
             Readable
  <2>8. CASE StopContainer
    <3>1. /\ at = "stop" /\ at' = "remove" /\ Stop(on) /\ Exists(on)
          /\ UNCHANGED <<cmd, fileVars, network>>
      BY <2>8 DEF StopContainer, Go, TypeInv, Prepared
    <3>2. \A d \in Deployment : Exists(d)' => containers'[d].site = installed
      BY <2>0, <2>s, <3>1, ContainerAfter DEF Exists
    <3> QED
      BY <1>1, <1>3, <2>0, <2>s, <2>t, <3>1, <3>2
         DEF OneSiteInv, OneSite, InitSoFar, fileVars, Readable
  <2>9. CASE RemoveContainer
    <3>1. /\ at = "remove" /\ at' = "create" /\ Remove(on)
          /\ UNCHANGED <<cmd, fileVars, network>>
      BY <2>9 DEF RemoveContainer, Go
    <3>2. \A d \in Deployment : Exists(d)' => containers'[d].site = installed
      BY <2>0, <2>s, <3>1, ContainerAfter DEF Exists
    <3> QED
      BY <1>1, <1>3, <2>0, <2>s, <2>t, <3>1, <3>2
         DEF OneSiteInv, OneSite, InitSoFar, fileVars, Readable
  <2>10. CASE CreateContainerAgain /\ ~Refused
    <3>1. /\ at = "create" /\ at' = "start" /\ Create(on, cmd.site)
          /\ UNCHANGED <<cmd, fileVars, network>>
      BY <2>10 DEF CreateContainerAgain, Go
    <3>2. \A d \in Deployment : Exists(d)' => containers'[d].site = installed
      BY <2>0, <2>s, <2>t, <3>1, ContainerAfter DEF Exists
    <3> QED
      BY <1>1, <1>3, <2>0, <2>s, <2>t, <3>1, <3>2
         DEF OneSiteInv, OneSite, InitSoFar, fileVars, Readable
  <2>11. CASE StartContainerAgain /\ ~Refused
    <3>1. /\ at' \in {"inspect", "proxies"} /\ StartAllowed(on) /\ Start(on, config)
          /\ UNCHANGED <<cmd, fileVars, network>>
      BY <2>11 DEF StartContainerAgain, Go, GoOn
    <3>2. \A d \in Deployment : Exists(d)' => containers'[d].site = installed
      BY <2>0, <2>s, <3>1, ContainerAfter DEF Exists, StartAllowed
    <3> QED
      BY <1>1, <1>3, <2>0, <2>s, <3>1, <3>2
         DEF OneSiteInv, OneSite, InitSoFar, fileVars, Readable
  <2>12. CASE RestartProxies
    BY <1>1, <2>12, OneSiteFrame DEF RestartProxies, End, NoCommand, fileVars,
       engineVars, OneSiteVars
  <2> QED
    BY <2>2, <2>3, <2>4, <2>5, <2>6, <2>7, <2>8, <2>9, <2>10, <2>11, <2>12
       DEF ConnectorStep, AddConnector, InspectContainer
<1> QED
  BY <1>2, <1>3

LEMMA OneSiteStep == TypeInv /\ OneSiteInv /\ [Next]_vars => OneSiteInv'
<1> SUFFICES ASSUME TypeInv, OneSiteInv, [Next]_vars
             PROVE  OneSiteInv'
  OBVIOUS
<1>1. CASE InitStep
  BY <1>1, OneSiteInitStep
<1>2. CASE DeleteStep
  <2>1. cmd.op = "delete" /\ installed' = installed
    BY <1>2
       DEF DeleteStep, DeleteStop, DeleteRemove, DeleteNetwork, DeleteFiles,
           TypeInv, Prepared, DeleteStages
  <2>2. cmd' \in {cmd, NoCommand, [cmd EXCEPT !.errors = TRUE]}
    BY <1>2
       DEF DeleteStep, DeleteStop, DeleteRemove, DeleteNetwork, DeleteFiles,
           End, Report
  <2>3. cmd'.op # "init"
    BY <2>1, <2>2 DEF NoCommand, TypeInv, TypeOK, Command
  <2>4. installed' = NoUid
    BY <2>1 DEF OneSiteInv
  <2> QED
    BY <2>3, <2>4, NotInstalled
<1>3. CASE ConnectorStep
  BY <1>3, OneSiteConnectorStep
<1>4. CASE \E u \in Uid : InitSite(u)
  BY <1>4, BeginTypes DEF InitSite, Begin, OneSiteInv, OneSite, InitSoFar,
     InitStages, Router, Controller
<1>5. CASE DeleteSite
  BY <1>5, NotInstalled, BeginTypes DEF DeleteSite, Begin
<1>6. CASE \E n \in Given \cup ({GeneratedName} \cap Name),
              i \in Peer \cup tokens : Connect(n, i)
  <2>1. PICK n \in Name, i \in Issuer : Connect(n, i)
    BY <1>6 DEF Name, Issuer, TypeInv, TypeOK
  <2>2. cmd'.op = "connect" /\ cmd'.from = i /\ at' = "files" /\ i # siteConfig
        /\ UNCHANGED <<siteConfig, connections, config, engineVars, installed>>
    BY <2>1 DEF Connect, Begin, NoCommand
  <2> QED
    BY <2>2 DEF OneSiteInv, OneSite, InitSoFar, engineVars, Exists, Readable
<1>7. CASE \E n \in Name : Disconnect(n)
  <2>1. PICK n \in Name : Disconnect(n)
    BY <1>7
  <2>2. cmd'.op = "disconnect" /\ at' \in {"inspect", "removeDir"}
        /\ UNCHANGED <<fileVars, engineVars, installed>>
    BY <2>1 DEF Disconnect, Begin, NoCommand
  <2> QED
    BY <2>2 DEF OneSiteInv, OneSite, InitSoFar, fileVars, engineVars, Exists,
       Readable
<1>8. CASE ConnectorTokenCreate \/ Define \/ Attach \/ Detach \/ UNCHANGED vars
  BY <1>8, OneSiteFrame DEF ConnectorTokenCreate, Define, Attach, Detach, vars,
     fileVars, engineVars, cmdVars, OneSiteVars
<1>9. CASE Abort
  <2>1. /\ cmd'.op = "none" /\ at' = "idle"
        /\ UNCHANGED <<engineVars, installed>>
    BY <1>9 DEF Abort, End, NoCommand
  <2>2. CASE UNCHANGED fileVars
    BY <2>1, <2>2, OneSiteFrame DEF fileVars, engineVars, OneSiteVars
  <2>3. CASE installed = NoUid
    BY <2>1, <2>3, NotInstalled
  <2>4. CASE CutShort /\ installed # NoUid
    <3>1. at \notin InitStages \cup DeleteStages
      BY <2>4 DEF OneSiteInv, TypeInv, Prepared
    <3>2. /\ UNCHANGED <<siteConfig, connections>>
          /\ config' = Torn \/ config' = config
      BY <2>4, <3>1 DEF CutShort, InitStages, DeleteStages
    <3>3. OneSite'
      BY <2>1, <2>4, <3>2 DEF OneSiteInv, OneSite, engineVars, Exists, Readable
    <3> QED
      BY <2>1, <2>4, <3>3 DEF OneSiteInv, InitSoFar
  <2> QED
    BY <1>9, <2>2, <2>3, <2>4 DEF Abort
<1> QED
  BY <1>1, <1>2, <1>3, <1>4, <1>5, <1>6, <1>7, <1>8, <1>9
     DEF Next, Step, Operator

(* A site that was installed stays one site, through every command that    *)
(* succeeds or fails, until the next `init` or `delete` begins.            *)
THEOREM OneSiteHolds == Spec => []OneSite
<1>1. Init => OneSiteInv
  BY DEF Init, SiteInit, NoCommand, OneSiteInv, OneSite, InitSoFar
<1>2. OneSiteInv => OneSite
  BY DEF OneSiteInv
<1> QED
  BY TypeCorrect, <1>1, OneSiteStep, <1>2, PTL DEF Spec

-----------------------------------------------------------------------------
(* What a success means. *)

EngineStages == RecreateStages \cup {"create", "start"}

LEMMA StartedFrame ==
    ASSUME StartedInv,
           \/ UNCHANGED <<containers, loaded, config, at, on, cmd, outcome>>
           \/ /\ at' \notin EngineStages \/ (on' = Router /\ at' # "proxies")
              /\ cmd'.op # "none" => outcome' = "none"
    PROVE  StartedInv'
BY DEF StartedInv, EngineStages, RecreateStages, Up, Exists, Router, Controller

LEMMA RefusedStarted ==
    ASSUME Refused
    PROVE  StartedInv'
BY DEF Refused, End, NoCommand, StartedInv

(* The calls that concern one container leave the other as it is.          *)
LEMMA StartedConnectorStep ==
    TypeInv /\ StartedInv /\ ConnectorStep => StartedInv'
<1> SUFFICES ASSUME TypeInv, StartedInv, ConnectorStep
             PROVE  StartedInv'
  OBVIOUS
<1>1. /\ ContainersType /\ on \in Deployment /\ Router # Controller
      /\ Deployment = {Router, Controller} /\ cmd \in Command
  BY DEF TypeInv, TypeOK, ContainersType, Deployment, Router, Controller
<1>2. /\ cmd.op # "none" => outcome = "none"
      /\ on = Controller /\ at \in EngineStages => Up(Router) /\ loaded = config
  BY DEF StartedInv, EngineStages, RecreateStages
<1>3. ASSUME NEW next, at' = next, UNCHANGED <<on, outcome, config>>,
             cmd'.op = cmd.op, next \in EngineStages \ {"proxies"},
             at \in EngineStages, loaded' = loaded \/ on = Router,
             \A d \in Deployment \ {on} : containers'[d] = containers[d]
      PROVE  StartedInv'
  <2>1. on = Controller => Up(Router)' /\ loaded' = config'
    BY <1>1, <1>2, <1>3 DEF Up, Exists
  <2> QED
    BY <1>2, <1>3, <2>1 DEF StartedInv
<1>4. CASE Refused
  BY <1>4, RefusedStarted
<1>5. CASE WriteToken
  BY <1>2, <1>5, StartedFrame DEF WriteToken, Go, EngineStages, RecreateStages
<1>6. CASE AddConnector /\ ~Refused
  BY <1>2, <1>6, StartedFrame DEF AddConnector, Go, TypeInv, Prepared
<1>7. CASE RemoveDirectory
  BY <1>2, <1>7, StartedFrame
     DEF RemoveDirectory, Go, EngineStages, RecreateStages
<1>8. CASE RemoveConnector
  BY <1>2, <1>8, StartedFrame DEF RemoveConnector, Go, TypeInv, Prepared
<1>9. CASE InspectContainer /\ ~Refused
  <2>1. /\ at = "inspect" /\ at' = "stop"
        /\ cmd' = [cmd EXCEPT !.site = containers[on].site]
        /\ UNCHANGED <<on, outcome, fileVars, engineVars>>
    BY <1>9 DEF InspectContainer
  <2>2. cmd'.op = cmd.op
    BY <1>1, <2>1 DEF Command
  <2> QED
    BY <1>3, <2>1, <2>2 DEF EngineStages, RecreateStages, fileVars, engineVars
<1>10. CASE StopContainer
  <2>1. /\ at = "stop" /\ at' = "remove" /\ Stop(on) /\ Exists(on)
        /\ UNCHANGED <<on, cmd, outcome, fileVars, loaded>>
    BY <1>10 DEF StopContainer, Go, TypeInv, Prepared
  <2>2. \A d \in Deployment \ {on} : containers'[d] = containers[d]
    BY <1>1, <2>1, ContainerAfter
  <2> QED
    BY <1>3, <2>1, <2>2 DEF EngineStages, RecreateStages, fileVars
<1>11. CASE RemoveContainer
  <2>1. /\ at = "remove" /\ at' = "create" /\ Remove(on)
        /\ UNCHANGED <<on, cmd, outcome, fileVars>>
    BY <1>11 DEF RemoveContainer, Go
  <2>2. \A d \in Deployment \ {on} : containers'[d] = containers[d]
    BY <1>1, <2>1, ContainerAfter
  <2>3. loaded' = loaded \/ on = Router
    BY <2>1 DEF Remove
  <2> QED
    BY <1>3, <2>1, <2>2, <2>3 DEF EngineStages, RecreateStages, fileVars
<1>12. CASE CreateContainerAgain /\ ~Refused
  <2>1. /\ at = "create" /\ at' = "start" /\ Create(on, cmd.site)
        /\ cmd.site \in Uid
        /\ UNCHANGED <<on, cmd, outcome, fileVars, loaded>>
    BY <1>12 DEF CreateContainerAgain, Go, TypeInv, Prepared
  <2>2. \A d \in Deployment \ {on} : containers'[d] = containers[d]
    BY <1>1, <2>1, ContainerAfter
  <2> QED
    BY <1>3, <2>1, <2>2 DEF EngineStages, RecreateStages, fileVars
<1>13. CASE StartContainerAgain /\ ~Refused
  <2>1. /\ at = "start" /\ Exists(on) /\ Start(on, config)
        /\ IF on = Router THEN GoOn("inspect", Controller) ELSE Go("proxies")
        /\ UNCHANGED fileVars
    BY <1>13 DEF StartContainerAgain, StartAllowed
  <2>2. /\ containers'[on] # NoContainer /\ containers'[on].up
        /\ \A d \in Deployment \ {on} : containers'[d] = containers[d]
    BY <1>1, <2>1, ContainerAfter DEF Up, Exists
  <2>3. loaded' = IF on = Router THEN config ELSE loaded
    BY <2>1 DEF Start
  <2>4. CASE on = Router
    BY <1>2, <2>1, <2>2, <2>3, <2>4 DEF StartedInv, GoOn, fileVars, Up, Exists
  <2>5. CASE on = Controller
    <3>1. Up(Router) /\ loaded = config
      BY <1>2, <2>1, <2>5 DEF EngineStages
    <3>2. /\ at' = "proxies" /\ UNCHANGED <<on, cmd, outcome, config, loaded>>
      BY <1>1, <2>1, <2>3, <2>5 DEF Go, fileVars
    <3>3. Up(Router)' /\ Up(Controller)'
      BY <1>1, <2>2, <2>5, <3>1 DEF Up, Exists
    <3> QED
      BY <1>2, <3>1, <3>2, <3>3 DEF StartedInv
  <2> QED
    BY <1>1, <2>4, <2>5
<1>14. CASE RestartProxies
  BY <1>14, StartedFrame DEF RestartProxies, End, NoCommand, EngineStages,
     RecreateStages
<1> QED
  BY <1>4, <1>5, <1>6, <1>7, <1>8, <1>9, <1>10, <1>11, <1>12, <1>13, <1>14
     DEF ConnectorStep

LEMMA StartedInitStep == TypeInv /\ StartedInv /\ InitStep => StartedInv'
<1> SUFFICES ASSUME TypeInv, StartedInv, InitStep
             PROVE  StartedInv'
  OBVIOUS
<1>1. /\ ContainersType /\ on \in Deployment /\ Router # Controller
      /\ Deployment = {Router, Controller}
  BY DEF TypeInv, TypeOK, ContainersType, Deployment, Router, Controller
<1>2. /\ cmd.op # "none" => outcome = "none"
      /\ on = Controller /\ at \in EngineStages => Up(Router) /\ loaded = config
  BY DEF StartedInv, EngineStages, RecreateStages
<1>3. CASE Refused
  BY <1>3, RefusedStarted
<1>4. CASE WipeHost \/ WriteSiteConfig \/ MakeDirectories \/ WriteRouterConfig
           \/ (CreateNetwork /\ ~Refused)
  <2>1. \/ End("failed")
        \/ /\ at' \in {"site", "layout", "config", "network", "create"}
           /\ on = Router /\ UNCHANGED <<on, cmd, outcome>>
    BY <1>4 DEF WipeHost, WriteSiteConfig, MakeDirectories, WriteRouterConfig,
       CreateNetwork, Go, TypeInv, Prepared, InitStages
  <2> QED
    BY <1>2, <2>1, StartedFrame DEF End, NoCommand, EngineStages, RecreateStages
<1>5. CASE CreateContainer /\ ~Refused
  <2>1. /\ at = "create" /\ at' = IF on = Router THEN "certs" ELSE "start"
        /\ Create(on, cmd.site) /\ cmd.site \in Uid
        /\ UNCHANGED <<on, cmd, outcome, fileVars, loaded>>
    BY <1>5 DEF CreateContainer, Go, TypeInv, Prepared
  <2>2. \A d \in Deployment \ {on} : containers'[d] = containers[d]
    BY <1>1, <2>1, ContainerAfter
  <2>3. CASE on = Router
    BY <1>2, <2>1, <2>3, StartedFrame
  <2>4. CASE on = Controller
    <3>1. Up(Router) /\ loaded = config
      BY <1>2, <2>1, <2>4 DEF EngineStages
    <3>2. Up(Router)'
      BY <1>1, <2>2, <2>4, <3>1 DEF Up, Exists
    <3> QED
      BY <1>1, <1>2, <2>1, <2>4, <3>1, <3>2 DEF StartedInv, fileVars
  <2> QED
    BY <1>1, <2>3, <2>4
<1>6. CASE MakeCertificates
  BY <1>2, <1>6, StartedFrame
     DEF MakeCertificates, TypeInv, Prepared, InitStages
<1>7. CASE StartContainer /\ ~Refused
  <2>1. /\ Exists(on) /\ Start(on, config) /\ UNCHANGED fileVars
    BY <1>7 DEF StartContainer, StartAllowed
  <2>2. CASE on = Router /\ GoOn("create", Controller)
    <3>1. Up(Router)'
      BY <1>1, <2>1, <2>2, ContainerAfter DEF Up, Exists
    <3>2. loaded' = config'
      BY <2>1, <2>2 DEF Start, fileVars
    <3> QED
      BY <1>2, <2>2, <3>1, <3>2 DEF StartedInv, GoOn
  <2>3. CASE End("done")
    BY <2>3 DEF End, NoCommand, StartedInv
  <2> QED
    BY <1>7, <2>2, <2>3 DEF StartContainer
<1> QED
  BY <1>3, <1>4, <1>5, <1>6, <1>7 DEF InitStep

LEMMA StartedStep == TypeInv /\ StartedInv /\ [Next]_vars => StartedInv'
<1> SUFFICES ASSUME TypeInv, StartedInv, [Next]_vars
             PROVE  StartedInv'
  OBVIOUS
<1>1. CASE InitStep
  BY <1>1, StartedInitStep
<1>2. CASE ConnectorStep
  BY <1>2, StartedConnectorStep
<1>3. CASE DeleteStep
  <2>1. cmd.op = "delete" /\ outcome = "none"
    BY <1>3
       DEF DeleteStep, DeleteStop, DeleteRemove, DeleteNetwork, DeleteFiles,
           TypeInv, Prepared, DeleteStages, StartedInv
  <2>2. \/ at' \in DeleteStages /\ outcome' = outcome
        \/ End("done") \/ End("failed")
    BY <1>3
       DEF DeleteStep, DeleteStop, DeleteRemove, DeleteNetwork, DeleteFiles,
           NextContainer, DeleteStages
  <2> QED
    BY <2>1, <2>2, StartedFrame DEF DeleteStages, EngineStages, RecreateStages,
       End, NoCommand
<1>4. CASE Operator
  <2>1. \/ /\ outcome' = "none"
           /\ at' \notin EngineStages \/ (on' = Router /\ at' = "inspect")
        \/ ConnectorTokenCreate
    BY <1>4 DEF Operator, InitSite, DeleteSite, Connect, Disconnect, Begin,
       EngineStages, RecreateStages
  <2> QED
    BY <2>1, StartedFrame
       DEF ConnectorTokenCreate, engineVars, fileVars, cmdVars
<1>5. CASE Abort
  BY <1>5, StartedFrame DEF Abort, End, NoCommand, EngineStages, RecreateStages
<1>6. CASE Define \/ Attach \/ Detach \/ UNCHANGED vars
  BY <1>6, StartedFrame DEF Define, Attach, Detach, vars, engineVars, fileVars,
     cmdVars
<1> QED
  BY <1>1, <1>2, <1>3, <1>4, <1>5, <1>6 DEF Next, Step

LEMMA EffectiveStep ==
    TypeInv /\ StartedInv /\ [Next]_vars /\ Succeeds =>
        /\ \A d \in Deployment : Exists(d)' /\ Up(d)'
        /\ loaded' = config'
<1> SUFFICES ASSUME TypeInv, StartedInv, [Next]_vars, Succeeds
             PROVE  /\ \A d \in Deployment : Exists(d)' /\ Up(d)'
                    /\ loaded' = config'
  OBVIOUS
<1>1. /\ ContainersType /\ Router # Controller
      /\ Deployment = {Router, Controller}
  BY DEF TypeInv, TypeOK, ContainersType, Deployment, Router, Controller
<1>2. cmd.op \in {"init", "connect", "disconnect"} /\ outcome = "none"
      /\ outcome' = "done"
  BY DEF Succeeds, StartedInv
<1>3. CASE StartContainer /\ ~Refused
  <2>1. /\ on = Controller /\ at = "start" /\ Exists(Controller)
        /\ Start(Controller, config) /\ UNCHANGED fileVars
    BY <1>1, <1>2, <1>3 DEF StartContainer, StartAllowed, GoOn
  <2>2. Up(Router) /\ loaded = config
    BY <2>1 DEF StartedInv
  <2>3. Up(Controller)' /\ containers'[Router] = containers[Router]
    BY <1>1, <2>1, ContainerAfter
  <2>4. Up(Router)'
    BY <2>2, <2>3 DEF Up, Exists
  <2>5. loaded' = config'
    BY <1>1, <2>1, <2>2 DEF Start, fileVars
  <2> QED
    BY <1>1, <2>3, <2>4, <2>5 DEF Up
<1>4. CASE RestartProxies
  <2>1. on = Controller /\ UNCHANGED <<fileVars, engineVars>> /\ at = "proxies"
    BY <1>4 DEF RestartProxies, TypeInv, Prepared
  <2>2. Up(Router) /\ Up(Controller) /\ loaded = config
    BY <2>1 DEF StartedInv
  <2> QED
    BY <1>1, <2>1, <2>2 DEF Up, Exists, fileVars, engineVars
<1>5. CASE ~(StartContainer /\ ~Refused) /\ ~RestartProxies
  <2>1. CASE InitStep
    BY <1>2, <1>5, <2>1
       DEF InitStep, WipeHost, WriteSiteConfig, MakeDirectories,
           WriteRouterConfig, CreateNetwork, CreateContainer, MakeCertificates,
           Go, Refused, End
  <2>2. CASE DeleteStep
    BY <1>2, <2>2 DEF DeleteStep, DeleteStop, DeleteRemove, DeleteNetwork,
       DeleteFiles, TypeInv, Prepared, DeleteStages
  <2>3. CASE ConnectorStep
    BY <1>2, <1>5, <2>3 DEF ConnectorStep, WriteToken, AddConnector,
       RemoveDirectory, RemoveConnector, InspectContainer, StopContainer,
       RemoveContainer, CreateContainerAgain, StartContainerAgain, Go, GoOn,
       Refused, End
  <2>4. CASE Operator
    BY <1>2, <2>4 DEF Operator, InitSite, DeleteSite, Connect, Disconnect,
       ConnectorTokenCreate, Begin, cmdVars
  <2>5. CASE Abort \/ Define \/ Attach \/ Detach \/ UNCHANGED vars
    BY <1>2, <2>5 DEF Abort, Define, Attach, Detach, End, vars, cmdVars
  <2> QED
    BY <2>1, <2>2, <2>3, <2>4, <2>5 DEF Next, Step
<1> QED
  BY <1>3, <1>4, <1>5

(* A command that reports success leaves both containers running, and the  *)
(* router on the configuration that is in the file, whatever happened      *)
(* before it and whatever the controller and the user did meanwhile.       *)
THEOREM EffectiveHolds == Spec => Effective
<1>1. Init => StartedInv
  BY DEF Init, SiteInit, NoCommand, StartedInv
<1>2. TypeInv /\ StartedInv /\ [Next]_vars =>
         [Succeeds => /\ \A d \in Deployment : Exists(d)' /\ Up(d)'
                      /\ loaded' = config']_vars
  BY EffectiveStep
<1> QED
  BY TypeCorrect, <1>1, StartedStep, <1>2, PTL DEF Spec, Effective


-----------------------------------------------------------------------------
(* Generated names. *)

Taken == {k \in 1..MaxGenerated : dirs[k] # NoFile}

(* What the pattern finds in the names that are taken.                     *)
Digits == {(n % 10) + 1 : n \in Taken}

LEMMA GreatestDigit ==
    ASSUME NEW S, S \subseteq 1..10, S # {}
    PROVE  Max(S) \in S /\ \A k \in S : k =< Max(S)
<1>1. \E i \in S : \A j \in S : i >= j
  <2>1. \A j \in S : j \in {1, 2, 3, 4, 5, 6, 7, 8, 9, 10}
    OBVIOUS
  <2>2. CASE 10 \in S
    BY <2>2
  <2>3. CASE 10 \notin S /\ 9 \in S
    BY <2>1, <2>3
  <2>4. CASE 10 \notin S /\ 9 \notin S /\ 8 \in S
    BY <2>1, <2>4
  <2>5. CASE 10 \notin S /\ 9 \notin S /\ 8 \notin S /\ 7 \in S
    BY <2>1, <2>5
  <2> DEFINE low == S \cap {7, 8, 9, 10} = {}
  <2>6. CASE low /\ 6 \in S
    BY <2>1, <2>6
  <2>7. CASE low /\ 6 \notin S /\ 5 \in S
    BY <2>1, <2>7
  <2>8. CASE low /\ 6 \notin S /\ 5 \notin S /\ 4 \in S
    BY <2>1, <2>8
  <2>9. CASE low /\ S \cap {4, 5, 6} = {}
    <3>1. \A j \in S : j \in {1, 2, 3}
      BY <2>1, <2>9
    <3>2. CASE 3 \in S
      BY <3>1, <3>2
    <3>3. CASE 3 \notin S /\ 2 \in S
      BY <3>1, <3>3
    <3>4. CASE 3 \notin S /\ 2 \notin S
      <4>1. \A j \in S : j = 1
        BY <3>1, <3>4
      <4>2. 1 \in S
        BY <4>1
      <4> QED
        BY <4>1, <4>2
    <3> QED
      BY <3>2, <3>3, <3>4
  <2> QED
    BY <2>2, <2>3, <2>4, <2>5, <2>6, <2>7, <2>8, <2>9
<1>2. Max(S) \in S /\ \A j \in S : Max(S) >= j
  BY <1>1 DEF Max
<1> QED
  BY <1>2

LEMMA DigitsBound == {1} \cup Digits \subseteq 1..10
<1>1. \A n \in Taken : n \in Nat
  BY ScaleAssumption DEF Taken
<1>2. \A n \in Nat : (n % 10) + 1 \in 1..10
  OBVIOUS
<1> QED
  BY <1>1, <1>2 DEF Digits

(* As long as no generated name has two digits, the next one is greater    *)
(* than all that are there, so that Mkdir does not find it: `connect`      *)
(* needs no name from the operator (connector_create.go:18-42).            *)
THEOREM GeneratedNameIsNew ==
    ASSUME \A n \in Taken : n < 10
    PROVE  GeneratedName \in 1..10 /\ \A n \in Taken : n < GeneratedName
<1>1. GeneratedName = Max({1} \cup Digits)
  BY DEF GeneratedName, Digits, Taken
<1>2. /\ GeneratedName \in 1..10
      /\ \A k \in Digits : k =< GeneratedName
  BY <1>1, DigitsBound, GreatestDigit
<1>3. ASSUME NEW n \in Taken
      PROVE  n < GeneratedName
  <2>1. n \in 0..9
    BY ScaleAssumption DEF Taken
  <2>2. n % 10 = n
    BY <2>1
  <2>3. n + 1 \in Digits
    BY <2>2 DEF Digits
  <2> QED
    BY <1>2, <2>1, <2>3
<1> QED
  BY <1>2, <1>3

(* With conn9 and conn10 there, the name is conn10 again: no `connect`     *)
(* without a name gets any further, until one of the two is gone.          *)
THEOREM GeneratedNameIsTaken ==
    ASSUME 9 \in Taken, 10 \in Taken
    PROVE  GeneratedName = 10 /\ \A i \in Issuer : ~Connect(GeneratedName, i)
<1>1. GeneratedName = Max({1} \cup Digits)
  BY DEF GeneratedName, Digits, Taken
<1>2. 10 \in Digits
  <2>1. (9 % 10) + 1 = 10
    OBVIOUS
  <2> QED
    BY <2>1 DEF Digits
<1>3. /\ GeneratedName \in 1..10
      /\ \A k \in Digits : k =< GeneratedName
  BY <1>1, DigitsBound, GreatestDigit
<1>4. GeneratedName = 10
  BY <1>2, <1>3
<1> QED
  BY <1>4 DEF Taken, Connect

=============================================================================
