----------------------------- MODULE SiteDetails -----------------------------
(***************************************************************************)
(* The commands of a site with the data that SiteCommands leaves out: the  *)
(* options of `init`, the text of qdrouterd.json, and what the two         *)
(* containers are made of, which depends on the container engine.  The     *)
(* steps are those of SiteCommands; each says what becomes of the data.    *)
(***************************************************************************)
EXTENDS SiteCommands

CONSTANTS
    Setups,         \* engines ("docker" or "podman") and options of `init`
                    \* that are looked at together
    ImageEnv, ImageCmd

ASSUME SetupsAssumption == \A s \in Setups : s.driver \in {"docker", "podman"}

VARIABLES
    driver,         \* the engine in use; does not change
    options,        \* the options of `init`; do not change
    json,           \* the elements of qdrouterd.json, if it can be decoded
    made,           \* made[d]: what container d was made of
    held            \* RecreateContainer: the options it will create with

R == INSTANCE RouterSpecs

(* None of the variables that `init` may set to nothing comes with the     *)
(* image of the controller.                                                *)
ASSUME ImageAssumption ==
    /\ R!NoText \notin Uid
    /\ "SKUPPER_TMPDIR" \notin DOMAIN ImageEnv["controller-image"]

dataVars == <<driver, options, json, made, held>>

DataInit ==
    /\ \E s \in Setups : driver = s.driver /\ options = s.options
    /\ json = <<>>
    /\ made = [d \in Deployment |-> R!NoSpec]
    /\ held = R!NoSpec

-----------------------------------------------------------------------------
(* A file that is gone or cut short has no elements; a container that is   *)
(* gone is made of nothing.                                                *)
Keep ==
    /\ json' = IF Readable(config') THEN json ELSE <<>>
    /\ made' = [d \in Deployment |->
                   IF containers'[d] = NoContainer THEN R!NoSpec ELSE made[d]]
    /\ held' = IF at' = "idle" THEN R!NoSpec ELSE held
    /\ UNCHANGED <<driver, options>>

UpdateRouterConfig(routerConfig) ==
    /\ json' = R!MarshalRouterConfig(routerConfig)
    /\ UNCHANGED <<driver, options, made, held>>

Gained(d) == ~Exists(d) /\ containers'[d] # NoContainer

Make(d, spec) ==
    /\ made' = [made EXCEPT ![d] = R!ContainerCreate(driver, spec)]
    /\ UNCHANGED <<driver, options, json, held>>

CreateOptions(d, site) ==
    IF d = Router THEN R!getTransportContainerCreateOptions(options, site)
    ELSE R!getControllerContainerCreateOptions(options, site)

Role == IF config.edge THEN "edge" ELSE "inter-router"

WriteInitialConfig ==
    /\ WriteRouterConfig
    /\ config'.edge = options.edge
    /\ UpdateRouterConfig(R!InitialRouterConfig(options, cmd.site))

ConfigureConnector ==
    /\ AddConnector
    /\ IF Readable(config)
       THEN UpdateRouterConfig(R!Connected(R!UnmarshalRouterConfig(json),
                                           cmd.name, Role, cmd.from))
       ELSE Keep

DropConnector ==
    /\ RemoveConnector
    /\ UpdateRouterConfig(R!Disconnected(R!UnmarshalRouterConfig(json),
                                         cmd.name))

MakeContainer ==
    /\ CreateContainer
    /\ IF Gained(on) THEN Make(on, CreateOptions(on, cmd.site))
       ELSE Keep

LookAtContainer ==
    /\ InspectContainer
    /\ held' = IF Exists(on)
               THEN R!RecreateOptions(R!ContainerInspect(driver, made[on]))
               ELSE held
    /\ UNCHANGED <<driver, options, json, made>>

(* The engine may refuse what RecreateContainer gives it, and then the     *)
(* command ends, the container it took down not replaced.                  *)
MakeContainerAgain ==
    \/ /\ CreateContainerAgain
       /\ R!CreateAllowed(driver, held)
       /\ IF Gained(on) THEN Make(on, held) ELSE Keep
    \/ /\ at = "create" /\ cmd.op # "init"
       /\ ~R!CreateAllowed(driver, held)
       /\ Refused
       /\ UNCHANGED <<tokens, installed>>
       /\ Keep

(* The steps that leave the data alone, or take it away.                   *)
OtherStep ==
    /\ \/ Operator \/ WipeHost \/ WriteSiteConfig \/ MakeDirectories
       \/ CreateNetwork \/ MakeCertificates \/ StartContainer \/ DeleteStep
       \/ WriteToken \/ RemoveDirectory \/ StopContainer \/ RemoveContainer
       \/ StartContainerAgain \/ RestartProxies
       \/ Abort \/ Define \/ Attach \/ Detach
    /\ Keep

CommandStep ==
    \/ WriteInitialConfig \/ ConfigureConnector \/ DropConnector
    \/ MakeContainer \/ LookAtContainer \/ MakeContainerAgain \/ OtherStep

DetailsSpec == Init /\ DataInit /\ [][CommandStep]_<<vars, dataVars>>

-----------------------------------------------------------------------------
(* Properties.                                                             *)

(* The file, decoded, is a configuration of the mode and site that the     *)
(* commands believe in, with their connectors and nothing lost.            *)
Agrees ==
    LET c == R!UnmarshalRouterConfig(json)
    IN /\ R!Marshalled(json, c)
       /\ R!IsEdge(c) = config.edge
       /\ c.metadata.site = config.site
       /\ R!Has(c, "address", "mc")
       /\ R!Names(c, "connector") =
             {n \in Name : config.connectors[n] # NoConnector}
       /\ \A n \in R!Names(c, "connector") :
             /\ R!Entity(c, "connector", n).host = config.connectors[n]
             /\ R!Entity(c, "connector", n).role = Role

Changed == json' # json \/ config' # config

(* Every way the commands rewrite qdrouterd.json, with a configuration     *)
(* decoded from what an earlier command encoded, leaves a file that agrees *)
(* with what was to be in it: mode, site, address and the connectors       *)
(* (qdr.go:293-460, router_create.go:105-177, connector_create.go:96-118,  *)
(* connector_remove.go:33-35).                                             *)
FileAgrees == [][Changed /\ Readable(config') => Agrees']_<<json, config>>

(* Where the router finds the certificate of a TLS profile: in a directory *)
(* that is bound into its container, for a connector in the one of its     *)
(* token, for a listener in one that `init` put a certificate into.        *)
Found(type, name, profile, c) ==
    \E m \in R!TransportMounts :
        /\ m.target = profile.dir
        /\ IF type = "connector"
           THEN /\ m.source = "connections" /\ profile.sub = name
                /\ name \notin leaving
                      => dirs[name] = R!Entity(c, "connector", name).host
           ELSE /\ m.source = "qpid-dispatch-certs"
                /\ R!Certified(options, profile.sub)

Secured ==
    LET c == R!UnmarshalRouterConfig(json)
    IN \A t \in {"listener", "connector"} : \A n \in R!Names(c, t) :
          LET profile == R!Entity(c, t, n).sslProfile
          IN profile # <<>> =>
                /\ R!Has(c, "sslProfile", profile)
                /\ Found(t, n, R!Entity(c, "sslProfile", profile), c)

(* In every configuration that is written, the TLS profile that a listener *)
(* or connector names is there and leads to credentials the router can     *)
(* see: a certificate of an authority that `init` made, or the token of    *)
(* the site the connector leads to (router_create.go:105-284,              *)
(* qdr.go:112-143).                                                        *)
TlsProvisioned ==
    [][Changed /\ Readable(config') => Secured']_<<json, config>>

(* What must not be lost of a container that takes the place of another.   *)
Essentials(spec) ==
    [spec EXCEPT !.env = R!Named(@), !.cmd = R!NoCmd, !.privileged = TRUE]

(* However often `connect` and `disconnect` recreate the two containers    *)
(* from what the engine tells of them, they are made of what `init` gave   *)
(* them: image, environment, mounts, ports, labels, health check and       *)
(* network; if the engine tells too little no container is made            *)
(* (driver.go:49-110, docker.go:434-513, podman.go:192-227).               *)
RecreatedAlike ==
    [][\A d \in Deployment :
          made'[d] # made[d] /\ made'[d] # R!NoSpec
          => Essentials(made'[d]) =
                Essentials(R!ContainerCreate(driver,
                              CreateOptions(d, containers'[d].site)))]_made
=============================================================================
