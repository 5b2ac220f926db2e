----------------------------- MODULE RouterSpecs -----------------------------
(***************************************************************************)
(* What `init` makes of its options (GetRouterSpecFromOpts): the router's  *)
(* first configuration, the certificates, and the two containers.          *)
(***************************************************************************)
EXTENDS RouterConfiguration, ContainerSpecs

(* types.SiteConfigSpec.  With the console on, `init` makes internal       *)
(* authentication of none (RouterCreate).                                  *)
Authentication(options) ==
    IF options.console /\ options.auth = "" THEN "internal" ELSE options.auth

InitialRouterConfig(options, site) ==
    LET Listen(config, name, host, port, role, profile) ==
            AddListener(config, name,
                        [host |-> host, port |-> port, role |-> role,
                         sslProfile |-> profile])
        console == options.routerConsole
                   /\ Authentication(options) \in {"internal", "unsecured"}
        c1 == AddAddress(InitialConfig("name", site, options.edge), "mc",
                         "multicast")
        c2 == Listen(c1, "", "0.0.0.0", 9090, "normal", <<>>)
        c3 == Listen(c2, "amqp", "localhost", 5672, "", <<>>)
        c4 == Listen(AddSslProfile(c3, "skupper-amqps"), "amqps", "0.0.0.0",
                     5671, "", <<"skupper-amqps">>)
        c5 == IF console THEN Listen(c4, "console", "0.0.0.0", 8080, "", <<>>)
              ELSE c4
        profile == <<"skupper-internal">>
    IN IF options.edge THEN c5
       ELSE Listen(Listen(AddSslProfile(c5, "skupper-internal"),
                          "interior-listener", "0.0.0.0", 55671,
                          "inter-router", profile),
                   "edge-listener", "0.0.0.0", 45671, "edge", profile)

-----------------------------------------------------------------------------
(* Directories of the host, under certs, and what is written into them.    *)
Volumes(options) ==
    {"skupper", "skupper-amqps", "router-config"}
    \cup (IF options.edge THEN {} ELSE {"skupper-internal"})
    \cup (IF Authentication(options) = "internal"
          THEN {"skupper-console-users", "skupper-sasl-config"} ELSE {})

CertAuthorities(options) ==
    {"skupper-ca"} \cup (IF options.edge THEN {} ELSE {"skupper-internal-ca"})

Credentials(options) ==
    {[ca |-> "skupper-ca", name |-> "skupper-amqps"],
     [ca |-> "skupper-ca", name |-> "skupper"]}
    \cup (IF options.edge THEN {}
          ELSE {[ca |-> "skupper-internal-ca", name |-> "skupper-internal"]})

(* A credential is written into a directory that is there already, from    *)
(* the certificate authority it names.                                     *)
Certified(options, name) ==
    \E c \in Credentials(options) :
        /\ c.name = name
        /\ c.name \in Volumes(options)
        /\ c.ca \in CertAuthorities(options)

(* Directories of the host, by the place where the router has them.        *)
TransportMounts ==
    {[source |-> "qpid-dispatch-certs", target |-> "/etc/qpid-dispatch-certs"],
     [source |-> "connections", target |-> "/etc/qpid-dispatch/connections"],
     [source |-> "config", target |-> "/etc/qpid-dispatch/config"],
     [source |-> "console-users", target |-> "/etc/qpid-dispatch/sasl-users/"],
     [source |-> "sasl-config", target |-> "/etc/sasl2"]}

ControllerMounts ==
    {[source |-> "qpid-dispatch-certs/skupper", target |-> "/etc/messaging"],
     [source |-> "services", target |-> "/etc/messaging/services"],
     [source |-> "/var/run", target |-> "/var/run"]}

-----------------------------------------------------------------------------
(* The environment is a function on the names of variables.                *)
When(condition, name, value) ==
    [n \in IF condition THEN {name} ELSE {} |-> value]

TransportEnv(options, site) ==
    LET internal == Authentication(options) = "internal"
    IN Overlay(Overlay(Overlay(
          [n \in {"QDROUTERD_CONF", "QDROUTERD_CONF_TYPE", "SKUPPER_SITE_ID"} |->
              IF n = "SKUPPER_SITE_ID" THEN site ELSE n],
          When(~options.edge, "APPLICATION_NAME", "skupper-router")),
          When(internal, "QDROUTERD_AUTO_CREATE_SASLDB_SOURCE", "sasl-users")),
          When(options.trace, "PN_TRACE_FRM", "1"))

ControllerEnv(options, site) ==
    Overlay(Overlay(
        [n \in {"SKUPPER_SITE_ID", "SKUPPER_TMPDIR", "SKUPPER_PROXY_IMAGE",
                "SKUPPER_HOST", "SKUPPER_CONTAINER_ENGINE"} |->
            IF n = "SKUPPER_SITE_ID" THEN site
            ELSE IF n = "SKUPPER_TMPDIR" THEN options.tmpdir ELSE n],
        When(options.mapToHost, "SKUPPER_MAP_TO_HOST", "true")),
        When(options.trace, "PN_TRACE_FRM", "1"))

getTransportContainerCreateOptions(options, site) ==
    ContainerCreateOptions(
        [hostname |-> "skupper-router", image |-> "router-image",
         env |-> TransportEnv(options, site), cmd |-> NoCmd,
         health |-> [test |-> "healthz", startPeriod |-> 60, interval |-> 0],
         labels |-> {"application", "skupper.io/component",
                     "prometheus.io/port", "prometheus.io/scrape"},
         ports |-> {5671, 9090}
                   \cup (IF Authentication(options) = "" THEN {} ELSE {8080})
                   \cup (IF options.edge THEN {} ELSE {55671, 45671})],
        TransportMounts, TRUE, {"skupper-network"})

getControllerContainerCreateOptions(options, site) ==
    ContainerCreateOptions(
        [hostname |-> "skupper-service-controller",
         image |-> "controller-image", env |-> ControllerEnv(options, site),
         cmd |-> <<"/go/src/app/controller">>,
         health |-> [test |-> NoText, startPeriod |-> 60, interval |-> 0],
         labels |-> {"application", "skupper.io/component"}, ports |-> {}],
        ControllerMounts, TRUE, {"skupper-network"})
=============================================================================
