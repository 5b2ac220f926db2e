-------------------------- MODULE ContainerEngine --------------------------
(***************************************************************************)
(* The container engine of one host, as far as a site uses it through a    *)
(* Driver: two containers, known by their names, and one network.  A call  *)
(* is refused for the reasons given here; that it may also fail by itself  *)
(* is up to those who call.                                                *)
(***************************************************************************)
EXTENDS Integers, FiniteSets

CONSTANTS
    Uid,            \* identities of sites
    NoContainer,    \* no container has that name
    NoFile,         \* there is no such file or directory
    Torn            \* a file that was cut short and cannot be decoded

Router == "skupper-router"
Controller == "skupper-service-controller"
Deployment == {Router, Controller}

VARIABLES
    containers,     \* containers[d]: the container with name d
    network,        \* skupper-network exists
    attached,       \* running containers of the user are on that network
    loaded          \* the configuration the router read when it last started

engineVars == <<containers, network, attached, loaded>>

(* The environment of a container names its site (SKUPPER_SITE_ID).        *)
Container == [site : Uid, up : BOOLEAN]

EngineInit ==
    /\ containers = [d \in Deployment |-> NoContainer]
    /\ network = FALSE
    /\ attached = FALSE
    /\ loaded = NoFile

Exists(d) == containers[d] # NoContainer
Up(d) == Exists(d) /\ containers[d].up

CreateAllowed(d) == ~Exists(d)

Create(d, site) ==
    containers' = [containers EXCEPT ![d] = [site |-> site, up |-> FALSE]]

(* That the network is missing shows when the container is to start.       *)
StartAllowed(d) == Exists(d) /\ network

(* A router reads its configuration, bound into it from the host's         *)
(* directory, when it starts.                                              *)
Start(d, configuration) ==
    /\ containers' = [containers EXCEPT ![d].up = TRUE]
    /\ loaded' = IF d = Router THEN configuration ELSE loaded

Stop(d) == containers' = [containers EXCEPT ![d].up = FALSE]

Remove(d) ==
    /\ containers' = [containers EXCEPT ![d] = NoContainer]
    /\ loaded' = IF d = Router THEN NoFile ELSE loaded

(* Docker keeps a network while running containers are on it.              *)
NetworkRemoveAllowed == ~attached /\ \A d \in Deployment : ~Up(d)
=============================================================================
