--------------------------- MODULE ServiceBindings ---------------------------
(***************************************************************************)
(* What the controller keeps of the service definitions (bridges.go): for  *)
(* each address the bindings it made when it first met the service, and    *)
(* has changed with the definition since.                                  *)
(***************************************************************************)
EXTENDS Integers

CONSTANTS
    Address,        \* service addresses
    Port,           \* ports
    Option,         \* protocol, event channel and aggregation
    Headless,       \* what a definition says of a headless service
    Origin,         \* other sites
    Local,          \* the origin of a service that is defined here
    Target,         \* names of what a service can be bound to
    Selector,       \* the kinds of targets
    Container,      \* the one of containers
    Service,        \* what else a target may name
    NoService,      \* nothing
    NoDef           \* there is no definition, or no bindings

ASSUME PortAssumption == Port \subseteq Nat \ {0}
ASSUME LocalAssumption == Local \notin Origin
ASSUME TargetAssumption == Container \in Selector /\ NoService \in Service

(* The port of a target is 0 if none was given.                            *)
Targets ==
    UNION {[names -> [port : Port \cup {0}, selector : Selector,
                      service : Service]] : names \in SUBSET Target}

Definition ==
    [port : Port, option : Option, headless : Headless,
     origin : Origin \cup {Local}, targets : Targets]

Binding ==
    [port : Port, ingressPort : Port, option : Option, headless : Headless,
     origin : Origin \cup {Local}, targets : Targets]

ASSUME NoDefAssumption == NoDef \notin Definition /\ NoDef \notin Binding

Definitions == [Address -> Definition \cup {NoDef}]
Bindings == [Address -> Binding \cup {NoDef}]

NoDefinitions == [a \in Address |-> NoDef]

TargetNames(d) == DOMAIN d.targets

getTargetPort(d, t) ==
    IF d.targets[t].port = 0 THEN d.port ELSE d.targets[t].port

(* Mutant: the ingress port is not passed on.                              *)
NewWithoutPort(required) ==
    [port |-> required.port, ingressPort |-> 0,
     option |-> required.option, headless |-> required.headless,
     origin |-> required.origin, targets |-> required.targets]

(* At first the port of a target is taken as it is.                        *)
newServiceBindings(required) ==
    [port |-> required.port, ingressPort |-> required.port,
     option |-> required.option, headless |-> required.headless,
     origin |-> required.origin, targets |-> required.targets]

(* A target that is added later is not told of the service.                *)
addTarget(required, t) ==
    [port |-> getTargetPort(required, t),
     selector |-> required.targets[t].selector, service |-> NoService]

(* A target that is there gets its port, and those not required go.        *)
ChangedTargets(bindings, required) ==
    [t \in TargetNames(required) |->
        IF t \in TargetNames(bindings)
        THEN [bindings.targets[t] EXCEPT !.port = getTargetPort(required, t)]
        ELSE addTarget(required, t)]

(* Mutant: what the service was when it was first met decides whose it is. *)
ChangedButForOrigin(bindings, required) ==
    [bindings EXCEPT
        !.port = required.port, !.option = required.option,
        !.targets = ChangedTargets(bindings, required)]

(* The ingress port and what is headless stay as they were.                *)
Changed(bindings, required) ==
    [bindings EXCEPT
        !.port = required.port, !.option = required.option,
        !.origin = required.origin,
        !.targets = ChangedTargets(bindings, required)]

updateServiceBindings(bindings, required) ==
    IF bindings = NoDef THEN newServiceBindings(required)
    ELSE Changed(bindings, required)

(* Mutant: the bindings of services that are gone stay.                    *)
BoundWithoutDeletion(bindings, defs) ==
    [a \in Address |-> IF defs[a] = NoDef THEN bindings[a]
                       ELSE updateServiceBindings(bindings[a], defs[a])]

(* All of the bindings, from one set of definitions to the next.           *)
Bound(bindings, defs) ==
    [a \in Address |-> IF defs[a] = NoDef THEN NoDef
                       ELSE updateServiceBindings(bindings[a], defs[a])]

(* As much of a definition as bindings follow, or of bindings as follows:  *)
(* not the ingress port, what is headless, and what a target is besides    *)
(* its port.                                                               *)
Followed(d) ==
    IF d = NoDef THEN NoDef
    ELSE [port |-> d.port, option |-> d.option, origin |-> d.origin,
          targets |-> [t \in TargetNames(d) |-> getTargetPort(d, t)]]

AllFollowed(defs) == [a \in Address |-> Followed(defs[a])]

(* The containers that ensureProxyFor wants on the skupper network.        *)
LocalTargets(defs) ==
    UNION {{t \in TargetNames(defs[a]) :
               defs[a].targets[t].selector = Container} :
           a \in {b \in Address : defs[b] # NoDef /\ defs[b].origin = Local}}
=============================================================================
