------------------------ MODULE RouterConfiguration ------------------------
(***************************************************************************)
(* The router's configuration (pkg/qdr): in memory one map per type of     *)
(* entity, in qdrouterd.json a list of entities, in the order in which Go  *)
(* goes through the maps, which is any order.                              *)
(***************************************************************************)
EXTENDS Integers, Sequences, SequencesExt

(* The entities that have maps.                                            *)
Type == {"sslProfile", "connector", "listener", "address",
         "tcpConnector", "tcpListener", "httpConnector", "httpListener"}

NoEntities == [t \in Type |-> <<>>]
NoMetadata == [id |-> "", mode |-> "", site |-> ""]

InitialConfig(id, metadata, edge) ==
    [metadata |-> [id |-> id, site |-> metadata,
                   mode |-> IF edge THEN "edge" ELSE "interior"],
     entities |-> NoEntities]

IsEdge(config) == config.metadata.mode = "edge"

-----------------------------------------------------------------------------
(* The entities of a type by their names (an address has a prefix).        *)
Names(config, type) == DOMAIN config.entities[type]
Has(config, type, name) == name \in Names(config, type)
Entity(config, type, name) == config.entities[type][name]

With(config, type, name, entity) ==
    LET old == config.entities[type]
    IN [config EXCEPT !.entities[type] =
           [n \in DOMAIN old \cup {name} |->
               IF n = name THEN entity ELSE old[n]]]

Without(config, type, name) ==
    LET old == config.entities[type]
    IN [config EXCEPT !.entities[type] =
           [n \in DOMAIN old \ {name} |-> old[n]]]

AddAddress(config, prefix, distribution) ==
    With(config, "address", prefix, [distribution |-> distribution])

(* A listener without a name gets one from its host and port.              *)
AddListener(config, name, listener) ==
    With(config, "listener",
        IF name = "" THEN <<listener.host, listener.port>> ELSE <<name>>,
        listener)

AddConnector(config, name, connector) ==
    With(config, "connector", name, connector)

RemoveConnector(config, name) == Without(config, "connector", name)

(* Where the router finds the certificates of a profile: the directory, as *)
(* the container has it, and the one in it.                                *)
AddSslProfile(config, name) ==
    With(config, "sslProfile", <<name>>,
        [dir |-> "/etc/qpid-dispatch-certs", sub |-> name])

(* The profile of a connector has the connector's name and a suffix, which *)
(* the path leaves out again.                                              *)
ProfileName(connector) == <<connector, "-profile">>

AddConnSslProfile(config, profile) ==
    With(config, "sslProfile", profile,
        [dir |-> "/etc/qpid-dispatch/connections", sub |-> profile[1]])

RemoveConnSslProfile(config, connector) ==
    Without(config, "sslProfile", ProfileName(connector))

(* Mutant: a connector has the profile the listeners use.                  *)
ConnectedWithSiteProfile(config, name, role, host) ==
    AddConnector(AddSslProfile(config, "skupper-internal"), name,
                 [role |-> role, host |-> host,
                  sslProfile |-> <<"skupper-internal">>])

(* What `connect` and `disconnect` do to the configuration they have read. *)
Connected(config, name, role, host) ==
    AddConnector(AddConnSslProfile(config, ProfileName(name)), name,
                 [role |-> role, host |-> host,
                  sslProfile |-> ProfileName(name)])

Disconnected(config, name) ==
    RemoveConnSslProfile(RemoveConnector(config, name), name)

-----------------------------------------------------------------------------
(* The file.                                                               *)
RouterElement(config) ==
    [type |-> "router", name |-> "", value |-> config.metadata]

Element(config, type, name) ==
    [type |-> type, name |-> name, value |-> Entity(config, type, name)]

(* The elements of one type, in some order.                                *)
Section(config, type) ==
    LET order == SetToSeq(Names(config, type))
    IN [i \in DOMAIN order |-> Element(config, type, order[i])]

MarshalRouterConfig(config) ==
    <<RouterElement(config)>>
        \o Section(config, "sslProfile") \o Section(config, "connector")
        \o Section(config, "listener") \o Section(config, "address")
        \o Section(config, "tcpConnector") \o Section(config, "tcpListener")
        \o Section(config, "httpConnector") \o Section(config, "httpListener")

(* The same in whatever order the maps are gone through.                   *)
Marshalled(elements, config) ==
    /\ elements # <<>>
    /\ elements[1] = RouterElement(config)
    /\ \A i \in 2..Len(elements) :
          LET e == elements[i]
          IN /\ e.type \in Type
             /\ Has(config, e.type, e.name)
             /\ e = Element(config, e.type, e.name)
    /\ \A t \in Type : \A n \in Names(config, t) :
          \E i \in 2..Len(elements) :
             elements[i].type = t /\ elements[i].name = n

(* Of two elements of a type with one name the later counts; of a type     *)
(* that is not known nothing is kept.                                      *)
Decoded(elements, types) ==
    LET Of(type) == {i \in DOMAIN elements :
                        type \in types /\ elements[i].type = type}
        Named(type, name) == {i \in Of(type) : elements[i].name = name}
        routers == {i \in DOMAIN elements : elements[i].type = "router"}
    IN [metadata |-> IF routers = {} THEN NoMetadata
                     ELSE elements[Max(routers)].value,
        entities |-> [t \in Type |->
                         [n \in {elements[i].name : i \in Of(t)} |->
                             elements[Max(Named(t, n))].value]]]

(* Mutant: a type that is forgotten in the switch.                         *)
UnmarshalWithoutAddresses(elements) == Decoded(elements, Type \ {"address"})

UnmarshalRouterConfig(elements) == Decoded(elements, Type)
=============================================================================
