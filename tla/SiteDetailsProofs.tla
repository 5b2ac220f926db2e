------------------------ MODULE SiteDetailsProofs ------------------------
(***************************************************************************)
(* Proofs about what the commands do with data: qdrouterd.json, decoded,   *)
(* is what was encoded; `disconnect` undoes `connect`; and containers      *)
(* recreated from what the engine tells of them are what they were.  Then  *)
(* the same of every behaviour of the commands, which with their data are  *)
(* those of SiteCommands, but that podman may refuse a container.          *)
(***************************************************************************)
EXTENDS SiteDetails, SiteCommandsProofs, Sequences, FiniteSetTheorems, TLAPS

(* A configuration in memory: metadata, and of each type a map.            *)
IsConfiguration(cf) ==
    /\ cf = [metadata |-> cf.metadata, entities |-> cf.entities]
    /\ cf.entities = [t \in R!Type |-> cf.entities[t]]
    /\ \A t \in R!Type :
          cf.entities[t] = [n \in R!Names(cf, t) |-> R!Entity(cf, t, n)]

-----------------------------------------------------------------------------
(* Encoding and decoding. *)

LEMMA TypeSet ==
    /\ {"sslProfile", "connector", "listener", "address"} \subseteq R!Type
    /\ "router" \notin R!Type
BY DEF R!Type

(* A set of positions in a list has a last one.                            *)
LEMMA LastExists ==
    ASSUME NEW n \in Nat, NEW S, S \subseteq 1..n, S # {}
    PROVE  R!Max(S) \in S
<1> DEFINE T == {n - i : i \in S}
<1>1. T \subseteq Nat /\ T # {}
  <2>1. \A i \in S : i \in 1..n /\ n - i \in Nat
    OBVIOUS
  <2>2. PICK i \in S : TRUE
    OBVIOUS
  <2>3. n - i \in T
    OBVIOUS
  <2> QED
    BY <2>1, <2>3
<1>2. PICK x \in T : \A y \in T : ~(<<y, x>> \in OpToRel(<, Nat))
  BY <1>1, WFMin, NatLessThanWellFounded
<1>3. \A y \in T : ~(y < x)
  BY <1>1, <1>2 DEF OpToRel
<1>4. PICK i \in S : x = n - i
  OBVIOUS
<1>5. \A j \in S : i >= j
  <2> SUFFICES ASSUME NEW j \in S
               PROVE  i >= j
    OBVIOUS
  <2>1. n - j \in T
    OBVIOUS
  <2>2. ~(n - j < n - i)
    BY <1>3, <1>4, <2>1
  <2> QED
    BY <2>2
<1> QED
  BY <1>4, <1>5 DEF R!Max

(* Every list of entities that Go can make of the maps, in any order, is   *)
(* decoded into the configuration it was made of.                          *)
THEOREM RoundTrip ==
    ASSUME NEW cf, IsConfiguration(cf),
           NEW S, NEW elements \in Seq(S), R!Marshalled(elements, cf)
    PROVE  R!UnmarshalRouterConfig(elements) = cf
<1> DEFINE Of(t) == {i \in DOMAIN elements :
                        t \in R!Type /\ elements[i].type = t}
           Spots(t, n) == {i \in Of(t) : elements[i].name = n}
           routers == {i \in DOMAIN elements : elements[i].type = "router"}
           last == Len(elements)
<1>1. last \in Nat /\ DOMAIN elements = 1..last /\ last >= 1
  BY DEF R!Marshalled
<1>2. elements[1] = R!RouterElement(cf)
  BY DEF R!Marshalled
<1>3. ASSUME NEW i \in 2..last
      PROVE  /\ elements[i].type \in R!Type
             /\ R!Has(cf, elements[i].type, elements[i].name)
             /\ elements[i] = R!Element(cf, elements[i].type, elements[i].name)
  BY DEF R!Marshalled
<1>r. /\ R!RouterElement(cf).type = "router"
      /\ R!RouterElement(cf).value = cf.metadata
  BY DEF R!RouterElement
<1>4. elements[1].type = "router"
  BY <1>2, <1>r, Zenon
<1>5. routers = {1}
  BY <1>1, <1>3, <1>4, TypeSet
<1>6. R!Max(routers) = 1
  BY <1>1, <1>5, LastExists
<1>7. ASSUME NEW t \in R!Type
      PROVE  /\ Of(t) \subseteq 2..last
             /\ {elements[i].name : i \in Of(t)} = R!Names(cf, t)
             /\ \A n \in R!Names(cf, t) :
                   elements[R!Max(Spots(t, n))].value = R!Entity(cf, t, n)
  <2>1. Of(t) \subseteq 2..last
    BY <1>1, <1>4, <1>7, TypeSet
  <2>2. \A n \in R!Names(cf, t) : Spots(t, n) # {}
    BY <1>1, <1>7 DEF R!Marshalled
  <2>3. {elements[i].name : i \in Of(t)} = R!Names(cf, t)
    BY <1>3, <2>1, <2>2 DEF R!Has
  <2>4. ASSUME NEW n \in R!Names(cf, t)
        PROVE  elements[R!Max(Spots(t, n))].value = R!Entity(cf, t, n)
    <3>1. Spots(t, n) \subseteq 1..last
      BY <2>1
    <3>2. R!Max(Spots(t, n)) \in Spots(t, n)
      BY <1>1, <2>2, <2>4, <3>1, LastExists
    <3> DEFINE i == R!Max(Spots(t, n))
    <3>3. i \in 2..last /\ elements[i].type = t /\ elements[i].name = n
      BY <2>1, <3>2
    <3> HIDE DEF i
    <3>4. elements[i] = R!Element(cf, t, n)
      BY <1>3, <3>3
    <3> QED
      BY <3>4 DEF R!Element, i
  <2> QED
    BY <2>1, <2>3, <2>4
<1> DEFINE entities == [t \in R!Type |->
                           [n \in {elements[i].name : i \in Of(t)} |->
                               elements[R!Max(Spots(t, n))].value]]
<1>8. R!UnmarshalRouterConfig(elements) =
         [metadata |-> elements[R!Max(routers)].value, entities |-> entities]
  BY <1>5 DEF R!UnmarshalRouterConfig, R!Decoded
<1>9. elements[R!Max(routers)].value = cf.metadata
  BY <1>2, <1>6, <1>r, Zenon
<1>10. ASSUME NEW t \in R!Type
       PROVE  entities[t] = cf.entities[t]
  <2> DEFINE f == [n \in {elements[i].name : i \in Of(t)} |->
                      elements[R!Max(Spots(t, n))].value]
             g == [n \in R!Names(cf, t) |-> R!Entity(cf, t, n)]
  <2>1. entities[t] = f
    BY <1>10, Zenon
  <2>2. f = g
    BY <1>7, <1>10, Zenon
  <2>3. cf.entities[t] = g
    BY <1>10, Zenon DEF IsConfiguration
  <2> QED
    BY <2>1, <2>2, <2>3, Zenon
<1>11. entities = cf.entities
  <2>1. entities = [t \in R!Type |-> entities[t]]
    OBVIOUS
  <2> HIDE DEF entities
  <2> QED
    BY <1>10, <2>1 DEF IsConfiguration
<1> HIDE DEF entities, routers
<1> QED
  BY <1>8, <1>9, <1>11 DEF IsConfiguration

-----------------------------------------------------------------------------
(* What is written. *)

LEMMA Enumerated ==
    ASSUME NEW S, IsFiniteSet(S)
    PROVE  LET order == R!SetToSeq(S)
           IN \E n \in Nat : /\ order \in [1..n -> S]
                             /\ \A x \in S : \E i \in 1..n : order[i] = x
<1> DEFINE n == Cardinality(S)
<1>1. n \in Nat /\ ExistsBijection(1..n, S)
  BY FS_CardinalityType
<1>2. PICK b \in Bijection(1..n, S) : TRUE
  BY <1>1 DEF ExistsBijection
<1>3. b \in [1..n -> S] /\ R!IsInjective(b)
  BY <1>2 DEF Bijection, Injection, IsInjective, R!IsInjective
<1>4. R!SetToSeq(S) = CHOOSE f \in [1..n -> S] : R!IsInjective(f)
  <2>1. R!Cardinality(S) = n
    BY Zenon DEF R!Cardinality, Cardinality
  <2> QED
    BY <2>1 DEF R!SetToSeq
<1> DEFINE order == R!SetToSeq(S)
<1>5. order \in [1..n -> S] /\ R!IsInjective(order)
  BY <1>3, <1>4
<1>6. order \in Injection(1..n, S)
  BY <1>5 DEF Injection, IsInjective, R!IsInjective
<1>7. Cardinality(1..n) = n
  BY <1>1, FS_Interval
<1>8. order \in Surjection(1..n, S)
  BY <1>6, <1>7, FS_Injection
<1> HIDE DEF order
<1> QED
  BY <1>1, <1>5, <1>8 DEF Surjection, order

(* All of the set, in some order, and nothing else.                        *)
Lists(s, set) ==
    s \in Seq(set) /\ \A e \in set : \E i \in 1..Len(s) : s[i] = e

Elements(cf, type) == {R!Element(cf, type, n) : n \in R!Names(cf, type)}

LEMMA SectionLists ==
    ASSUME NEW cf, NEW type, IsFiniteSet(R!Names(cf, type))
    PROVE  Lists(R!Section(cf, type), Elements(cf, type))
<1> DEFINE order == R!SetToSeq(R!Names(cf, type))
           s == R!Section(cf, type)
<1>1. PICK n \in Nat :
         /\ order \in [1..n -> R!Names(cf, type)]
         /\ \A x \in R!Names(cf, type) : \E i \in 1..n : order[i] = x
  BY Enumerated
<1>2. s = [i \in 1..n |-> R!Element(cf, type, order[i])]
  BY <1>1 DEF R!Section
<1>3. s \in Seq(Elements(cf, type)) /\ Len(s) = n
  <2>1. s \in [1..n -> Elements(cf, type)]
    BY <1>1, <1>2 DEF Elements
  <2> HIDE DEF s
  <2> QED
    BY <1>1, <2>1
<1>4. ASSUME NEW e \in Elements(cf, type)
      PROVE  \E i \in 1..Len(s) : s[i] = e
  <2>1. PICK x \in R!Names(cf, type) : e = R!Element(cf, type, x)
    BY DEF Elements
  <2>2. PICK i \in 1..n : order[i] = x
    BY <1>1
  <2>3. s[i] = e
    BY <1>2, <2>1, <2>2
  <2> QED
    BY <1>3, <2>3
<1> QED
  BY <1>3, <1>4 DEF Lists

(* After the router's own element those of the set.                        *)
Heads(s, first, set) ==
    /\ s \in Seq({first} \cup set) /\ Len(s) >= 1 /\ s[1] = first
    /\ \A i \in 2..Len(s) : s[i] \in set
    /\ \A e \in set : \E i \in 2..Len(s) : s[i] = e

LEMMA SectionAfter ==
    ASSUME NEW s, NEW first, NEW set, Heads(s, first, set),
           NEW cf, NEW type, IsFiniteSet(R!Names(cf, type))
    PROVE  Heads(s \o R!Section(cf, type), first, set \cup Elements(cf, type))
<1> DEFINE u == R!Section(cf, type)
           more == Elements(cf, type)
           all == {first} \cup (set \cup more)
<1>1. Lists(u, more)
  BY SectionLists
<1> HIDE DEF u, more
<1>2. s \in Seq(all) /\ u \in Seq(all) /\ Len(s) >= 1
  BY <1>1 DEF Lists, Heads
<1> HIDE DEF all
<1>3. /\ s \o u \in Seq(all) /\ Len(s \o u) = Len(s) + Len(u)
      /\ \A i \in 1..Len(s) : (s \o u)[i] = s[i]
      /\ \A i \in 1..Len(u) : (s \o u)[Len(s) + i] = u[i]
      /\ Len(s) \in Nat /\ Len(u) \in Nat
  BY <1>2
<1>4. ASSUME NEW i \in 2..Len(s \o u)
      PROVE  (s \o u)[i] \in set \cup more
  <2>1. CASE i =< Len(s)
    BY <1>3, <2>1 DEF Heads
  <2>2. CASE i > Len(s)
    <3> DEFINE j == i - Len(s)
    <3>1. j \in 1..Len(u) /\ i = Len(s) + j
      BY <1>3, <2>2
    <3>2. (s \o u)[i] = u[j]
      BY <1>3, <3>1
    <3>3. u[j] \in more
      BY <1>1, <3>1 DEF Lists
    <3> QED
      BY <3>2, <3>3
  <2> QED
    BY <1>3, <2>1, <2>2
<1>5. ASSUME NEW e \in set \cup more
      PROVE  \E i \in 2..Len(s \o u) : (s \o u)[i] = e
  <2>1. CASE e \in set
    <3>1. PICK i \in 2..Len(s) : s[i] = e
      BY <2>1 DEF Heads
    <3>2. i \in 2..Len(s \o u) /\ i \in 1..Len(s)
      BY <1>3
    <3> QED
      BY <1>3, <3>1, <3>2
  <2>2. CASE e \in more
    <3>1. PICK i \in 1..Len(u) : u[i] = e
      BY <1>1, <2>2 DEF Lists
    <3>2. Len(s) + i \in 2..Len(s \o u)
      BY <1>2, <1>3
    <3> QED
      BY <1>3, <3>1, <3>2
  <2> QED
    BY <2>1, <2>2
<1> QED
  BY <1>2, <1>3, <1>4, <1>5 DEF Heads, u, more, all

(* With finitely many entities there are finitely many to be written.      *)
Finite(cf) == \A t \in R!Type : IsFiniteSet(R!Names(cf, t))

(* The text that MarshalRouterConfig makes, whatever order it takes, is a  *)
(* text of the configuration.                                              *)
THEOREM Written ==
    ASSUME NEW cf, Finite(cf)
    PROVE  LET text == R!MarshalRouterConfig(cf)
           IN /\ R!Marshalled(text, cf)
              /\ text \in Seq({text[i] : i \in DOMAIN text})
<1> DEFINE first == R!RouterElement(cf)
           E(t) == Elements(cf, t)
<1>0. ASSUME NEW t \in R!Type
      PROVE  IsFiniteSet(R!Names(cf, t))
  BY DEF Finite
<1>1. Heads(<<first>>, first, {})
  BY DEF Heads
<1> DEFINE s1 == <<first>> \o R!Section(cf, "sslProfile")
           e1 == {} \cup E("sslProfile")
           s2 == s1 \o R!Section(cf, "connector")
           e2 == e1 \cup E("connector")
           s3 == s2 \o R!Section(cf, "listener")
           e3 == e2 \cup E("listener")
           s4 == s3 \o R!Section(cf, "address")
           e4 == e3 \cup E("address")
           s5 == s4 \o R!Section(cf, "tcpConnector")
           e5 == e4 \cup E("tcpConnector")
           s6 == s5 \o R!Section(cf, "tcpListener")
           e6 == e5 \cup E("tcpListener")
           s7 == s6 \o R!Section(cf, "httpConnector")
           e7 == e6 \cup E("httpConnector")
           s8 == s7 \o R!Section(cf, "httpListener")
           e8 == e7 \cup E("httpListener")
<1>2. R!MarshalRouterConfig(cf) = s8
  BY DEF R!MarshalRouterConfig
<1>3. e8 = UNION {E(t) : t \in R!Type}
  BY DEF R!Type
<1>4. Heads(s8, first, e8)
  <2> HIDE DEF first
  <2>1. Heads(s1, first, e1)
    BY <1>0, <1>1, SectionAfter DEF R!Type
  <2> HIDE DEF s1, e1
  <2>2. Heads(s2, first, e2)
    BY <1>0, <2>1, SectionAfter DEF R!Type
  <2> HIDE DEF s2, e2
  <2>3. Heads(s3, first, e3)
    BY <1>0, <2>2, SectionAfter DEF R!Type
  <2> HIDE DEF s3, e3
  <2>4. Heads(s4, first, e4)
    BY <1>0, <2>3, SectionAfter DEF R!Type
  <2> HIDE DEF s4, e4
  <2>5. Heads(s5, first, e5)
    BY <1>0, <2>4, SectionAfter DEF R!Type
  <2> HIDE DEF s5, e5
  <2>6. Heads(s6, first, e6)
    BY <1>0, <2>5, SectionAfter DEF R!Type
  <2> HIDE DEF s6, e6
  <2>7. Heads(s7, first, e7)
    BY <1>0, <2>6, SectionAfter DEF R!Type
  <2> HIDE DEF s7, e7
  <2> QED
    BY <1>0, <2>7, SectionAfter DEF R!Type
<1> DEFINE text == R!MarshalRouterConfig(cf)
<1> HIDE DEF s8, e8, first
<1>5. Heads(text, first, UNION {E(t) : t \in R!Type})
  BY <1>2, <1>3, <1>4
<1> HIDE DEF text
<1>6. text # <<>> /\ text[1] = R!RouterElement(cf)
  BY <1>5 DEF Heads, first
<1>7. ASSUME NEW i \in 2..Len(text)
      PROVE  LET e == text[i]
             IN /\ e.type \in R!Type
                /\ R!Has(cf, e.type, e.name)
                /\ e = R!Element(cf, e.type, e.name)
  <2>1. PICK t \in R!Type : text[i] \in E(t)
    BY <1>5 DEF Heads
  <2>2. PICK n \in R!Names(cf, t) : text[i] = R!Element(cf, t, n)
    BY <2>1 DEF Elements
  <2>3. text[i].type = t /\ text[i].name = n
    BY <2>2 DEF R!Element
  <2> QED
    BY <2>2, <2>3 DEF R!Has
<1>8. ASSUME NEW t \in R!Type, NEW n \in R!Names(cf, t)
      PROVE  \E i \in 2..Len(text) : text[i].type = t /\ text[i].name = n
  <2>1. R!Element(cf, t, n) \in UNION {E(x) : x \in R!Type}
    BY DEF Elements
  <2>2. PICK i \in 2..Len(text) : text[i] = R!Element(cf, t, n)
    BY <1>5, <2>1 DEF Heads
  <2>3. text[i].type = t /\ text[i].name = n
    BY <2>2 DEF R!Element
  <2> QED
    BY <2>3
<1>9. text \in Seq({text[i] : i \in DOMAIN text})
  BY <1>5 DEF Heads
<1> QED
  BY <1>6, <1>7, <1>8, <1>9 DEF R!Marshalled, text

(* What one command wrote is what the next one reads.                      *)
LEMMA ReadBack ==
    ASSUME NEW cf, IsConfiguration(cf), Finite(cf)
    PROVE  R!UnmarshalRouterConfig(R!MarshalRouterConfig(cf)) = cf
<1> DEFINE text == R!MarshalRouterConfig(cf)
<1>1. R!Marshalled(text, cf) /\ text \in Seq({text[i] : i \in DOMAIN text})
  BY Written
<1> HIDE DEF text
<1> QED
  BY <1>1, RoundTrip DEF text

-----------------------------------------------------------------------------
(* Connectors. *)

(* The same configuration with another map for one of the types.           *)
Replace(cf, type, map) ==
    [metadata |-> cf.metadata,
     entities |-> [t \in R!Type |-> IF t = type THEN map ELSE cf.entities[t]]]

Added(map, name, entity) ==
    [n \in DOMAIN map \cup {name} |-> IF n = name THEN entity ELSE map[n]]

Dropped(map, name) == [n \in DOMAIN map \ {name} |-> map[n]]

LEMMA ReplaceType ==
    ASSUME NEW cf, IsConfiguration(cf), NEW type \in R!Type,
           NEW map, map = [n \in DOMAIN map |-> map[n]]
    PROVE  /\ IsConfiguration(Replace(cf, type, map))
           /\ Replace(cf, type, map).entities[type] = map
           /\ \A t \in R!Type \ {type} :
                 Replace(cf, type, map).entities[t] = cf.entities[t]
           /\ [cf EXCEPT !.entities[type] = map]
                 = Replace(cf, type, map)
<1> DEFINE new == [t \in R!Type |-> IF t = type THEN map ELSE cf.entities[t]]
           c == Replace(cf, type, map)
<1>1. c = [metadata |-> cf.metadata, entities |-> new]
  BY DEF Replace
<1>2. new[type] = map /\ \A t \in R!Type \ {type} : new[t] = cf.entities[t]
  OBVIOUS
<1>3. new = [t \in R!Type |-> new[t]]
  OBVIOUS
<1>4. [cf.entities EXCEPT ![type] = map] = new
  BY DEF IsConfiguration
<1> HIDE DEF new
<1>5. c.metadata = cf.metadata /\ c.entities = new
  BY <1>1
<1> HIDE DEF c
<1>6. IsConfiguration(c)
  <2>1. \A t \in R!Type : new[t] = [n \in DOMAIN new[t] |-> new[t][n]]
    <3> SUFFICES ASSUME NEW t \in R!Type
                 PROVE  new[t] = [n \in DOMAIN new[t] |-> new[t][n]]
      OBVIOUS
    <3>1. CASE t = type
      BY <1>2, <3>1
    <3>2. CASE t # type
      <4>1. new[t] = cf.entities[t]
        BY <1>2, <3>2
      <4> QED
        BY <4>1 DEF IsConfiguration, R!Names, R!Entity
    <3> QED
      BY <3>1, <3>2
  <2> QED
    BY <1>1, <1>3, <1>5, <2>1, Zenon DEF IsConfiguration, R!Names, R!Entity
<1>7. [cf EXCEPT !.entities[type] = map] = c
  <2>1. [cf EXCEPT !.entities = new]
           = [metadata |-> cf.metadata, entities |-> new]
    BY DEF IsConfiguration
  <2> QED
    BY <1>1, <1>4, <2>1
<1> QED
  BY <1>2, <1>5, <1>6, <1>7 DEF c

LEMMA WithReplaces ==
    ASSUME NEW cf, IsConfiguration(cf), NEW type \in R!Type,
           NEW name, NEW entity
    PROVE  R!With(cf, type, name, entity)
              = Replace(cf, type, Added(cf.entities[type], name, entity))
<1>1. R!With(cf, type, name, entity)
         = [cf EXCEPT !.entities[type] =
               Added(cf.entities[type], name, entity)]
  BY DEF R!With, Added
<1>2. Added(cf.entities[type], name, entity)
         = [n \in DOMAIN Added(cf.entities[type], name, entity) |->
               Added(cf.entities[type], name, entity)[n]]
  BY DEF Added
<1> QED
  BY <1>1, <1>2, ReplaceType

LEMMA WithoutReplaces ==
    ASSUME NEW cf, IsConfiguration(cf), NEW type \in R!Type, NEW name
    PROVE  R!Without(cf, type, name)
              = Replace(cf, type, Dropped(cf.entities[type], name))
<1>1. R!Without(cf, type, name)
         = [cf EXCEPT !.entities[type] =
               Dropped(cf.entities[type], name)]
  BY DEF R!Without, Dropped
<1>2. Dropped(cf.entities[type], name)
         = [n \in DOMAIN Dropped(cf.entities[type], name) |->
               Dropped(cf.entities[type], name)[n]]
  BY DEF Dropped
<1> QED
  BY <1>1, <1>2, ReplaceType

LEMMA SameEntities ==
    ASSUME NEW a, NEW b, IsConfiguration(a), IsConfiguration(b),
           a.metadata = b.metadata,
           \A t \in R!Type : a.entities[t] = b.entities[t]
    PROVE  a = b
<1>1. a.entities = b.entities
  BY DEF IsConfiguration
<1> QED
  BY <1>1 DEF IsConfiguration

LEMMA DroppedAdded ==
    ASSUME NEW map, map = [n \in DOMAIN map |-> map[n]],
           NEW name, name \notin DOMAIN map, NEW entity
    PROVE  Dropped(Added(map, name, entity), name) = map
<1> DEFINE added == Added(map, name, entity)
<1>1. DOMAIN added = DOMAIN map \cup {name}
      /\ \A n \in DOMAIN map : added[n] = map[n]
  BY DEF Added
<1>2. Dropped(added, name) = [n \in (DOMAIN map \cup {name}) \ {name} |-> added[n]]
  BY <1>1 DEF Dropped
<1>3. (DOMAIN map \cup {name}) \ {name} = DOMAIN map
  OBVIOUS
<1>4. [n \in DOMAIN map |-> added[n]] = [n \in DOMAIN map |-> map[n]]
  BY <1>1
<1> HIDE DEF added
<1> QED
  BY <1>2, <1>3, <1>4 DEF added

(* What `connect` adds.                                                    *)
ConnProfile(name) ==
    [dir |-> "/etc/qpid-dispatch/connections", sub |-> R!ProfileName(name)[1]]
ConnEntity(name, role, host) ==
    [role |-> role, host |-> host, sslProfile |-> R!ProfileName(name)]

LEMMA WithChanges ==
    ASSUME NEW cf, IsConfiguration(cf), NEW type \in R!Type,
           NEW name, NEW entity
    PROVE  LET c == R!With(cf, type, name, entity)
           IN /\ IsConfiguration(c) /\ c.metadata = cf.metadata
              /\ c.entities[type] = Added(cf.entities[type], name, entity)
              /\ \A t \in R!Type \ {type} : c.entities[t] = cf.entities[t]
              /\ Finite(cf) => Finite(c)
<1> DEFINE map == Added(cf.entities[type], name, entity)
           c == R!With(cf, type, name, entity)
<1>1. c = Replace(cf, type, map)
  BY WithReplaces
<1>2. map = [n \in DOMAIN map |-> map[n]]
      /\ DOMAIN map = DOMAIN cf.entities[type] \cup {name}
  BY DEF Added
<1>3. Replace(cf, type, map).metadata = cf.metadata
  BY DEF Replace
<1> HIDE DEF map, c
<1>4. /\ IsConfiguration(c) /\ c.metadata = cf.metadata
      /\ c.entities[type] = map
      /\ \A t \in R!Type \ {type} : c.entities[t] = cf.entities[t]
  BY <1>1, <1>2, <1>3, ReplaceType
<1>5. Finite(cf) => Finite(c)
  <2> SUFFICES ASSUME Finite(cf), NEW t \in R!Type
               PROVE  IsFiniteSet(R!Names(c, t))
    BY DEF Finite
  <2>1. CASE t = type
    BY <1>2, <1>4, <2>1, FS_AddElement DEF Finite, R!Names
  <2>2. CASE t # type
    BY <1>4, <2>2 DEF Finite, R!Names
  <2> QED
    BY <2>1, <2>2
<1> QED
  BY <1>4, <1>5 DEF map, c

LEMMA WithoutChanges ==
    ASSUME NEW cf, IsConfiguration(cf), NEW type \in R!Type, NEW name
    PROVE  LET c == R!Without(cf, type, name)
           IN /\ IsConfiguration(c) /\ c.metadata = cf.metadata
              /\ c.entities[type] = Dropped(cf.entities[type], name)
              /\ \A t \in R!Type \ {type} : c.entities[t] = cf.entities[t]
              /\ Finite(cf) => Finite(c)
<1> DEFINE map == Dropped(cf.entities[type], name)
           c == R!Without(cf, type, name)
<1>1. c = Replace(cf, type, map)
  BY WithoutReplaces
<1>2. map = [n \in DOMAIN map |-> map[n]]
      /\ DOMAIN map = DOMAIN cf.entities[type] \ {name}
  BY DEF Dropped
<1>3. Replace(cf, type, map).metadata = cf.metadata
  BY DEF Replace
<1> HIDE DEF map, c
<1>4. /\ IsConfiguration(c) /\ c.metadata = cf.metadata
      /\ c.entities[type] = map
      /\ \A t \in R!Type \ {type} : c.entities[t] = cf.entities[t]
  BY <1>1, <1>2, <1>3, ReplaceType
<1>5. Finite(cf) => Finite(c)
  <2> SUFFICES ASSUME Finite(cf), NEW t \in R!Type
               PROVE  IsFiniteSet(R!Names(c, t))
    BY DEF Finite
  <2>1. CASE t = type
    BY <1>2, <1>4, <2>1, FS_RemoveElement DEF Finite, R!Names
  <2>2. CASE t # type
    BY <1>4, <2>2 DEF Finite, R!Names
  <2> QED
    BY <2>1, <2>2
<1> QED
  BY <1>4, <1>5 DEF map, c

LEMMA ConnectedChanges ==
    ASSUME NEW cf, IsConfiguration(cf), NEW name, NEW role, NEW host
    PROVE  LET c == R!Connected(cf, name, role, host)
           IN /\ IsConfiguration(c)
              /\ c.metadata = cf.metadata
              /\ c.entities["sslProfile"] =
                    Added(cf.entities["sslProfile"], R!ProfileName(name),
                          ConnProfile(name))
              /\ c.entities["connector"] =
                    Added(cf.entities["connector"], name,
                          ConnEntity(name, role, host))
              /\ \A t \in R!Type \ {"sslProfile", "connector"} :
                    c.entities[t] = cf.entities[t]
              /\ Finite(cf) => Finite(c)
<1> DEFINE p == ConnProfile(name)
           e == ConnEntity(name, role, host)
           c1 == R!With(cf, "sslProfile", R!ProfileName(name), p)
           c == R!With(c1, "connector", name, e)
<1>0. "sslProfile" \in R!Type /\ "connector" \in R!Type
  BY TypeSet
<1>1. R!Connected(cf, name, role, host) = c
  BY DEF R!Connected, R!AddConnector, R!AddConnSslProfile, ConnProfile,
     ConnEntity
<1>2. /\ IsConfiguration(c1) /\ c1.metadata = cf.metadata
      /\ c1.entities["sslProfile"] =
            Added(cf.entities["sslProfile"], R!ProfileName(name), p)
      /\ \A t \in R!Type \ {"sslProfile"} : c1.entities[t] = cf.entities[t]
      /\ Finite(cf) => Finite(c1)
  BY <1>0, WithChanges
<1> HIDE DEF c1, p, e
<1>3. /\ IsConfiguration(c) /\ c.metadata = c1.metadata
      /\ c.entities["connector"] = Added(c1.entities["connector"], name, e)
      /\ \A t \in R!Type \ {"connector"} : c.entities[t] = c1.entities[t]
      /\ Finite(c1) => Finite(c)
  BY <1>0, <1>2, WithChanges
<1> HIDE DEF c
<1> QED
  BY <1>0, <1>1, <1>2, <1>3 DEF p, e

LEMMA DisconnectedChanges ==
    ASSUME NEW cf, IsConfiguration(cf), NEW name
    PROVE  LET c == R!Disconnected(cf, name)
           IN /\ IsConfiguration(c)
              /\ c.metadata = cf.metadata
              /\ c.entities["sslProfile"] =
                    Dropped(cf.entities["sslProfile"], R!ProfileName(name))
              /\ c.entities["connector"] =
                    Dropped(cf.entities["connector"], name)
              /\ \A t \in R!Type \ {"sslProfile", "connector"} :
                    c.entities[t] = cf.entities[t]
              /\ Finite(cf) => Finite(c)
<1> DEFINE c1 == R!Without(cf, "connector", name)
           c == R!Without(c1, "sslProfile", R!ProfileName(name))
<1>0. "sslProfile" \in R!Type /\ "connector" \in R!Type
  BY TypeSet
<1>1. R!Disconnected(cf, name) = c
  BY DEF R!Disconnected, R!RemoveConnector, R!RemoveConnSslProfile
<1>2. /\ IsConfiguration(c1) /\ c1.metadata = cf.metadata
      /\ c1.entities["connector"] = Dropped(cf.entities["connector"], name)
      /\ \A t \in R!Type \ {"connector"} : c1.entities[t] = cf.entities[t]
      /\ Finite(cf) => Finite(c1)
  BY <1>0, WithoutChanges
<1> HIDE DEF c1
<1>3. /\ IsConfiguration(c) /\ c.metadata = c1.metadata
      /\ c.entities["sslProfile"] =
            Dropped(c1.entities["sslProfile"], R!ProfileName(name))
      /\ \A t \in R!Type \ {"sslProfile"} : c.entities[t] = c1.entities[t]
      /\ Finite(c1) => Finite(c)
  BY <1>0, <1>2, WithoutChanges
<1> HIDE DEF c
<1> QED
  BY <1>0, <1>1, <1>2, <1>3

(* What `connect` reads from one file, changes and writes, in any order,   *)
(* `disconnect` reads and changes back: nothing of the connector stays, and*)
(* nothing else goes.                                                      *)
THEOREM DisconnectUndoesConnect ==
    ASSUME NEW cf, IsConfiguration(cf), NEW name, NEW role, NEW host,
           ~R!Has(cf, "connector", name),
           ~R!Has(cf, "sslProfile", R!ProfileName(name)),
           NEW S, NEW before \in Seq(S), NEW after \in Seq(S),
           R!Marshalled(before, cf),
           R!Marshalled(after, R!Connected(R!UnmarshalRouterConfig(before),
                                       name, role, host))
    PROVE  R!Disconnected(R!UnmarshalRouterConfig(after), name) = cf
<1> DEFINE c == R!Connected(cf, name, role, host)
           d == R!Disconnected(c, name)
<1>1. R!UnmarshalRouterConfig(before) = cf
  BY RoundTrip
<1>2. IsConfiguration(c) /\ R!UnmarshalRouterConfig(after) = c
  BY <1>1, RoundTrip, ConnectedChanges
<1>3. IsConfiguration(d) /\ d.metadata = cf.metadata
  BY <1>2, ConnectedChanges, DisconnectedChanges
<1>4. "sslProfile" \in R!Type /\ "connector" \in R!Type
  BY TypeSet
<1>5. \A t \in {"sslProfile", "connector"} :
         cf.entities[t] =
            [n \in DOMAIN cf.entities[t] |-> cf.entities[t][n]]
  BY <1>4 DEF IsConfiguration, R!Names, R!Entity
<1>6. d.entities["sslProfile"] = cf.entities["sslProfile"]
  <2>1. R!ProfileName(name) \notin DOMAIN cf.entities["sslProfile"]
    BY DEF R!Has, R!Names
  <2>2. c.entities["sslProfile"] =
           Added(cf.entities["sslProfile"], R!ProfileName(name),
                 ConnProfile(name))
    BY ConnectedChanges
  <2>3. d.entities["sslProfile"] =
           Dropped(c.entities["sslProfile"], R!ProfileName(name))
    BY <1>2, DisconnectedChanges
  <2> QED
    BY <1>5, <2>1, <2>2, <2>3, DroppedAdded
<1>7. d.entities["connector"] = cf.entities["connector"]
  <2>1. name \notin DOMAIN cf.entities["connector"]
    BY DEF R!Has, R!Names
  <2>2. c.entities["connector"] =
           Added(cf.entities["connector"], name,
                 ConnEntity(name, role, host))
    BY ConnectedChanges
  <2>3. d.entities["connector"] = Dropped(c.entities["connector"], name)
    BY <1>2, DisconnectedChanges
  <2> QED
    BY <1>5, <2>1, <2>2, <2>3, DroppedAdded
<1>8. \A t \in R!Type \ {"sslProfile", "connector"} :
         d.entities[t] = cf.entities[t]
  BY <1>2, ConnectedChanges, DisconnectedChanges
<1>9. d = cf
  <2> HIDE DEF d
  <2> QED
    BY <1>3, <1>6, <1>7, <1>8, SameEntities
<1> QED
  BY <1>2, <1>9

-----------------------------------------------------------------------------
(* Containers. *)

(* A container as docker has it: it has the variables of its image, and    *)
(* sets none of them to nothing.                                           *)
IsContainer(c) ==
    /\ c = [hostname |-> c.hostname, image |-> c.image, env |-> c.env,
            cmd |-> c.cmd, health |-> c.health, labels |-> c.labels,
            ports |-> c.ports, mounts |-> c.mounts,
            privileged |-> c.privileged, networks |-> c.networks]
    /\ c.env = [n \in DOMAIN c.env |-> c.env[n]]
    /\ c.health = [test |-> c.health.test, startPeriod |-> c.health.startPeriod,
                   interval |-> 0]
    /\ \A n \in DOMAIN ImageEnv[c.image] :
          /\ n \in DOMAIN c.env
          /\ c.env[n] = R!NoText => ImageEnv[c.image][n] = R!NoText

LEMMA NamedOverlay ==
    ASSUME NEW own, own = [n \in DOMAIN own |-> own[n]], NEW image,
           \A n \in DOMAIN image :
              n \in DOMAIN own /\ (own[n] = R!NoText => image[n] = R!NoText)
    PROVE  LET env == R!Overlay(image, R!Named(own))
           IN /\ R!Named(env) = R!Named(own)
              /\ env = [n \in DOMAIN env |-> env[n]]
              /\ \A n \in DOMAIN image :
                    n \in DOMAIN env /\ (env[n] = R!NoText => image[n] = R!NoText)
<1> DEFINE set == {m \in DOMAIN own : own[m] # R!NoText}
           env == R!Overlay(image, R!Named(own))
<1>1. R!Named(own) = [n \in set |-> own[n]]
  BY DEF R!Named
<1>2. /\ DOMAIN env = DOMAIN image \cup set
      /\ \A n \in set : env[n] = own[n]
      /\ \A n \in DOMAIN image \ set : env[n] = image[n]
      /\ env = [n \in DOMAIN env |-> env[n]]
  BY <1>1 DEF R!Overlay
<1>3. \A n \in DOMAIN image \ set : image[n] = R!NoText
  OBVIOUS
<1> HIDE DEF env
<1>4. {m \in DOMAIN env : env[m] # R!NoText} = set
  BY <1>2, <1>3
<1>5. R!Named(env) = [n \in set |-> env[n]]
  BY <1>4 DEF R!Named
<1> QED
  BY <1>1, <1>2, <1>3, <1>5 DEF env

(* A description with its fields one by one.                               *)
Fields(c, env, command, privileged) ==
    [hostname |-> c.hostname, image |-> c.image, env |-> env, cmd |-> command,
     health |-> c.health, labels |-> c.labels, ports |-> c.ports,
     mounts |-> c.mounts, privileged |-> privileged, networks |-> c.networks]

LEMMA FieldsAre ==
    ASSUME NEW c, NEW e, NEW m, NEW p
    PROVE  /\ Fields(c, e, m, p).env = e
           /\ Fields(c, e, m, p).cmd = m
           /\ Fields(c, e, m, p).privileged = p
           /\ Fields(c, e, m, p).image = c.image
           /\ Fields(c, e, m, p).health = c.health
BY DEF Fields

LEMMA FieldsChange ==
    ASSUME NEW c, NEW e, NEW m, NEW p, NEW x
    PROVE  /\ [Fields(c, e, m, p) EXCEPT !.env = x] = Fields(c, x, m, p)
           /\ [Fields(c, e, m, p) EXCEPT !.cmd = x] = Fields(c, e, x, p)
           /\ [Fields(c, e, m, p) EXCEPT !.privileged = x] = Fields(c, e, m, x)
           /\ [Fields(c, e, m, p) EXCEPT !.health = c.health]
                 = Fields(c, e, m, p)
BY DEF Fields

LEMMA FieldsOfFields ==
    ASSUME NEW c, NEW e, NEW m, NEW p, NEW f, NEW n, NEW q
    PROVE  Fields(Fields(c, e, m, p), f, n, q) = Fields(c, f, n, q)
BY DEF Fields

(* Whatever the images bring along, and however often a container is       *)
(* recreated: the container that docker makes is described as the one in   *)
(* whose place it is, but for the command and for variables set to nothing.*)
THEOREM RecreatedKeeps ==
    ASSUME NEW c, IsContainer(c)
    PROVE  LET r == R!Recreated("docker", c)
           IN /\ IsContainer(r)
              /\ R!Named(r.env) = R!Named(c.env)
              /\ Fields(r, c.env, c.cmd, c.privileged) = c
<1> DEFINE image == ImageEnv[c.image]
           env == R!Overlay(image, R!Named(c.env))
           privileged == TRUE
           r == Fields(c, env, ImageCmd[c.image], privileged)
           told == Fields(c, R!Named(c.env), R!NoCmd, privileged)
<1>0. c = Fields(c, c.env, c.cmd, c.privileged)
  BY Zenon DEF IsContainer, Fields
<1>1. R!ContainerInspect("docker", c)
         = Fields(c, R!Named(c.env), R!NoCmd, c.privileged)
  <2>1. R!ContainerInspect("docker", c)
           = [[c EXCEPT !.env = R!Named(c.env)] EXCEPT !.cmd = R!NoCmd]
    BY DEF R!ContainerInspect
  <2>2. [c EXCEPT !.env = R!Named(c.env)]
           = Fields(c, R!Named(c.env), c.cmd, c.privileged)
    BY <1>0, FieldsChange
  <2>3. [Fields(c, R!Named(c.env), c.cmd, c.privileged) EXCEPT !.cmd = R!NoCmd]
           = Fields(c, R!Named(c.env), R!NoCmd, c.privileged)
    BY DEF Fields
  <2> QED
    BY <2>1, <2>2, <2>3, Zenon
<1>a. R!RecreateOptions(R!ContainerInspect("docker", c))
         = [R!ContainerInspect("docker", c) EXCEPT !.privileged = privileged]
  BY DEF R!RecreateOptions
<1> HIDE DEF privileged
<1>2. R!RecreateOptions(R!ContainerInspect("docker", c)) = told
  <2>1. [Fields(c, R!Named(c.env), R!NoCmd, c.privileged)
            EXCEPT !.privileged = privileged] = told
    BY DEF Fields
  <2> QED
    BY <1>1, <1>a, <2>1, Zenon
<1>3. R!newDockerContainerSpec(told) = told
  <2>1. [c.health EXCEPT !.interval = 0] = c.health
    BY DEF IsContainer
  <2>2. R!newDockerContainerSpec(told)
           = [told EXCEPT !.health = [told.health EXCEPT !.interval = 0]]
    BY DEF R!newDockerContainerSpec
  <2>3. told.health = c.health
    BY FieldsAre
  <2> HIDE DEF told
  <2>4. R!newDockerContainerSpec(told) = [told EXCEPT !.health = c.health]
    BY <2>1, <2>2, <2>3, Zenon
  <2> QED
    BY <2>4, FieldsChange DEF told
<1>4. R!Made(told) = r
  <2>1. told.env = R!Named(c.env) /\ told.cmd = R!NoCmd /\ told.image = c.image
    BY FieldsAre
  <2> HIDE DEF told
  <2>2. R!Made(told)
           = [[told EXCEPT !.env = env] EXCEPT !.cmd = ImageCmd[c.image]]
    BY <2>1 DEF R!Made
  <2>3. [told EXCEPT !.env = env] = Fields(c, env, R!NoCmd, privileged)
    BY FieldsChange DEF told
  <2>4. [Fields(c, env, R!NoCmd, privileged) EXCEPT !.cmd = ImageCmd[c.image]]
           = r
    BY DEF Fields
  <2> QED
    BY <2>2, <2>3, <2>4, Zenon
<1>5. R!Recreated("docker", c) = r
  <2> HIDE DEF told, r
  <2> QED
    BY <1>2, <1>3, <1>4, Zenon DEF R!Recreated, R!ContainerCreate
<1>6. /\ R!Named(env) = R!Named(c.env)
      /\ env = [n \in DOMAIN env |-> env[n]]
      /\ \A n \in DOMAIN image :
            n \in DOMAIN env /\ (env[n] = R!NoText => image[n] = R!NoText)
  BY NamedOverlay DEF IsContainer
<1> HIDE DEF env
<1>7. r.env = env /\ r.image = c.image /\ r.health = c.health
      /\ r.cmd = ImageCmd[c.image] /\ r.privileged = privileged
  BY FieldsAre
<1>8. /\ r = Fields(r, env, ImageCmd[c.image], privileged)
      /\ Fields(r, c.env, c.cmd, c.privileged) = c
  BY <1>0, FieldsOfFields
<1> HIDE DEF r
<1>9. IsContainer(r)
  <2>1. r = Fields(r, r.env, r.cmd, r.privileged)
    BY <1>7, <1>8, Zenon
  <2>2. r.health = [test |-> r.health.test, startPeriod |-> r.health.startPeriod,
                    interval |-> 0]
    BY <1>7, Zenon DEF IsContainer
  <2> QED
    BY <1>6, <1>7, <2>1, <2>2, Zenon DEF IsContainer, Fields
<1> QED
  BY <1>5, <1>6, <1>7, <1>8, <1>9, Zenon
-----------------------------------------------------------------------------
(* The first configuration. *)

SiteProfile(name) == [dir |-> "/etc/qpid-dispatch-certs", sub |-> name]

(* A TLS profile of the site, for which `init` has made a certificate.     *)
HasSiteProfile(cf, opts, profile) ==
    \E p \in {"skupper-amqps", "skupper-internal"} :
        /\ profile = <<p>>
        /\ R!Certified(opts, p)
        /\ R!Has(cf, "sslProfile", <<p>>)
        /\ R!Entity(cf, "sslProfile", <<p>>) = SiteProfile(p)

ListenersSecured(cf, opts) ==
    \A n \in R!Names(cf, "listener") :
        LET profile == R!Entity(cf, "listener", n).sslProfile
        IN profile # <<>> => HasSiteProfile(cf, opts, profile)

(* A configuration of the site as `init` writes it.                        *)
Unconnected(cf, opts, site, edge) ==
    /\ IsConfiguration(cf) /\ Finite(cf)
    /\ R!IsEdge(cf) = edge /\ cf.metadata.site = site
    /\ R!Has(cf, "address", "mc")
    /\ ListenersSecured(cf, opts)
    /\ R!Names(cf, "connector") = {}

LEMMA ListenerAdded ==
    ASSUME NEW cf, NEW opts, NEW site, NEW edge,
           Unconnected(cf, opts, site, edge), NEW name, NEW listener,
           \/ listener.sslProfile = <<>>
           \/ HasSiteProfile(cf, opts, listener.sslProfile)
    PROVE  LET c == R!AddListener(cf, name, listener)
           IN /\ Unconnected(c, opts, site, edge)
              /\ \A p : HasSiteProfile(cf, opts, p) => HasSiteProfile(c, opts, p)
<1> DEFINE key == IF name = "" THEN <<listener.host, listener.port>>
                  ELSE <<name>>
           c == R!AddListener(cf, name, listener)
<1>0. /\ "listener" \in R!Type /\ "sslProfile" \in R!Type \ {"listener"}
      /\ "connector" \in R!Type \ {"listener"}
      /\ "address" \in R!Type \ {"listener"}
  BY TypeSet
<1>1. c = R!With(cf, "listener", key, listener)
  BY DEF R!AddListener
<1> HIDE DEF c, key
<1>2. /\ IsConfiguration(c) /\ Finite(c) /\ c.metadata = cf.metadata
      /\ c.entities["listener"] = Added(cf.entities["listener"], key, listener)
      /\ \A t \in R!Type \ {"listener"} : c.entities[t] = cf.entities[t]
  BY <1>0, <1>1, WithChanges DEF Unconnected
<1>3. ASSUME NEW p, HasSiteProfile(cf, opts, p)
      PROVE  HasSiteProfile(c, opts, p)
  BY <1>0, <1>2, <1>3 DEF HasSiteProfile, R!Has, R!Names, R!Entity
<1>4. ListenersSecured(c, opts)
  <2> SUFFICES ASSUME NEW n \in R!Names(c, "listener"),
                      R!Entity(c, "listener", n).sslProfile # <<>>
               PROVE  HasSiteProfile(c, opts,
                                     R!Entity(c, "listener", n).sslProfile)
    BY DEF ListenersSecured
  <2>1. CASE n = key
    <3>1. R!Entity(c, "listener", n) = listener
      BY <1>2, <2>1 DEF Added, R!Entity
    <3> QED
      BY <1>3, <3>1
  <2>2. CASE n # key
    <3>1. /\ n \in R!Names(cf, "listener")
          /\ R!Entity(c, "listener", n) = R!Entity(cf, "listener", n)
      BY <1>2, <2>2 DEF Added, R!Entity, R!Names
    <3> QED
      BY <1>3, <3>1 DEF Unconnected, ListenersSecured
  <2> QED
    BY <2>1, <2>2
<1>5. Unconnected(c, opts, site, edge)
  BY <1>0, <1>2, <1>4 DEF Unconnected, R!IsEdge, R!Has, R!Names
<1> QED
  BY <1>3, <1>5 DEF c

LEMMA SiteProfileAdded ==
    ASSUME NEW cf, NEW opts, NEW site, NEW edge,
           Unconnected(cf, opts, site, edge),
           NEW p \in {"skupper-amqps", "skupper-internal"},
           R!Certified(opts, p)
    PROVE  LET c == R!AddSslProfile(cf, p)
           IN /\ Unconnected(c, opts, site, edge)
              /\ HasSiteProfile(c, opts, <<p>>)
<1> DEFINE c == R!AddSslProfile(cf, p)
<1>0. /\ "sslProfile" \in R!Type /\ "listener" \in R!Type \ {"sslProfile"}
      /\ "connector" \in R!Type \ {"sslProfile"}
      /\ "address" \in R!Type \ {"sslProfile"}
  BY TypeSet
<1>1. c = R!With(cf, "sslProfile", <<p>>, SiteProfile(p))
  BY DEF R!AddSslProfile, SiteProfile
<1> HIDE DEF c
<1>2. /\ IsConfiguration(c) /\ Finite(c) /\ c.metadata = cf.metadata
      /\ c.entities["sslProfile"] =
            Added(cf.entities["sslProfile"], <<p>>, SiteProfile(p))
      /\ \A t \in R!Type \ {"sslProfile"} : c.entities[t] = cf.entities[t]
  BY <1>0, <1>1, WithChanges DEF Unconnected
<1>3. HasSiteProfile(c, opts, <<p>>)
  <2>1. /\ R!Has(c, "sslProfile", <<p>>)
        /\ R!Entity(c, "sslProfile", <<p>>) = SiteProfile(p)
    BY <1>2 DEF Added, R!Has, R!Names, R!Entity
  <2> QED
    BY <2>1 DEF HasSiteProfile
<1>4. ASSUME NEW r, HasSiteProfile(cf, opts, r)
      PROVE  HasSiteProfile(c, opts, r)
  <2>1. PICK x \in {"skupper-amqps", "skupper-internal"} :
           /\ r = <<x>> /\ R!Certified(opts, x)
           /\ R!Has(cf, "sslProfile", <<x>>)
           /\ R!Entity(cf, "sslProfile", <<x>>) = SiteProfile(x)
    BY <1>4 DEF HasSiteProfile
  <2>2. CASE x = p
    BY <1>3, <2>1, <2>2
  <2>3. CASE x # p
    <3>1. <<x>> # <<p>>
      BY <2>3
    <3>2. /\ R!Has(c, "sslProfile", <<x>>)
          /\ R!Entity(c, "sslProfile", <<x>>) = SiteProfile(x)
      BY <1>2, <2>1, <3>1 DEF Added, R!Has, R!Names, R!Entity
    <3> QED
      BY <2>1, <3>2 DEF HasSiteProfile
  <2> QED
    BY <2>2, <2>3
<1>5. ListenersSecured(c, opts)
  BY <1>0, <1>2, <1>4 DEF Unconnected, ListenersSecured, R!Names, R!Entity
<1>6. Unconnected(c, opts, site, edge)
  BY <1>0, <1>2, <1>5 DEF Unconnected, R!IsEdge, R!Has, R!Names
<1> QED
  BY <1>3, <1>6 DEF c

(* The certificates that `init` makes are those its listeners need.        *)
LEMMA CertifiedProfiles ==
    ASSUME NEW opts
    PROVE  /\ R!Certified(opts, "skupper-amqps")
           /\ ~opts.edge => R!Certified(opts, "skupper-internal")
<1>1. R!Certified(opts, "skupper-amqps")
  <2> DEFINE k == [ca |-> "skupper-ca", name |-> "skupper-amqps"]
  <2>1. k \in R!Credentials(opts)
    BY DEF R!Credentials
  <2>2. k.name \in R!Volumes(opts) /\ k.ca \in R!CertAuthorities(opts)
    BY DEF R!Volumes, R!CertAuthorities
  <2> QED
    BY <2>1, <2>2 DEF R!Certified
<1>2. ASSUME ~opts.edge
      PROVE  R!Certified(opts, "skupper-internal")
  <2> DEFINE k == [ca |-> "skupper-internal-ca", name |-> "skupper-internal"]
  <2>1. k \in R!Credentials(opts)
    BY <1>2 DEF R!Credentials
  <2>2. k.name \in R!Volumes(opts) /\ k.ca \in R!CertAuthorities(opts)
    BY <1>2 DEF R!Volumes, R!CertAuthorities
  <2> QED
    BY <2>1, <2>2 DEF R!Certified
<1> QED
  BY <1>1, <1>2

LEMMA FirstEntities ==
    ASSUME NEW opts, NEW site, NEW id, opts.edge \in BOOLEAN
    PROVE  Unconnected(R!AddAddress(R!InitialConfig(id, site, opts.edge), "mc",
                                    "multicast"),
                       opts, site, opts.edge)
<1> DEFINE c0 == R!InitialConfig(id, site, opts.edge)
           c == R!AddAddress(c0, "mc", "multicast")
<1>0. /\ "address" \in R!Type /\ "listener" \in R!Type \ {"address"}
      /\ "connector" \in R!Type \ {"address"}
  BY TypeSet
<1>1. /\ c0.entities = [t \in R!Type |-> <<>>]
      /\ c0.metadata.site = site
      /\ c0.metadata.mode = IF opts.edge THEN "edge" ELSE "interior"
      /\ c0 = [metadata |-> c0.metadata, entities |-> c0.entities]
  BY DEF R!InitialConfig, R!NoEntities
<1> HIDE DEF c0
<1>2. \A t \in R!Type : c0.entities[t] = <<>> /\ R!Names(c0, t) = {}
  BY <1>1 DEF R!Names
<1>3. IsConfiguration(c0)
  <2>1. \A t \in R!Type : c0.entities[t] =
           [n \in R!Names(c0, t) |-> R!Entity(c0, t, n)]
    <3>1. \A f : <<>> = [n \in {} |-> f]
      OBVIOUS
    <3>2. ASSUME NEW t \in R!Type
          PROVE  <<>> = [n \in {} |-> R!Entity(c0, t, n)]
      OBVIOUS
    <3> QED
      BY <1>2, <3>2
  <2> QED
    BY <1>1, <2>1 DEF IsConfiguration
<1>4. Finite(c0)
  BY <1>2, FS_EmptySet DEF Finite
<1>5. c = R!With(c0, "address", "mc", [distribution |-> "multicast"])
  BY DEF R!AddAddress
<1> HIDE DEF c
<1>6. /\ IsConfiguration(c) /\ Finite(c) /\ c.metadata = c0.metadata
      /\ c.entities["address"] = Added(c0.entities["address"], "mc",
                                       [distribution |-> "multicast"])
      /\ \A t \in R!Type \ {"address"} : c.entities[t] = c0.entities[t]
  BY <1>0, <1>3, <1>4, <1>5, WithChanges
<1>7. R!Has(c, "address", "mc")
  BY <1>6 DEF Added, R!Has, R!Names
<1>8. R!Names(c, "listener") = {} /\ R!Names(c, "connector") = {}
  BY <1>0, <1>2, <1>6 DEF R!Names
<1>9. R!IsEdge(c) = opts.edge /\ c.metadata.site = site
  BY <1>1, <1>6 DEF R!IsEdge
<1> QED
  BY <1>6, <1>7, <1>8, <1>9 DEF Unconnected, ListenersSecured, c, c0

Listen(c, name, host, port, role, profile) ==
    R!AddListener(c, name, [host |-> host, port |-> port, role |-> role,
                            sslProfile |-> profile])

LEMMA ListenStep ==
    ASSUME NEW c, NEW opts, NEW site, Unconnected(c, opts, site, opts.edge),
           NEW name, NEW host, NEW port, NEW role, NEW p,
           p = <<>> \/ HasSiteProfile(c, opts, p)
    PROVE  LET d == Listen(c, name, host, port, role, p)
           IN /\ Unconnected(d, opts, site, opts.edge)
              /\ \A x : HasSiteProfile(c, opts, x) => HasSiteProfile(d, opts, x)
<1> DEFINE l == [host |-> host, port |-> port, role |-> role, sslProfile |-> p]
<1>1. l.sslProfile = p
  OBVIOUS
<1> HIDE DEF l
<1>2. LET d == R!AddListener(c, name, l)
      IN /\ Unconnected(d, opts, site, opts.edge)
         /\ \A x : HasSiteProfile(c, opts, x) => HasSiteProfile(d, opts, x)
  BY <1>1, ListenerAdded
<1> QED
  BY <1>2 DEF l, Listen

LEMMA PlainListenStep ==
    ASSUME NEW c, NEW opts, NEW site, Unconnected(c, opts, site, opts.edge),
           NEW name, NEW host, NEW port, NEW role
    PROVE  Unconnected(Listen(c, name, host, port, role, <<>>), opts, site,
                       opts.edge)
<1> DEFINE p == <<>>
<1>1. p = <<>>
  OBVIOUS
<1> HIDE DEF p
<1>2. Unconnected(Listen(c, name, host, port, role, p), opts, site, opts.edge)
  BY <1>1, ListenStep
<1> QED
  BY <1>1, <1>2

(* What `init` writes, whatever its options.                               *)
LEMMA FirstConfiguration ==
    ASSUME NEW opts, NEW site, opts.edge \in BOOLEAN
    PROVE  Unconnected(R!InitialRouterConfig(opts, site), opts, site, opts.edge)
<1> DEFINE blank == ""
           port == 9090
           amqps == <<"skupper-amqps">>
           console == opts.routerConsole
                      /\ R!Authentication(opts) \in {"internal", "unsecured"}
           c1 == R!AddAddress(R!InitialConfig("name", site, opts.edge), "mc",
                              "multicast")
           c2 == Listen(c1, blank, "0.0.0.0", port, "normal", <<>>)
           c3 == Listen(c2, "amqp", "localhost", 5672, blank, <<>>)
           c3p == R!AddSslProfile(c3, "skupper-amqps")
           c4 == Listen(c3p, "amqps", "0.0.0.0", 5671, blank, amqps)
           c4c == Listen(c4, "console", "0.0.0.0", 8080, blank, <<>>)
           c5 == IF console THEN c4c ELSE c4
           profile == <<"skupper-internal">>
           c5p == R!AddSslProfile(c5, "skupper-internal")
           c6 == Listen(c5p, "interior-listener", "0.0.0.0", 55671,
                        "inter-router", profile)
           c7 == Listen(c6, "edge-listener", "0.0.0.0", 45671, "edge", profile)
<1>1. R!InitialRouterConfig(opts, site) = IF opts.edge THEN c5 ELSE c7
  BY DEF R!InitialRouterConfig, Listen
<1>2. Unconnected(c1, opts, site, opts.edge)
  BY FirstEntities
<1> HIDE DEF c1, blank, port
<1>3. Unconnected(c2, opts, site, opts.edge)
  BY <1>2, PlainListenStep
<1> HIDE DEF c2
<1>4. Unconnected(c3, opts, site, opts.edge)
  BY <1>3, PlainListenStep
<1> HIDE DEF c3
<1>5. /\ Unconnected(c3p, opts, site, opts.edge)
      /\ HasSiteProfile(c3p, opts, amqps)
  BY <1>4, SiteProfileAdded, CertifiedProfiles
<1> HIDE DEF c3p, amqps
<1>6. Unconnected(c4, opts, site, opts.edge)
  BY <1>5, ListenStep
<1> HIDE DEF c4, console
<1>7. Unconnected(c5, opts, site, opts.edge)
  <2>1. Unconnected(c4c, opts, site, opts.edge)
    BY <1>6, PlainListenStep
  <2> HIDE DEF c4c
  <2> QED
    BY <1>6, <2>1
<1> HIDE DEF c5
<1>8. ASSUME ~opts.edge
      PROVE  Unconnected(c7, opts, site, opts.edge)
  <2>1. /\ Unconnected(c5p, opts, site, opts.edge)
        /\ HasSiteProfile(c5p, opts, profile)
    BY <1>7, <1>8, SiteProfileAdded, CertifiedProfiles
  <2> HIDE DEF c5p, profile
  <2>2. /\ Unconnected(c6, opts, site, opts.edge)
        /\ HasSiteProfile(c6, opts, profile)
    BY <2>1, ListenStep
  <2> HIDE DEF c6
  <2> QED
    BY <2>2, ListenStep
<1> QED
  BY <1>1, <1>7, <1>8

-----------------------------------------------------------------------------
(* The file and what the commands believe to be in it. *)

RoleOf(conf) == IF conf.edge THEN "edge" ELSE "inter-router"

(* The connector has its entity, and its own TLS profile.                  *)
ConnectorKept(cf, conf, name) ==
    /\ R!Entity(cf, "connector", name) =
          ConnEntity(name, RoleOf(conf), conf.connectors[name])
    /\ R!Has(cf, "sslProfile", R!ProfileName(name))
    /\ R!Entity(cf, "sslProfile", R!ProfileName(name)) = ConnProfile(name)

Faithful(cf, conf, opts) ==
    /\ IsConfiguration(cf) /\ Finite(cf)
    /\ R!IsEdge(cf) = conf.edge /\ cf.metadata.site = conf.site
    /\ R!Has(cf, "address", "mc")
    /\ ListenersSecured(cf, opts)
    /\ R!Names(cf, "connector") =
          {n \in Name : conf.connectors[n] # NoConnector}
    /\ \A n \in R!Names(cf, "connector") : ConnectorKept(cf, conf, n)

(* The inductive invariant of the file: decoded it is such a               *)
(* configuration, and it is what encoding that configuration makes.        *)
FileInv ==
    Readable(config) =>
        LET cf == R!UnmarshalRouterConfig(json)
        IN Faithful(cf, config, options) /\ json = R!MarshalRouterConfig(cf)

LEMMA ProfileNames ==
    /\ \A n, p : <<p>> # R!ProfileName(n)
    /\ \A n, m : R!ProfileName(n) = R!ProfileName(m) => n = m
<1>1. \A n, m : R!ProfileName(n) = R!ProfileName(m) => n = m
  BY DEF R!ProfileName
<1>2. ASSUME NEW n, NEW p, <<p>> = R!ProfileName(n)
      PROVE  FALSE
  <2>1. Len(<<p>>) = 1 /\ Len(R!ProfileName(n)) = 2
    BY DEF R!ProfileName
  <2> QED
    BY <1>2, <2>1
<1> QED
  BY <1>1, <1>2

LEMMA FirstFaithful ==
    ASSUME NEW cf, NEW opts, NEW site, NEW edge,
           Unconnected(cf, opts, site, edge)
    PROVE  Faithful(cf, InitialConfig(site, edge), opts)
BY DEF Unconnected, Faithful, InitialConfig

LEMMA ConnectedFaithful ==
    ASSUME NEW cf, NEW conf \in RouterConfig, NEW opts,
           Faithful(cf, conf, opts), NEW name \in Name, NEW host \in Issuer
    PROVE  Faithful(R!Connected(cf, name, RoleOf(conf), host),
                    [conf EXCEPT !.connectors[name] = host], opts)
<1> DEFINE c == R!Connected(cf, name, RoleOf(conf), host)
           new == [conf EXCEPT !.connectors[name] = host]
<1>0. /\ "address" \in R!Type \ {"sslProfile", "connector"}
      /\ "listener" \in R!Type \ {"sslProfile", "connector"}
  BY TypeSet
<1>1. /\ IsConfiguration(c) /\ Finite(c) /\ c.metadata = cf.metadata
      /\ c.entities["sslProfile"] =
            Added(cf.entities["sslProfile"], R!ProfileName(name),
                  ConnProfile(name))
      /\ c.entities["connector"] =
            Added(cf.entities["connector"], name,
                  ConnEntity(name, RoleOf(conf), host))
      /\ \A t \in R!Type \ {"sslProfile", "connector"} :
            c.entities[t] = cf.entities[t]
  BY ConnectedChanges DEF Faithful
<1>2. /\ new.edge = conf.edge /\ new.site = conf.site
      /\ new.connectors = [conf.connectors EXCEPT ![name] = host]
      /\ conf.connectors \in [Name -> Issuer \cup {NoConnector}]
  BY DEF RouterConfig
<1>3. host # NoConnector
  BY DistinctAssumption
<1> HIDE DEF c, new
<1>4. R!Names(c, "connector") = {n \in Name : new.connectors[n] # NoConnector}
  <2>1. R!Names(c, "connector") = R!Names(cf, "connector") \cup {name}
    BY <1>1 DEF Added, R!Names
  <2> QED
    BY <1>2, <1>3, <2>1 DEF Faithful
<1>5. ListenersSecured(c, opts)
  <2>1. ASSUME NEW p, HasSiteProfile(cf, opts, p)
        PROVE  HasSiteProfile(c, opts, p)
    <3>1. ASSUME NEW x, R!Has(cf, "sslProfile", <<x>>)
          PROVE  /\ R!Has(c, "sslProfile", <<x>>)
                 /\ R!Entity(c, "sslProfile", <<x>>)
                       = R!Entity(cf, "sslProfile", <<x>>)
      BY <1>1, <3>1, ProfileNames DEF Added, R!Has, R!Names, R!Entity
    <3> QED
      BY <2>1, <3>1 DEF HasSiteProfile
  <2> QED
    BY <1>0, <1>1, <2>1 DEF Faithful, ListenersSecured, R!Names, R!Entity
<1>6. ASSUME NEW n \in R!Names(c, "connector")
      PROVE  ConnectorKept(c, new, n)
  <2>1. CASE n = name
    <3>1. /\ R!Entity(c, "connector", n) = ConnEntity(name, RoleOf(conf), host)
          /\ R!Has(c, "sslProfile", R!ProfileName(n))
          /\ R!Entity(c, "sslProfile", R!ProfileName(n)) = ConnProfile(name)
      BY <1>1, <2>1 DEF Added, R!Has, R!Names, R!Entity
    <3> QED
      BY <1>2, <2>1, <3>1 DEF ConnectorKept, RoleOf
  <2>2. CASE n # name
    <3>1. n \in R!Names(cf, "connector") /\ ConnectorKept(cf, conf, n)
      BY <1>1, <2>2 DEF Added, R!Names, Faithful
    <3>2. R!ProfileName(n) # R!ProfileName(name)
      BY <2>2, ProfileNames
    <3>3. /\ R!Entity(c, "connector", n) = R!Entity(cf, "connector", n)
          /\ R!Has(c, "sslProfile", R!ProfileName(n))
          /\ R!Entity(c, "sslProfile", R!ProfileName(n)) = ConnProfile(n)
      BY <1>1, <2>2, <3>1, <3>2 DEF Added, R!Has, R!Names, R!Entity,
         ConnectorKept
    <3>4. new.connectors[n] = conf.connectors[n] /\ RoleOf(new) = RoleOf(conf)
      BY <1>2, <2>2, <3>1 DEF RoleOf, Faithful
    <3> QED
      BY <3>1, <3>3, <3>4 DEF ConnectorKept
  <2> QED
    BY <2>1, <2>2
<1> QED
  BY <1>0, <1>1, <1>2, <1>4, <1>5, <1>6 DEF Faithful, R!IsEdge, R!Has, R!Names,
     c, new

LEMMA DisconnectedFaithful ==
    ASSUME NEW cf, NEW conf \in RouterConfig, NEW opts,
           Faithful(cf, conf, opts), NEW name \in Name
    PROVE  Faithful(R!Disconnected(cf, name),
                    [conf EXCEPT !.connectors[name] = NoConnector], opts)
<1> DEFINE c == R!Disconnected(cf, name)
           new == [conf EXCEPT !.connectors[name] = NoConnector]
<1>0. /\ "address" \in R!Type \ {"sslProfile", "connector"}
      /\ "listener" \in R!Type \ {"sslProfile", "connector"}
  BY TypeSet
<1>1. /\ IsConfiguration(c) /\ Finite(c) /\ c.metadata = cf.metadata
      /\ c.entities["sslProfile"] =
            Dropped(cf.entities["sslProfile"], R!ProfileName(name))
      /\ c.entities["connector"] = Dropped(cf.entities["connector"], name)
      /\ \A t \in R!Type \ {"sslProfile", "connector"} :
            c.entities[t] = cf.entities[t]
  BY DisconnectedChanges DEF Faithful
<1>2. /\ new.edge = conf.edge /\ new.site = conf.site
      /\ new.connectors = [conf.connectors EXCEPT ![name] = NoConnector]
      /\ conf.connectors \in [Name -> Issuer \cup {NoConnector}]
  BY DEF RouterConfig
<1> HIDE DEF c, new
<1>4. R!Names(c, "connector") = {n \in Name : new.connectors[n] # NoConnector}
  <2>1. R!Names(c, "connector") = R!Names(cf, "connector") \ {name}
    BY <1>1 DEF Dropped, R!Names
  <2> QED
    BY <1>2, <2>1 DEF Faithful
<1>5. ListenersSecured(c, opts)
  <2>1. ASSUME NEW p, HasSiteProfile(cf, opts, p)
        PROVE  HasSiteProfile(c, opts, p)
    <3>1. ASSUME NEW x, R!Has(cf, "sslProfile", <<x>>)
          PROVE  /\ R!Has(c, "sslProfile", <<x>>)
                 /\ R!Entity(c, "sslProfile", <<x>>)
                       = R!Entity(cf, "sslProfile", <<x>>)
      BY <1>1, <3>1, ProfileNames DEF Dropped, R!Has, R!Names, R!Entity
    <3> QED
      BY <2>1, <3>1 DEF HasSiteProfile
  <2> QED
    BY <1>0, <1>1, <2>1 DEF Faithful, ListenersSecured, R!Names, R!Entity
<1>6. ASSUME NEW n \in R!Names(c, "connector")
      PROVE  ConnectorKept(c, new, n)
  <2>1. n # name /\ n \in R!Names(cf, "connector") /\ ConnectorKept(cf, conf, n)
    BY <1>1 DEF Dropped, R!Names, Faithful
  <2>2. R!ProfileName(n) # R!ProfileName(name)
    BY <2>1, ProfileNames
  <2>3. /\ R!Entity(c, "connector", n) = R!Entity(cf, "connector", n)
        /\ R!Has(c, "sslProfile", R!ProfileName(n))
        /\ R!Entity(c, "sslProfile", R!ProfileName(n)) = ConnProfile(n)
    BY <1>1, <2>1, <2>2 DEF Dropped, R!Has, R!Names, R!Entity, ConnectorKept
  <2>4. new.connectors[n] = conf.connectors[n] /\ RoleOf(new) = RoleOf(conf)
    BY <1>2, <2>1 DEF RoleOf, Faithful
  <2> QED
    BY <2>1, <2>3, <2>4 DEF ConnectorKept
<1> QED
  BY <1>0, <1>1, <1>2, <1>4, <1>5, <1>6 DEF Faithful, R!IsEdge, R!Has, R!Names,
     c, new

(* What is written is what is believed to be written.                      *)
LEMMA FileWritten ==
    ASSUME NEW cf, Faithful(cf, config', options'),
           json' = R!MarshalRouterConfig(cf)
    PROVE  FileInv'
<1>1. R!UnmarshalRouterConfig(json') = cf
  BY ReadBack DEF Faithful
<1> QED
  BY <1>1 DEF FileInv

LEMMA FileKept ==
    ASSUME FileInv, Keep, config' = config \/ ~Readable(config')
    PROVE  FileInv'
BY DEF FileInv, Keep, Readable

(* Only four steps write a configuration that can be read.                 *)
LEMMA ConfigKept ==
    OtherStep \/ CreateContainer \/ CreateContainerAgain \/ Refused
    => config' = config \/ ~Readable(config')
<1> SUFFICES ASSUME OtherStep \/ CreateContainer \/ CreateContainerAgain
                    \/ Refused
             PROVE  config' = config \/ ~Readable(config')
  OBVIOUS
<1>1. CASE CreateContainer \/ CreateContainerAgain \/ Refused
  BY <1>1 DEF CreateContainer, CreateContainerAgain, Refused, fileVars
<1>2. CASE WipeHost \/ DeleteFiles
  BY <1>2 DEF WipeHost, DeleteFiles, Erased, PartlyErased, Readable
<1>3. CASE Abort
  BY <1>3 DEF Abort, CutShort, PartlyErased, Readable, fileVars
<1>4. CASE Operator
  BY <1>4 DEF Operator, InitSite, DeleteSite, Connect, Disconnect,
     ConnectorTokenCreate, fileVars
<1>5. CASE DeleteStop \/ DeleteRemove \/ DeleteNetwork
  BY <1>5 DEF DeleteStop, DeleteRemove, DeleteNetwork, fileVars
<1>6. CASE \/ WriteSiteConfig \/ MakeDirectories \/ CreateNetwork
           \/ MakeCertificates \/ StartContainer
  BY <1>6 DEF WriteSiteConfig, MakeDirectories, CreateNetwork,
     MakeCertificates, StartContainer, Refused, fileVars
<1>7. CASE \/ WriteToken \/ RemoveDirectory \/ StopContainer
           \/ RemoveContainer \/ StartContainerAgain \/ RestartProxies
  BY <1>7 DEF WriteToken, RemoveDirectory, StopContainer, RemoveContainer,
     StartContainerAgain, RestartProxies, Refused, fileVars
<1>8. CASE Define \/ Attach \/ Detach
  BY <1>8 DEF Define, Attach, Detach, fileVars
<1> QED
  BY <1>1, <1>2, <1>3, <1>4, <1>5, <1>6, <1>7, <1>8 DEF OtherStep, DeleteStep

LEMMA FileStep ==
    ASSUME TypeInv, FileInv, [CommandStep]_<<vars, dataVars>>
    PROVE  FileInv'
<1>1. CASE WriteInitialConfig
  <2>1. PICK edge \in Modes : config' = InitialConfig(cmd.site, edge)
    BY <1>1 DEF WriteInitialConfig, WriteRouterConfig
  <2>2. edge = options.edge /\ options.edge \in BOOLEAN
    BY <1>1, <2>1, ScaleAssumption DEF WriteInitialConfig, InitialConfig
  <2>3. /\ json' = R!MarshalRouterConfig(
                      R!InitialRouterConfig(options, cmd.site))
        /\ options' = options
    BY <1>1 DEF WriteInitialConfig, UpdateRouterConfig
  <2>4. Faithful(R!InitialRouterConfig(options, cmd.site), config', options')
    BY <2>1, <2>2, <2>3, FirstConfiguration, FirstFaithful
  <2> QED
    BY <2>3, <2>4, FileWritten
<1>2. CASE ConfigureConnector /\ Readable(config)
  <2> DEFINE cf == R!UnmarshalRouterConfig(json)
  <2>1. /\ config' = [config EXCEPT !.connectors[cmd.name] = cmd.from]
        /\ json' = R!MarshalRouterConfig(
                      R!Connected(cf, cmd.name, Role, cmd.from))
        /\ options' = options
    BY <1>2 DEF ConfigureConnector, AddConnector, Configure, UpdateRouterConfig
  <2>2. cmd.name \in Name /\ cmd.from \in Issuer /\ config \in RouterConfig
    BY <1>2 DEF ConfigureConnector, AddConnector, TypeInv, TypeOK, Prepared,
       Readable
  <2>3. Faithful(cf, config, options) /\ Role = RoleOf(config)
    BY <1>2 DEF FileInv, Role, RoleOf
  <2> HIDE DEF cf
  <2>4. Faithful(R!Connected(cf, cmd.name, Role, cmd.from), config', options')
    BY <2>1, <2>2, <2>3, ConnectedFaithful
  <2> QED
    BY <2>1, <2>4, FileWritten
<1>3. CASE DropConnector
  <2> DEFINE cf == R!UnmarshalRouterConfig(json)
  <2>1. /\ config' = [config EXCEPT !.connectors[cmd.name] = NoConnector]
        /\ json' = R!MarshalRouterConfig(R!Disconnected(cf, cmd.name))
        /\ options' = options
    BY <1>3 DEF DropConnector, RemoveConnector, Configure, UpdateRouterConfig
  <2>2. cmd.name \in Name /\ Readable(config) /\ config \in RouterConfig
    BY <1>3 DEF DropConnector, RemoveConnector, TypeInv, TypeOK, Prepared,
       Readable
  <2>3. Faithful(cf, config, options)
    BY <2>2 DEF FileInv
  <2> HIDE DEF cf
  <2>4. Faithful(R!Disconnected(cf, cmd.name), config', options')
    BY <2>1, <2>2, <2>3, DisconnectedFaithful
  <2> QED
    BY <2>1, <2>4, FileWritten
<1>4. CASE ConfigureConnector /\ ~Readable(config)
  <2>1. Keep /\ config' = config
    BY <1>4 DEF ConfigureConnector, AddConnector, Refused, fileVars
  <2> QED
    BY <2>1, FileKept
<1>5. CASE MakeContainer
  <2>1. config' = config \/ ~Readable(config')
    BY <1>5, ConfigKept DEF MakeContainer
  <2>2. CASE Keep
    BY <2>1, <2>2, FileKept
  <2>3. CASE ~Keep
    <3>1. /\ MakeContainer
          /\ UNCHANGED <<json, options>>
      BY <1>5, <2>3 DEF MakeContainer, Make
    <3> QED
      BY <2>1, <3>1 DEF FileInv, Readable
  <2> QED
    BY <2>2, <2>3
<1>6. CASE MakeContainerAgain
  <2>1. config' = config \/ ~Readable(config')
    BY <1>6, ConfigKept DEF MakeContainerAgain
  <2>2. CASE Keep
    BY <2>1, <2>2, FileKept
  <2>3. CASE ~Keep
    <3>1. UNCHANGED <<json, options>>
      BY <1>6, <2>3 DEF MakeContainerAgain, Make
    <3> QED
      BY <2>1, <3>1 DEF FileInv, Readable
  <2> QED
    BY <2>2, <2>3
<1>7. CASE LookAtContainer
  <2>1. UNCHANGED <<json, options, config>>
    BY <1>7 DEF LookAtContainer, InspectContainer, Refused, fileVars
  <2> QED
    BY <2>1 DEF FileInv, Readable
<1>8. CASE OtherStep
  <2>1. Keep /\ (config' = config \/ ~Readable(config'))
    BY <1>8, ConfigKept DEF OtherStep
  <2> QED
    BY <2>1, FileKept
<1>9. CASE UNCHANGED <<vars, dataVars>>
  BY <1>9 DEF vars, dataVars, fileVars, FileInv, Readable
<1> QED
  BY <1>1, <1>2, <1>3, <1>4, <1>5, <1>6, <1>7, <1>8, <1>9 DEF CommandStep

-----------------------------------------------------------------------------
(* The commands with their data are the commands without. *)

(* What is new: RecreateContainer is refused a container by the engine     *)
(* because of what it gives it.                                            *)
EngineRefuses ==
    /\ at = "create" /\ cmd.op # "init"
    /\ Refused
    /\ UNCHANGED <<tokens, installed>>

LEMMA DetailsStep ==
    ASSUME [CommandStep]_<<vars, dataVars>>
    PROVE  [Next \/ EngineRefuses]_vars
<1>1. CASE UNCHANGED <<vars, dataVars>>
  BY <1>1
<1>2. CASE WriteInitialConfig \/ MakeContainer
  BY <1>2 DEF WriteInitialConfig, MakeContainer, InitStep, Next, Step
<1>3. CASE ConfigureConnector \/ DropConnector \/ LookAtContainer
  BY <1>3 DEF ConfigureConnector, DropConnector, LookAtContainer,
     ConnectorStep, Next, Step
<1>4. CASE MakeContainerAgain
  BY <1>4 DEF MakeContainerAgain, EngineRefuses, ConnectorStep, Next, Step
<1>5. CASE OtherStep
  BY <1>5 DEF OtherStep, InitStep, ConnectorStep, Next, Step
<1> QED
  BY <1>1, <1>2, <1>3, <1>4, <1>5 DEF CommandStep

(* With all that they write and give to the engine, the commands do        *)
(* nothing else than without, except that podman refuses the container     *)
(* that RecreateContainer describes, and the command fails.                *)
THEOREM DetailsImplementCommands ==
    DetailsSpec => Init /\ [][Next \/ EngineRefuses]_vars
<1>1. [CommandStep]_<<vars, dataVars>> => [Next \/ EngineRefuses]_vars
  BY DetailsStep
<1> QED
  BY <1>1, PTL DEF DetailsSpec

CommandsInv == TypeInv /\ ProvisionedInv /\ OneSiteInv /\ StartedInv

LEMMA CommandsInvInit == Init => CommandsInv
<1> SUFFICES ASSUME Init
             PROVE  CommandsInv
  OBVIOUS
<1>1. TypeInv
  BY TypeInit
<1>2. ProvisionedInv
  BY DEF Init, SiteInit, ProvisionedInv, Provisioned, Readable
<1>3. OneSiteInv
  BY DEF Init, SiteInit, NoCommand, OneSiteInv, OneSite, InitSoFar
<1>4. StartedInv
  BY DEF Init, SiteInit, NoCommand, StartedInv
<1> QED
  BY <1>1, <1>2, <1>3, <1>4 DEF CommandsInv

LEMMA CommandsInvStep ==
    ASSUME CommandsInv, [Next \/ EngineRefuses]_vars
    PROVE  CommandsInv'
<1> USE DEF CommandsInv
<1>1. CASE [Next]_vars
  <2>1. TypeInv'
    BY <1>1, TypeOperator, TypeInitStep, TypeDeleteStep, TypeConnectorStep,
       TypeOther DEF Next, Step
  <2> QED
    BY <1>1, <2>1, ProvisionedStep, OneSiteStep, StartedStep
<1>2. CASE EngineRefuses
  <2>1. Refused /\ UNCHANGED <<tokens, installed>>
    BY <1>2 DEF EngineRefuses
  <2>2. at' = "idle" /\ UNCHANGED <<config, dirs, leaving>>
    BY <2>1 DEF Refused, End, fileVars
  <2> QED
    BY <2>1, <2>2, RefusedTypes, ProvisionedFrame, RefusedSite, RefusedStarted
<1> QED
  BY <1>1, <1>2

LEMMA CommandsInvariant == DetailsSpec => []CommandsInv
<1>1. CommandsInv /\ [CommandStep]_<<vars, dataVars>> => CommandsInv'
  BY DetailsStep, CommandsInvStep
<1>2. DetailsSpec => CommandsInv
  BY CommandsInvInit DEF DetailsSpec
<1> QED
  BY <1>1, <1>2, PTL DEF DetailsSpec

(* What SiteCommands promises is kept with the data, and where the engine  *)
(* is podman: the credentials of connectors and the identity of the site   *)
(* survive its refusal, which no command takes for a success.              *)
THEOREM PromisesKept ==
    DetailsSpec => []Provisioned /\ []OneSite /\ Effective
<1>1. CommandsInv => Provisioned /\ OneSite
  BY DEF CommandsInv, ProvisionedInv, OneSiteInv
<1>2. ASSUME CommandsInv, [CommandStep]_<<vars, dataVars>>
      PROVE  [Succeeds => /\ \A d \in Deployment : Exists(d)' /\ Up(d)'
                          /\ loaded' = config']_vars
  <2>1. CASE [Next]_vars
    BY <1>2, <2>1, EffectiveStep DEF CommandsInv
  <2>2. CASE EngineRefuses
    <3>1. outcome' = "failed"
      BY <2>2 DEF EngineRefuses, Refused, End
    <3>2. ~Succeeds
      BY <3>1 DEF Succeeds
    <3> QED
      BY <3>2
  <2> QED
    BY <1>2, <2>1, <2>2, DetailsStep
<1>3. CommandsInv /\ [CommandStep]_<<vars, dataVars>> =>
         [Succeeds => /\ \A d \in Deployment : Exists(d)' /\ Up(d)'
                      /\ loaded' = config']_vars
  BY <1>2
<1> QED
  BY CommandsInvariant, <1>1, <1>3, PTL DEF DetailsSpec, Effective

-----------------------------------------------------------------------------
(* The file, whenever it is written. *)

LEMMA FileInvariant == DetailsSpec => []FileInv
<1>1. Init => FileInv
  BY DEF Init, SiteInit, FileInv, Readable
<1>2. CommandsInv /\ FileInv /\ [CommandStep]_<<vars, dataVars>> => FileInv'
  BY FileStep DEF CommandsInv
<1>3. DetailsSpec => FileInv
  BY <1>1 DEF DetailsSpec
<1> QED
  BY CommandsInvariant, <1>2, <1>3, PTL DEF DetailsSpec

LEMMA FaithfulAgrees ==
    ASSUME FileInv, Readable(config)
    PROVE  Agrees
<1> DEFINE cf == R!UnmarshalRouterConfig(json)
<1>1. Faithful(cf, config, options) /\ json = R!MarshalRouterConfig(cf)
  BY DEF FileInv
<1> HIDE DEF cf
<1>2. R!Marshalled(json, cf)
  BY <1>1, Written DEF Faithful
<1>3. /\ R!IsEdge(cf) = config.edge /\ cf.metadata.site = config.site
      /\ R!Has(cf, "address", "mc")
      /\ R!Names(cf, "connector") =
            {n \in Name : config.connectors[n] # NoConnector}
  BY <1>1 DEF Faithful
<1>4. ASSUME NEW n \in R!Names(cf, "connector")
      PROVE  /\ R!Entity(cf, "connector", n).host = config.connectors[n]
             /\ R!Entity(cf, "connector", n).role = Role
  <2>1. R!Entity(cf, "connector", n) =
           ConnEntity(n, RoleOf(config), config.connectors[n])
    BY <1>1 DEF Faithful, ConnectorKept
  <2> QED
    BY <2>1 DEF ConnEntity, Role, RoleOf
<1> QED
  BY <1>2, <1>3, <1>4 DEF Agrees, cf

(* Whatever the options of `init`, however many connectors come and go,    *)
(* and wherever commands are cut short: each time qdrouterd.json is        *)
(* written it encodes, and the next command decodes from it, the mode,     *)
(* site, address and connectors that were meant, with none of them lost.   *)
THEOREM FileAgreesHolds == DetailsSpec => FileAgrees
<1>1. FileInv /\ Readable(config) => Agrees
  BY FaithfulAgrees
<1>2. FileInv' => [Changed /\ Readable(config') => Agrees']_<<json, config>>
  <2>1. FileInv' /\ Readable(config)' => Agrees'
    BY <1>1, PTL
  <2> QED
    BY <2>1 DEF Readable
<1> QED
  BY FileInvariant, <1>2, PTL DEF FileAgrees

(* Where the router has the directories of the two kinds of profiles.      *)
LEMMA ProfileMounts ==
    /\ \E m \in R!TransportMounts : m.target = "/etc/qpid-dispatch-certs"
                                    /\ m.source = "qpid-dispatch-certs"
    /\ \E m \in R!TransportMounts : m.target = "/etc/qpid-dispatch/connections"
                                    /\ m.source = "connections"
BY DEF R!TransportMounts

LEMMA FaithfulSecured ==
    ASSUME FileInv, Provisioned, Readable(config)
    PROVE  Secured
<1> DEFINE cf == R!UnmarshalRouterConfig(json)
           Leads(t, n) ==
              LET profile == R!Entity(cf, t, n).sslProfile
              IN profile # <<>> =>
                    /\ R!Has(cf, "sslProfile", profile)
                    /\ Found(t, n, R!Entity(cf, "sslProfile", profile), cf)
<1>0. Faithful(cf, config, options)
  BY DEF FileInv
<1> HIDE DEF cf
<1>1. ASSUME NEW n \in R!Names(cf, "listener")
      PROVE  Leads("listener", n)
  <2> DEFINE profile == R!Entity(cf, "listener", n).sslProfile
  <2> SUFFICES ASSUME profile # <<>>
               PROVE  /\ R!Has(cf, "sslProfile", profile)
                      /\ Found("listener", n,
                               R!Entity(cf, "sslProfile", profile), cf)
    OBVIOUS
  <2>1. HasSiteProfile(cf, options, profile)
    BY <1>0 DEF Faithful, ListenersSecured
  <2> HIDE DEF profile
  <2>2. PICK p : /\ R!Certified(options, p)
                 /\ R!Has(cf, "sslProfile", profile)
                 /\ R!Entity(cf, "sslProfile", profile) = SiteProfile(p)
    BY <2>1 DEF HasSiteProfile
  <2>3. Found("listener", n, SiteProfile(p), cf)
    BY <2>2, ProfileMounts DEF Found, SiteProfile
  <2> QED
    BY <2>2, <2>3
<1>2. ASSUME NEW n \in R!Names(cf, "connector")
      PROVE  Leads("connector", n)
  <2>1. /\ R!Entity(cf, "connector", n) =
              ConnEntity(n, RoleOf(config), config.connectors[n])
        /\ R!Has(cf, "sslProfile", R!ProfileName(n))
        /\ R!Entity(cf, "sslProfile", R!ProfileName(n)) = ConnProfile(n)
    BY <1>0, <1>2 DEF Faithful, ConnectorKept
  <2>2. /\ R!Entity(cf, "connector", n).sslProfile = R!ProfileName(n)
        /\ R!Entity(cf, "connector", n).host = config.connectors[n]
    BY <2>1 DEF ConnEntity
  <2>3. n \in Name /\ config.connectors[n] # NoConnector
    BY <1>0, <1>2 DEF Faithful
  <2>4. n \notin leaving => dirs[n] = config.connectors[n]
    BY <2>3 DEF Provisioned
  <2>5. ConnProfile(n).sub = n /\ ConnProfile(n).dir = "/etc/qpid-dispatch/connections"
    BY DEF ConnProfile, R!ProfileName
  <2>6. Found("connector", n, ConnProfile(n), cf)
    BY <2>2, <2>4, <2>5, ProfileMounts DEF Found
  <2> QED
    BY <2>1, <2>2, <2>6
<1> QED
  BY <1>1, <1>2 DEF Secured, cf

(* The TLS profile of every listener and connector in a file that is       *)
(* written is there, and leads through a mount of the router's container   *)
(* to a certificate of the site or to the token of the site connected to,  *)
(* whichever connectors were made, removed or cut short before.            *)
THEOREM TlsProvisionedHolds == DetailsSpec => TlsProvisioned
<1>1. FileInv /\ CommandsInv /\ Readable(config) => Secured
  BY FaithfulSecured DEF CommandsInv, ProvisionedInv
<1>2. FileInv' /\ CommandsInv' =>
         [Changed /\ Readable(config') => Secured']_<<json, config>>
  <2>1. FileInv' /\ CommandsInv' /\ Readable(config)' => Secured'
    BY <1>1, PTL
  <2> QED
    BY <2>1 DEF Readable
<1> QED
  BY FileInvariant, CommandsInvariant, <1>2, PTL DEF TlsProvisioned

-----------------------------------------------------------------------------
(* The containers, however often they are recreated. *)

(* Options that leave nothing to the image that they set to nothing.       *)
IsOptions(c) ==
    /\ c = Fields(c, c.env, c.cmd, c.privileged)
    /\ c.env = [n \in DOMAIN c.env |-> c.env[n]]
    /\ c.health = [test |-> c.health.test, startPeriod |-> c.health.startPeriod,
                   interval |-> c.health.interval]
    /\ \A n \in DOMAIN ImageEnv[c.image] \cap DOMAIN c.env :
          c.env[n] # R!NoText

LEMMA HealthChange ==
    ASSUME NEW c, c = Fields(c, c.env, c.cmd, c.privileged), NEW h
    PROVE  LET k == [c EXCEPT !.health = h]
           IN /\ k = Fields(k, c.env, c.cmd, c.privileged)
              /\ k.health = h /\ k.image = c.image
<1> DEFINE k == [c EXCEPT !.health = h]
           f == Fields(c, c.env, c.cmd, c.privileged)
<1>1. k = [f EXCEPT !.health = h]
  OBVIOUS
<1>2. [f EXCEPT !.health = h] =
        [hostname |-> c.hostname, image |-> c.image, env |-> c.env,
         cmd |-> c.cmd, health |-> h, labels |-> c.labels, ports |-> c.ports,
         mounts |-> c.mounts, privileged |-> c.privileged,
         networks |-> c.networks]
  BY DEF Fields
<1> HIDE DEF k
<1> QED
  BY <1>1, <1>2 DEF Fields, k

LEMMA DockerMakes ==
    ASSUME NEW c, IsOptions(c)
    PROVE  IsContainer(R!ContainerCreate("docker", c))
<1> DEFINE h == [test |-> c.health.test, startPeriod |-> c.health.startPeriod,
                 interval |-> 0]
           k == [c EXCEPT !.health = h]
           image == ImageEnv[c.image]
           env == R!Overlay(image, c.env)
           command == IF c.cmd = R!NoCmd THEN ImageCmd[c.image] ELSE c.cmd
           made1 == Fields(k, env, command, c.privileged)
<1>1. R!newDockerContainerSpec(c) = k
  <2>1. [c.health EXCEPT !.interval = 0] = h
    BY DEF IsOptions
  <2> HIDE DEF h
  <2> QED
    BY <2>1 DEF R!newDockerContainerSpec
<1>2. /\ k = Fields(k, c.env, c.cmd, c.privileged)
      /\ k.health = h /\ k.image = c.image
  BY HealthChange DEF IsOptions
<1> HIDE DEF k
<1>3. k.env = c.env /\ k.cmd = c.cmd /\ k.privileged = c.privileged
  BY <1>2, FieldsAre
<1>4. R!Made(k) = made1
  <2>1. R!Made(k) = [[k EXCEPT !.env = env] EXCEPT !.cmd = command]
    BY <1>2, <1>3 DEF R!Made
  <2> HIDE DEF env, command
  <2>2. [k EXCEPT !.env = env] = Fields(k, env, c.cmd, c.privileged)
    BY <1>2, FieldsChange
  <2>3. [Fields(k, env, c.cmd, c.privileged) EXCEPT !.cmd = command] = made1
    BY DEF Fields
  <2> QED
    BY <2>1, <2>2, <2>3, Zenon
<1>5. R!ContainerCreate("docker", c) = made1
  BY <1>1, <1>4 DEF R!ContainerCreate
<1>6. /\ env = [n \in DOMAIN env |-> env[n]]
      /\ \A n \in DOMAIN image :
            n \in DOMAIN env /\ (env[n] = R!NoText => image[n] = R!NoText)
  BY DEF R!Overlay, IsOptions
<1> HIDE DEF env, command
<1>7. made1.env = env /\ made1.image = c.image /\ made1.health = h
      /\ made1.cmd = command /\ made1.privileged = c.privileged
  BY <1>2, FieldsAre
<1>8. made1 = Fields(made1, env, command, c.privileged)
  BY FieldsOfFields
<1> HIDE DEF made1
<1>9. made1.health = [test |-> made1.health.test,
                      startPeriod |-> made1.health.startPeriod, interval |-> 0]
  BY <1>7
<1> QED
  BY <1>5, <1>6, <1>7, <1>8, <1>9, Zenon DEF IsContainer, Fields

(* Variables none of which, but for some, is set to nothing.               *)
Filled(env, except) ==
    /\ env = [n \in DOMAIN env |-> env[n]]
    /\ \A n \in DOMAIN env \ except : env[n] # R!NoText

LEMMA FilledOverlay ==
    ASSUME NEW e, NEW f, NEW except, Filled(e, except), Filled(f, except)
    PROVE  Filled(R!Overlay(e, f), except)
BY DEF Filled, R!Overlay

LEMMA FilledWhen ==
    ASSUME NEW b, NEW name, NEW value, value # R!NoText, NEW except
    PROVE  Filled(R!When(b, name, value), except)
BY DEF Filled, R!When

LEMMA EnvironmentsFilled ==
    ASSUME NEW opts, NEW site \in Uid
    PROVE  /\ Filled(R!TransportEnv(opts, site), {})
           /\ Filled(R!ControllerEnv(opts, site), {"SKUPPER_TMPDIR"})
<1>0. site # R!NoText
  BY ImageAssumption
<1>1. ASSUME NEW except
      PROVE  /\ \A b, n : Filled(R!When(b, n, "skupper-router"), except)
             /\ \A b, n : Filled(R!When(b, n, "sasl-users"), except)
             /\ \A b, n : Filled(R!When(b, n, "1"), except)
             /\ \A b, n : Filled(R!When(b, n, "true"), except)
  <2>1. /\ "skupper-router" # R!NoText /\ "sasl-users" # R!NoText
        /\ "1" # R!NoText /\ "true" # R!NoText
    BY DEF R!NoText
  <2> QED
    BY <2>1, FilledWhen
<1>2. Filled([n \in {"QDROUTERD_CONF", "QDROUTERD_CONF_TYPE", "SKUPPER_SITE_ID"}
                 |-> IF n = "SKUPPER_SITE_ID" THEN site ELSE n], {})
  <2>1. "QDROUTERD_CONF" # R!NoText /\ "QDROUTERD_CONF_TYPE" # R!NoText
    BY DEF R!NoText
  <2> QED
    BY <1>0, <2>1 DEF Filled
<1>3. Filled([n \in {"SKUPPER_SITE_ID", "SKUPPER_TMPDIR", "SKUPPER_PROXY_IMAGE",
                     "SKUPPER_HOST", "SKUPPER_CONTAINER_ENGINE"} |->
                 IF n = "SKUPPER_SITE_ID" THEN site
                 ELSE IF n = "SKUPPER_TMPDIR" THEN opts.tmpdir ELSE n],
             {"SKUPPER_TMPDIR"})
  <2>1. /\ "SKUPPER_PROXY_IMAGE" # R!NoText /\ "SKUPPER_HOST" # R!NoText
        /\ "SKUPPER_CONTAINER_ENGINE" # R!NoText
    BY DEF R!NoText
  <2> QED
    BY <1>0, <2>1 DEF Filled
<1>4. Filled(R!TransportEnv(opts, site), {})
  BY <1>1, <1>2, FilledOverlay DEF R!TransportEnv
<1>5. Filled(R!ControllerEnv(opts, site), {"SKUPPER_TMPDIR"})
  BY <1>1, <1>3, FilledOverlay DEF R!ControllerEnv
<1> QED
  BY <1>4, <1>5

LEMMA CreateOptionsFields ==
    ASSUME NEW config_, NEW mounts, NEW privileged, NEW networks
    PROVE  LET c == R!ContainerCreateOptions(config_, mounts, privileged,
                                             networks)
           IN /\ c = Fields(c, c.env, c.cmd, c.privileged)
              /\ c.env = config_.env /\ c.image = config_.image
              /\ c.health = config_.health
BY DEF R!ContainerCreateOptions, Fields

LEMMA SiteOptions ==
    ASSUME NEW opts, NEW site \in Uid
    PROVE  /\ IsOptions(R!getTransportContainerCreateOptions(opts, site))
           /\ IsOptions(R!getControllerContainerCreateOptions(opts, site))
<1>1. IsOptions(R!getTransportContainerCreateOptions(opts, site))
  <2> DEFINE env == R!TransportEnv(opts, site)
             c == R!getTransportContainerCreateOptions(opts, site)
  <2>0. Filled(env, {})
    BY EnvironmentsFilled
  <2> HIDE DEF env
  <2>1. /\ c = Fields(c, c.env, c.cmd, c.privileged)
        /\ c.env = env
        /\ c.health = [test |-> "healthz", startPeriod |-> 60, interval |-> 0]
    BY DEF R!getTransportContainerCreateOptions, R!ContainerCreateOptions,
       Fields, env
  <2> HIDE DEF c
  <2>2. c.health = [test |-> c.health.test, startPeriod |-> c.health.startPeriod,
                    interval |-> c.health.interval]
    BY <2>1
  <2>3. \A n \in DOMAIN ImageEnv[c.image] \cap DOMAIN c.env : c.env[n] # R!NoText
    BY <2>0, <2>1 DEF Filled
  <2>4. c.env = [n \in DOMAIN c.env |-> c.env[n]]
    BY <2>0, <2>1 DEF Filled
  <2>5. IsOptions(c)
    BY <2>1, <2>2, <2>3, <2>4, Zenon DEF IsOptions
  <2> QED
    BY <2>5 DEF c
<1>2. IsOptions(R!getControllerContainerCreateOptions(opts, site))
  <2> DEFINE env == R!ControllerEnv(opts, site)
             c == R!getControllerContainerCreateOptions(opts, site)
  <2>0. Filled(env, {"SKUPPER_TMPDIR"})
    BY EnvironmentsFilled
  <2> HIDE DEF env
  <2>1. /\ c = Fields(c, c.env, c.cmd, c.privileged)
        /\ c.env = env
        /\ c.image = "controller-image"
        /\ c.health = [test |-> R!NoText, startPeriod |-> 60, interval |-> 0]
    BY DEF R!getControllerContainerCreateOptions, R!ContainerCreateOptions,
       Fields, env
  <2> HIDE DEF c
  <2>2. c.health = [test |-> c.health.test, startPeriod |-> c.health.startPeriod,
                    interval |-> c.health.interval]
    BY <2>1
  <2>3. \A n \in DOMAIN ImageEnv[c.image] \cap DOMAIN c.env : c.env[n] # R!NoText
    BY <2>0, <2>1, ImageAssumption DEF Filled
  <2>4. c.env = [n \in DOMAIN c.env |-> c.env[n]]
    BY <2>0, <2>1 DEF Filled
  <2>5. IsOptions(c)
    BY <2>1, <2>2, <2>3, <2>4, Zenon DEF IsOptions
  <2> QED
    BY <2>5 DEF c
<1> QED
  BY <1>1, <1>2

(* A container made of what `init` would make it of for that site; on      *)
(* docker also one whose inspection tells all that it was made of.         *)
Alike(d, spec, site) ==
    /\ "image" \in DOMAIN spec
    /\ driver = "docker" => IsContainer(spec)
    /\ Essentials(spec) =
          Essentials(R!ContainerCreate(driver, CreateOptions(d, site)))

HeldStages == {"stop", "remove", "create"}

(* What a command holds while the container is taken down makes the same   *)
(* container again, or, with podman, none.                                 *)
HeldInv ==
    at \in HeldStages /\ cmd.op # "init" =>
        IF driver = "docker"
        THEN Alike(on, R!ContainerCreate(driver, held), cmd.site)
        ELSE held.image = R!NoText

ContainersInv ==
    \A d \in Deployment :
        IF Exists(d) THEN Alike(d, made[d], containers[d].site)
        ELSE made[d] = R!NoSpec

MadeInv ==
    /\ driver \in {"docker", "podman"}
    /\ DOMAIN made = Deployment
    /\ ContainersInv
    /\ HeldInv

LEMMA EssentialsAre ==
    ASSUME NEW c, c = Fields(c, c.env, c.cmd, c.privileged)
    PROVE  Essentials(c) = Fields(c, R!Named(c.env), R!NoCmd, TRUE)
<1> DEFINE e == R!Named(c.env)
           m == R!NoCmd
           yes == TRUE
<1>1. Essentials(c) =
         [[[c EXCEPT !.env = e] EXCEPT !.cmd = m] EXCEPT !.privileged = yes]
  BY Zenon DEF Essentials
<1> HIDE DEF e, m, yes
<1>2. [c EXCEPT !.env = e] = Fields(c, e, c.cmd, c.privileged)
  BY FieldsChange
<1>3. [Fields(c, e, c.cmd, c.privileged) EXCEPT !.cmd = m]
         = Fields(c, e, m, c.privileged)
  BY DEF Fields
<1>4. [Fields(c, e, m, c.privileged) EXCEPT !.privileged = yes]
         = Fields(c, e, m, yes)
  BY DEF Fields
<1> QED
  BY <1>1, <1>2, <1>3, <1>4, Zenon DEF e, m, yes

LEMMA RecreatedEssentials ==
    ASSUME NEW c, IsContainer(c)
    PROVE  Essentials(R!Recreated("docker", c)) = Essentials(c)
<1> DEFINE r == R!Recreated("docker", c)
           yes == TRUE
<1>1. /\ IsContainer(r) /\ R!Named(r.env) = R!Named(c.env)
      /\ Fields(r, c.env, c.cmd, c.privileged) = c
  BY RecreatedKeeps
<1> HIDE DEF r
<1>2. /\ c = Fields(c, c.env, c.cmd, c.privileged)
      /\ r = Fields(r, r.env, r.cmd, r.privileged)
  BY <1>1, Zenon DEF IsContainer, Fields
<1>3. /\ Essentials(c) = Fields(c, R!Named(c.env), R!NoCmd, yes)
      /\ Essentials(r) = Fields(r, R!Named(r.env), R!NoCmd, yes)
  BY <1>2, EssentialsAre, Zenon
<1> HIDE DEF yes
<1>4. Fields(Fields(r, c.env, c.cmd, c.privileged), R!Named(c.env), R!NoCmd, yes)
         = Fields(r, R!Named(c.env), R!NoCmd, yes)
  BY FieldsOfFields
<1> QED
  BY <1>1, <1>3, <1>4, Zenon DEF r

LEMMA PodmanFields ==
    ASSUME NEW c, "image" \in DOMAIN c
    PROVE  /\ "image" \in DOMAIN R!ContainerCreate("podman", c)
           /\ R!RecreateOptions(R!ContainerInspect("podman", c)).image
                 = R!NoText
<1>1. /\ DOMAIN R!newPodmanContainerSpec(c) = DOMAIN c
      /\ \A k : DOMAIN R!Made(k) = DOMAIN k
  <2>1. ASSUME NEW yes
        PROVE  DOMAIN [c EXCEPT !.hostname = R!NoText, !.health = R!NoHealth,
                                !.labels = {}, !.ports = {}, !.privileged = yes]
                  = DOMAIN c
    OBVIOUS
  <2>2. DOMAIN R!newPodmanContainerSpec(c) = DOMAIN c
    BY <2>1, Zenon DEF R!newPodmanContainerSpec
  <2>3. ASSUME NEW k
        PROVE  DOMAIN R!Made(k) = DOMAIN k
    BY DEF R!Made
  <2> QED
    BY <2>2, <2>3
<1>2. R!ContainerCreate("podman", c) = R!Made(R!newPodmanContainerSpec(c))
  BY DEF R!ContainerCreate
<1>3. R!ContainerInspect("podman", c).image = R!NoText
      /\ DOMAIN R!ContainerInspect("podman", c) = DOMAIN c
  <2> DEFINE k == [c EXCEPT !.hostname = R!NoText, !.image = R!NoText,
                            !.env = R!NoEnv, !.cmd = R!NoCmd,
                            !.health = R!NoHealth, !.labels = {},
                            !.ports = {}, !.mounts = {}]
  <2>1. R!ContainerInspect("podman", c) = k
    BY DEF R!ContainerInspect
  <2>2. DOMAIN k = DOMAIN c
    OBVIOUS
  <2>3. k["image"] = R!NoText
    OBVIOUS
  <2> QED
    BY <2>1, <2>2, <2>3
<1>4. \A k : "image" \in DOMAIN k => R!RecreateOptions(k).image = k.image
  BY DEF R!RecreateOptions
<1> QED
  BY <1>1, <1>2, <1>3, <1>4

LEMMA MadeInit == Init /\ DataInit => MadeInv
BY SetupsAssumption DEF Init, SiteInit, EngineInit, DataInit, MadeInv,
   ContainersInv, HeldInv, HeldStages, Exists

(* Everything that `init` gives to the engine.                             *)
LEMMA InitAlike ==
    ASSUME driver \in {"docker", "podman"}, NEW d \in Deployment,
           NEW site \in Uid
    PROVE  Alike(d, R!ContainerCreate(driver, CreateOptions(d, site)), site)
<1> DEFINE c == CreateOptions(d, site)
<1>0. IsOptions(c)
  BY SiteOptions DEF CreateOptions
<1> HIDE DEF c
<1>1. IsOptions(c) /\ c = Fields(c, c.env, c.cmd, c.privileged)
  BY <1>0 DEF IsOptions
<1>2. CASE driver = "docker"
  <2>1. IsContainer(R!ContainerCreate("docker", c))
    BY <1>1, DockerMakes
  <2>2. "image" \in DOMAIN R!ContainerCreate("docker", c)
    BY <2>1 DEF IsContainer
  <2> QED
    BY <1>2, <2>1, <2>2 DEF Alike, c
<1>3. CASE driver = "podman"
  <2>1. "image" \in DOMAIN c
    BY <1>1 DEF Fields
  <2>2. "image" \in DOMAIN R!ContainerCreate("podman", c)
    BY <2>1, PodmanFields
  <2> QED
    BY <1>3, <2>2 DEF Alike, c
<1> QED
  BY <1>2, <1>3

(* What RecreateContainer takes from a container.                          *)
LEMMA HeldAlike ==
    ASSUME driver \in {"docker", "podman"}, NEW d, NEW c, NEW site,
           Alike(d, c, site)
    PROVE  LET h == R!RecreateOptions(R!ContainerInspect(driver, c))
           IN IF driver = "docker"
              THEN Alike(d, R!ContainerCreate(driver, h), site)
              ELSE h.image = R!NoText
<1>1. CASE driver = "docker"
  <2> DEFINE r == R!Recreated("docker", c)
  <2>1. IsContainer(r) /\ Essentials(r) = Essentials(c)
    BY <1>1, RecreatedKeeps, RecreatedEssentials DEF Alike
  <2> HIDE DEF r
  <2>2. "image" \in DOMAIN r
    BY <2>1 DEF IsContainer
  <2>3. Alike(d, r, site)
    BY <2>1, <2>2 DEF Alike
  <2>4. r = R!ContainerCreate("docker",
               R!RecreateOptions(R!ContainerInspect("docker", c)))
    BY DEF r, R!Recreated
  <2> QED
    BY <1>1, <2>3, <2>4
<1>2. CASE driver = "podman"
  BY <1>2, PodmanFields DEF Alike
<1> QED
  BY <1>1, <1>2

(* A container is made in the place of none.                               *)
LEMMA MadeContainer ==
    ASSUME MadeInv, TypeInv, NEW d \in Deployment, NEW spec, NEW site \in Uid,
           Make(d, spec), Create(d, site),
           Alike(d, R!ContainerCreate(driver, spec), site),
           at' \notin HeldStages
    PROVE  MadeInv'
<1>1. ContainersType
  BY DEF TypeInv, TypeOK, ContainersType
<1>2. /\ Exists(d)' /\ containers'[d].site = site
      /\ \A e \in Deployment \ {d} : containers'[e] = containers[e]
  BY <1>1, ContainerAfter
<1>3. /\ made'[d] = R!ContainerCreate(driver, spec)
      /\ \A e \in Deployment \ {d} : made'[e] = made[e]
      /\ DOMAIN made' = Deployment
      /\ driver' = driver /\ options' = options
  BY DEF Make, MadeInv
<1>4. ContainersInv'
  <2>1. IF Exists(d)' THEN Alike(d, made'[d], containers'[d].site)
        ELSE made'[d] = R!NoSpec
    BY <1>2, <1>3
  <2>2. ASSUME NEW e \in Deployment \ {d}
        PROVE  IF Exists(e)' THEN Alike(e, made'[e], containers'[e].site)
               ELSE made'[e] = R!NoSpec
    BY <1>2, <1>3 DEF MadeInv, ContainersInv, Exists
  <2>3. ASSUME NEW e \in Deployment
        PROVE  IF Exists(e)' THEN Alike(e, made'[e], containers'[e].site)
               ELSE made'[e] = R!NoSpec
    BY <2>1, <2>2
  <2> QED
    BY <1>3, <2>3 DEF ContainersInv, Alike, CreateOptions
<1> QED
  BY <1>3, <1>4 DEF MadeInv, HeldInv

(* The same containers, or fewer.                                          *)
LEMMA MadeKept ==
    ASSUME MadeInv, Keep \/ UNCHANGED made, UNCHANGED <<driver, options>>,
           DOMAIN made' = Deployment,
           \A d \in Deployment :
              \/ Keep /\ containers'[d] = NoContainer
              \/ containers'[d] = containers[d]
              \/ Exists(d) /\ Exists(d)' /\ containers'[d].site = containers[d].site
    PROVE  ContainersInv'
<1>1. ASSUME NEW d \in Deployment
      PROVE  IF Exists(d)' THEN Alike(d, made'[d], containers'[d].site)
             ELSE made'[d] = R!NoSpec
  BY <1>1 DEF MadeInv, ContainersInv, Keep, Exists
<1> QED
  BY <1>1 DEF ContainersInv, Alike, CreateOptions

LEMMA ContainersKept ==
    ASSUME TypeInv, OtherStep, NEW d \in Deployment
    PROVE  \/ containers'[d] \in {containers[d], NoContainer}
           \/ Exists(d) /\ Exists(d)' /\ containers'[d].site = containers[d].site
<1>1. ContainersType /\ on \in Deployment /\ (at = "stop" => Exists(on))
  BY DEF TypeInv, TypeOK, Prepared, ContainersType
<1>2. PICK e \in Deployment : e = on
  BY <1>1
<1>3. CASE \/ Exists(e) /\ Start(e, config)
           \/ Exists(e) /\ Stop(e)
  BY <1>1, <1>3, ContainerAfter
<1>4. CASE containers' = [containers EXCEPT ![e] = NoContainer]
  BY <1>1, <1>4 DEF ContainersType
<1>5. CASE UNCHANGED containers
  BY <1>5
<1>6. \/ Exists(e) /\ Start(e, config)
      \/ Exists(e) /\ Stop(e)
      \/ containers' = [containers EXCEPT ![e] = NoContainer]
      \/ UNCHANGED containers
  <2>1. CASE Operator
    BY <2>1 DEF Operator, InitSite, DeleteSite, Connect, Disconnect,
       ConnectorTokenCreate, engineVars
  <2>2. CASE \/ WipeHost \/ WriteSiteConfig \/ MakeDirectories
             \/ CreateNetwork \/ MakeCertificates \/ StartContainer
    BY <1>2, <2>2 DEF WipeHost, WriteSiteConfig, MakeDirectories,
       CreateNetwork, MakeCertificates, StartContainer, StartAllowed, Refused,
       engineVars
  <2>3. CASE DeleteStep
    BY <1>2, <2>3 DEF DeleteStep, DeleteStop, DeleteRemove, DeleteNetwork,
       DeleteFiles, Remove, engineVars
  <2>4. CASE \/ WriteToken \/ RemoveDirectory \/ StopContainer
             \/ RemoveContainer \/ StartContainerAgain \/ RestartProxies
    BY <1>1, <1>2, <2>4 DEF WriteToken, RemoveDirectory, StopContainer,
       RemoveContainer, StartContainerAgain, StartAllowed, RestartProxies,
       Refused, Remove, engineVars
  <2>5. CASE Abort \/ Define \/ Attach \/ Detach
    BY <2>5 DEF Abort, Define, Attach, Detach, engineVars
  <2> QED
    BY <2>1, <2>2, <2>3, <2>4, <2>5 DEF OtherStep
<1> QED
  BY <1>3, <1>4, <1>5, <1>6

LEMMA StagesKept ==
    ASSUME TypeInv, OtherStep, at' \in HeldStages, cmd'.op # "init"
    PROVE  /\ at \in HeldStages /\ cmd.op # "init"
           /\ UNCHANGED <<on, cmd>>
<1> USE DEF HeldStages
<1>1. CASE Operator
  BY <1>1 DEF Operator, InitSite, DeleteSite, Connect, Disconnect,
     ConnectorTokenCreate, Begin, cmdVars
<1>2. CASE \/ WipeHost \/ WriteSiteConfig \/ MakeDirectories
           \/ CreateNetwork \/ MakeCertificates \/ StartContainer
  BY <1>2 DEF WipeHost, WriteSiteConfig, MakeDirectories, CreateNetwork,
     MakeCertificates, StartContainer, Refused, End, Go, GoOn, TypeInv,
     Prepared, InitStages
<1>3. CASE DeleteStep
  BY <1>3 DEF DeleteStep, DeleteStop, DeleteRemove, DeleteNetwork,
     DeleteFiles, NextContainer, End
<1>4. CASE \/ WriteToken \/ RemoveDirectory \/ StopContainer
           \/ RemoveContainer \/ StartContainerAgain \/ RestartProxies
  BY <1>4 DEF WriteToken, RemoveDirectory, StopContainer, RemoveContainer,
     StartContainerAgain, RestartProxies, Refused, End, Go, GoOn, TypeInv,
     Prepared, RecreateStages
<1>5. CASE Abort \/ Define \/ Attach \/ Detach
  BY <1>5 DEF Abort, Define, Attach, Detach, End, cmdVars
<1> QED
  BY <1>1, <1>2, <1>3, <1>4, <1>5 DEF OtherStep

LEMMA HeldKept ==
    ASSUME HeldInv, driver' = driver, options' = options,
           at' \in HeldStages /\ cmd'.op # "init" =>
              /\ at \in HeldStages /\ cmd.op # "init"
              /\ UNCHANGED <<on, cmd, held>>
    PROVE  HeldInv'
BY DEF HeldInv, Alike, CreateOptions

LEMMA EngineLeft ==
    ASSUME MadeInv, UNCHANGED <<containers, driver, options>>,
           Keep \/ UNCHANGED made, at' \notin HeldStages
    PROVE  MadeInv'
<1>1. DOMAIN made' = Deployment
  BY DEF Keep, MadeInv
<1>2. ContainersInv'
  BY <1>1, MadeKept
<1> QED
  BY <1>1, <1>2 DEF MadeInv, HeldInv

LEMMA MadeStep ==
    ASSUME TypeInv, MadeInv, [CommandStep]_<<vars, dataVars>>
    PROVE  MadeInv'
<1>1. CASE WriteInitialConfig \/ ConfigureConnector \/ DropConnector
  <2>1. /\ UNCHANGED <<containers, driver, options>>
        /\ Keep \/ UNCHANGED made
    BY <1>1 DEF WriteInitialConfig, WriteRouterConfig, ConfigureConnector,
       AddConnector, DropConnector, RemoveConnector, UpdateRouterConfig, Keep,
       Refused, engineVars
  <2>2. at' \notin HeldStages
    BY <1>1 DEF WriteInitialConfig, WriteRouterConfig, ConfigureConnector,
       AddConnector, DropConnector, RemoveConnector, Go, Refused, End,
       HeldStages
  <2> QED
    BY <2>1, <2>2, EngineLeft
<1>2. CASE MakeContainer
  <2>1. PICK d \in Deployment : d = on
    BY DEF TypeInv, TypeOK
  <2>2. at = "create" /\ cmd.site \in Uid
    BY <1>2 DEF MakeContainer, CreateContainer, TypeInv, Prepared
  <2>3. at' \notin HeldStages
    BY <1>2 DEF MakeContainer, CreateContainer, Go, Refused, End, HeldStages
  <2>4. CASE Gained(d)
    <3>1. Make(d, CreateOptions(d, cmd.site))
      BY <1>2, <2>1, <2>4 DEF MakeContainer
    <3>2. Create(d, cmd.site)
      BY <1>2, <2>1, <2>4 DEF MakeContainer, CreateContainer, Gained, Exists,
         Refused, engineVars
    <3>3. Alike(d, R!ContainerCreate(driver, CreateOptions(d, cmd.site)), cmd.site)
      BY <2>2, InitAlike DEF MadeInv
    <3> QED
      BY <2>2, <2>3, <3>1, <3>2, <3>3, MadeContainer
  <2>5. CASE ~Gained(d)
    <3>1. Keep
      BY <1>2, <2>1, <2>5 DEF MakeContainer
    <3>2. ContainersType
      BY DEF TypeInv, TypeOK, ContainersType
    <3>3. Create(d, cmd.site) => Exists(d)'
      BY <2>2, <3>2, ContainerAfter
    <3>4. UNCHANGED containers
      BY <1>2, <2>1, <2>5, <3>3
         DEF MakeContainer, CreateContainer, CreateAllowed, Gained, Exists,
             Refused, engineVars
    <3> QED
      BY <2>3, <3>1, <3>4, EngineLeft DEF Keep
  <2> QED
    BY <2>4, <2>5
<1>3. CASE MakeContainerAgain
  <2>1. PICK d \in Deployment : d = on
    BY DEF TypeInv, TypeOK
  <2>2. at = "create" /\ cmd.site \in Uid /\ cmd.op # "init"
    BY <1>3 DEF MakeContainerAgain, CreateContainerAgain, TypeInv, Prepared
  <2>3. at' \notin HeldStages
    BY <1>3 DEF MakeContainerAgain, CreateContainerAgain, Go, Refused, End,
       HeldStages
  <2>4. CASE CreateContainerAgain /\ R!CreateAllowed(driver, held) /\ Gained(d)
    <3>1. Make(d, held)
      BY <1>3, <2>1, <2>4 DEF MakeContainerAgain
    <3>2. Create(d, cmd.site)
      BY <2>1, <2>4 DEF CreateContainerAgain, Gained, Exists, Refused,
         engineVars
    <3>3. Alike(d, R!ContainerCreate(driver, held), cmd.site)
      BY <2>1, <2>2, <2>4 DEF MadeInv, HeldInv, HeldStages, R!CreateAllowed
    <3> QED
      BY <2>2, <2>3, <3>1, <3>2, <3>3, MadeContainer
  <2>5. CASE CreateContainerAgain /\ R!CreateAllowed(driver, held) /\ ~Gained(d)
    <3>1. Keep
      BY <1>3, <2>1, <2>5 DEF MakeContainerAgain
    <3>2. ContainersType
      BY DEF TypeInv, TypeOK, ContainersType
    <3>3. Create(d, cmd.site) => Exists(d)'
      BY <2>2, <3>2, ContainerAfter
    <3>4. UNCHANGED containers
      BY <2>1, <2>5, <3>3 DEF CreateContainerAgain, CreateAllowed, Gained,
         Exists, Refused, engineVars
    <3> QED
      BY <2>3, <3>1, <3>4, EngineLeft DEF Keep
  <2>6. CASE ~R!CreateAllowed(driver, held)
    <3>1. Keep /\ UNCHANGED containers
      BY <1>3, <2>6 DEF MakeContainerAgain, Refused, engineVars
    <3> QED
      BY <2>3, <3>1, EngineLeft DEF Keep
  <2> QED
    BY <1>3, <2>4, <2>5, <2>6 DEF MakeContainerAgain
<1>4. CASE LookAtContainer
  <2>1. PICK d \in Deployment : d = on
    BY DEF TypeInv, TypeOK
  <2>2. UNCHANGED <<containers, driver, options, made>>
    BY <1>4 DEF LookAtContainer, InspectContainer, Refused, engineVars
  <2>3. CASE Exists(d)
    <3>1. /\ at' = "stop" /\ on' = on
          /\ cmd' = [cmd EXCEPT !.site = containers[d].site]
          /\ held' = R!RecreateOptions(R!ContainerInspect(driver, made[d]))
      BY <1>4, <2>1, <2>3 DEF LookAtContainer, InspectContainer
    <3>2. cmd'.site = containers[d].site
      BY <3>1 DEF TypeInv, TypeOK, Command
    <3>3. Alike(d, made[d], containers[d].site)
      BY <2>3 DEF MadeInv, ContainersInv
    <3>4. IF driver = "docker"
          THEN Alike(d, R!ContainerCreate(driver, held'), cmd'.site)
          ELSE held'.image = R!NoText
      BY <3>1, <3>2, <3>3, HeldAlike DEF MadeInv
    <3>5. HeldInv'
      BY <2>1, <2>2, <3>1, <3>4 DEF HeldInv, Alike, CreateOptions
    <3>6. DOMAIN made' = Deployment
      BY <2>2 DEF MadeInv
    <3>7. ContainersInv'
      BY <2>2, <3>6, MadeKept
    <3> QED
      BY <2>2, <3>5, <3>6, <3>7 DEF MadeInv
  <2>4. CASE ~Exists(d)
    <3>1. at' \notin HeldStages
      BY <1>4, <2>1, <2>4 DEF LookAtContainer, InspectContainer, Refused, End,
         HeldStages
    <3> QED
      BY <2>2, <3>1, EngineLeft
  <2> QED
    BY <2>3, <2>4
<1>5. CASE OtherStep
  <2>1. Keep /\ UNCHANGED <<driver, options>>
    BY <1>5 DEF OtherStep, Keep
  <2>2. DOMAIN made' = Deployment
    BY <2>1 DEF Keep
  <2>3. ContainersInv'
    BY <1>5, <2>1, <2>2, ContainersKept, MadeKept
  <2>4. at' \in HeldStages => held' = held
    BY <2>1 DEF Keep, HeldStages
  <2>5. HeldInv'
    BY <1>5, <2>1, <2>4, StagesKept, HeldKept DEF MadeInv
  <2> QED
    BY <2>1, <2>2, <2>3, <2>5 DEF MadeInv
<1>6. CASE UNCHANGED <<vars, dataVars>>
  <2>1. UNCHANGED <<containers, driver, options, made, on, cmd, held, at>>
    BY <1>6 DEF vars, dataVars, engineVars, cmdVars
  <2>2. DOMAIN made' = Deployment
    BY <2>1 DEF MadeInv
  <2>3. ContainersInv'
    BY <2>1, <2>2, MadeKept
  <2>4. HeldInv'
    BY <2>1, HeldKept DEF MadeInv
  <2> QED
    BY <2>1, <2>2, <2>3, <2>4 DEF MadeInv
<1> QED
  BY <1>1, <1>2, <1>3, <1>4, <1>5, <1>6 DEF CommandStep

LEMMA MadeInvariant == DetailsSpec => []MadeInv
<1>1. DetailsSpec => MadeInv
  BY MadeInit DEF DetailsSpec
<1>2. CommandsInv /\ MadeInv /\ [CommandStep]_<<vars, dataVars>> => MadeInv'
  BY MadeStep DEF CommandsInv
<1> QED
  BY CommandsInvariant, <1>1, <1>2, PTL DEF DetailsSpec

(* For any number of commands, whatever the options of `init` and the      *)
(* environment of the images: a container that takes the place of another  *)
(* is made of what `init` made the first one of, or none is made.          *)
THEOREM RecreatedAlikeHolds == DetailsSpec => RecreatedAlike
<1>1. ASSUME MadeInv', [CommandStep]_<<vars, dataVars>>
      PROVE  [\A d \in Deployment :
                 made'[d] # made[d] /\ made'[d] # R!NoSpec
                 => Essentials(made'[d]) =
                       Essentials(R!ContainerCreate(driver,
                          CreateOptions(d, containers'[d].site)))]_made
  <2>1. driver' = driver /\ options' = options
    BY <1>1 DEF CommandStep, WriteInitialConfig, ConfigureConnector,
       DropConnector, MakeContainer, LookAtContainer, MakeContainerAgain,
       OtherStep, UpdateRouterConfig, Keep, Make, dataVars
  <2>2. ASSUME NEW d \in Deployment, made'[d] # R!NoSpec
        PROVE  Essentials(made'[d]) =
                  Essentials(R!ContainerCreate(driver,
                     CreateOptions(d, containers'[d].site)))
    BY <1>1, <2>1, <2>2 DEF MadeInv, ContainersInv, Alike, CreateOptions
  <2> QED
    BY <2>2
<1>2. MadeInv' /\ [CommandStep]_<<vars, dataVars>> =>
         [\A d \in Deployment :
             made'[d] # made[d] /\ made'[d] # R!NoSpec
             => Essentials(made'[d]) =
                   Essentials(R!ContainerCreate(driver,
                      CreateOptions(d, containers'[d].site)))]_made
  BY <1>1
<1> QED
  BY MadeInvariant, <1>2, PTL DEF DetailsSpec, RecreatedAlike
=============================================================================
