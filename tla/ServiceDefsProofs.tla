------------------------- MODULE ServiceDefsProofs -------------------------
(***************************************************************************)
(* Types of what the operators of ServiceDefs return, for the proofs about *)
(* the modules that use them.                                              *)
(***************************************************************************)
EXTENDS ServiceDefs, TLAPS

(* The copy made of a definition is a definition. *)
LEMMA StripType ==
    ASSUME NEW d \in Definition \cup {NoDef}
    PROVE  Strip(d) \in Definition \cup {NoDef}
<1>1. CASE d = NoDef
  BY <1>1 DEF Strip
<1>2. CASE d # NoDef
  <2>1. d \in Definition
    BY <1>2
  <2>2. [d EXCEPT !.option = Plain, !.targets = {}] \in Definition
    BY <2>1, PlainAssumption DEF Definition
  <2> QED
    BY <1>2, <2>2 DEF Strip
<1> QED
  BY <1>1, <1>2

(* The empty file is a registry. *)
LEMMA EmptyRegistryType == EmptyRegistry \in Registry
  BY DEF EmptyRegistry, Registry

(* The controller's views of a file are registries. *)
LEMMA ViewTypes ==
    ASSUME NEW defs \in Registry
    PROVE  AllByName(defs) \in Registry /\ Latest(defs) \in Registry
<1>1. \A a \in Address : Strip(defs[a]) \in Definition \cup {NoDef}
  BY StripType DEF Registry
<1> QED
  BY <1>1 DEF AllByName, Latest, Registry

(* An update stamped with its sender is a registry. *)
LEMMA IndexedType ==
    ASSUME NEW advert \in Registry, NEW o \in Site
    PROVE  Indexed(advert, o) \in Registry
<1>1. ASSUME NEW a \in Address, advert[a] # NoDef
      PROVE  [advert[a] EXCEPT !.origin = o] \in Definition
  <2>1. advert[a] \in Definition
    BY <1>1 DEF Registry
  <2> QED
    BY <2>1 DEF Definition
<1> QED
  BY <1>1 DEF Indexed, Registry

(* What the controller writes is a registry. *)
LEMMA UpdateSkupperServicesType ==
    ASSUME NEW current \in Registry, NEW update \in Registry,
           NEW changed, NEW deleted
    PROVE  UpdateSkupperServices(current, changed, update, deleted)
             \in Registry
  BY DEF UpdateSkupperServices, Registry

(* What the commands write is a registry. *)
LEMMA CommandTypes ==
    ASSUME NEW current \in Registry, NEW a \in Address
    PROVE  /\ [current EXCEPT ![a] = NoDef] \in Registry
           /\ \A p \in Port, opt \in Option :
                 NewService(p, opt) \in Definition
           /\ \A service \in Definition, t \in Target :
                 AddTarget(service, t) \in Definition
           /\ \A service \in Definition, overwrite \in BOOLEAN :
                 UpdateServiceInterface(current, a, service, overwrite)
                   \in Registry
           /\ \A t \in Target, d \in BOOLEAN :
                 current[a] # NoDef
                   => RemoveTarget(current, a, t, d) \in Registry
<1>1. [current EXCEPT ![a] = NoDef] \in Registry
  BY DEF Registry
<1>2. \A p \in Port, opt \in Option : NewService(p, opt) \in Definition
  BY DEF NewService, Definition
<1>3. \A service \in Definition, t \in Target :
         AddTarget(service, t) \in Definition
  BY DEF AddTarget, Definition
<1>4. ASSUME NEW service \in Definition, NEW overwrite \in BOOLEAN
      PROVE  UpdateServiceInterface(current, a, service, overwrite)
               \in Registry
  <2>1. [service EXCEPT !.origin = Local] \in Definition
    BY DEF Definition
  <2> QED
    BY <2>1 DEF UpdateServiceInterface, Registry
<1>5. ASSUME NEW t \in Target, NEW d \in BOOLEAN, current[a] # NoDef
      PROVE  RemoveTarget(current, a, t, d) \in Registry
  <2> DEFINE left == current[a].targets \ {t}
             kept == [current[a] EXCEPT !.targets = left]
  <2>1. current[a] \in Definition
    BY <1>5 DEF Registry
  <2>2. kept \in Definition
    BY <2>1 DEF Definition
  <2>3. RemoveTarget(current, a, t, d)
          = [current EXCEPT ![a] = IF left = {} /\ d THEN NoDef ELSE kept]
    BY <1>5, <2>1 DEF RemoveTarget, Registry
  <2> HIDE DEF kept, left
  <2> QED
    BY <2>2, <2>3 DEF Registry
<1> QED
  BY <1>1, <1>2, <1>3, <1>4, <1>5
=============================================================================
