--------------------------- MODULE MCServiceSync ---------------------------
(* Instances of ServiceSync for TLC. *)
EXTENDS ServiceSync, TLC

(* Sites, ports and targets are interchangeable in the safety runs. *)
SiteSymmetry == Permutations(Site)
SiteAddressSymmetry == Permutations(Site) \cup Permutations(Address)
AllSymmetry == Permutations(Site) \cup Permutations(Address)
                 \cup Permutations(Port) \cup Permutations(Target)

(* The behaviours from the state in which every controller has started and *)
(* is connected and nothing has been defined, a state Spec reaches: it     *)
(* leaves room for more commands where starting is not the question.       *)
RunningInit ==
    /\ file = [s \in Site |-> EmptyRegistry]
    /\ pending = [s \in Site |-> FALSE]
    /\ watcher = [s \in Site |-> "watching"]
    /\ sync = [s \in Site |-> "up"]
    /\ byOrigin = [s \in Site |-> NothingTracked]
    /\ byName = [s \in Site |-> EmptyRegistry]
    /\ localServices = [s \in Site |-> EmptyRegistry]
    /\ heardFrom = [s \in Site |-> NothingHeard]
    /\ bindings = [s \in Site |-> EmptyRegistry]
    /\ attached = [s \in Site |-> {}]
    /\ inbox = [s \in Site |-> <<>>]
    /\ everLocal = [s \in Site |-> {}]
    /\ events = 0

RunningSpec == RunningInit /\ [][Next]_vars

(* One of the interchangeable sites. *)
Importing == CHOOSE s \in Site : TRUE

ImportingSymmetry == Permutations(Site \ {Importing})

(* Several sites offer and one imports, restarts and loses connections.    *)
(* What the others would import and make their own they can also create.   *)
ImportingNext ==
    \/ \E s \in Site :
          Operator(s) \/ Watch(s) \/ SendUpdate(s) \/ Elapse(s) \/ AgeTick(s)
    \/ \E o \in Site : Receive(Importing, o)
    \/ Dial(Importing)
    \/ Fault(Importing)

ImportingSpec == RunningInit /\ [][ImportingNext]_vars

(* One site imports, and its operator at most deletes what it imported.    *)
OfferingNext ==
    \E s \in Site :
       \/ s # Importing /\ Operator(s)
       \/ \E a \in Address : Remove(s, a)
       \/ Watch(s)
       \/ Exchange(s)
       \/ Fault(s)

OfferingSpec == RunningInit /\ [][OfferingNext]_vars /\ Fairness
=============================================================================
