---------------------------- MODULE ServiceStore ----------------------------
(***************************************************************************)
(* What the service definition file promises to those who use it, whoever  *)
(* else is at it and whoever is killed: a store of which a writer takes a  *)
(* snapshot, and which it replaces later by its snapshot with one change.  *)
(* So what a writer undoes besides is what others have put there since its *)
(* snapshot, and nothing else; nobody takes a snapshot of half a change.   *)
(* A command fails without an effect or succeeds with all of it: it        *)
(* touches one address and leaves a local definition there or none.  An    *)
(* import puts definitions of one origin in, or takes definitions out.     *)
(*                                                                         *)
(* The store may become illegible at any time.  Nobody can take a snapshot *)
(* then, and only one who has done so before makes it legible again.       *)
(***************************************************************************)
EXTENDS ServiceDefs

CONSTANTS
    Command,        \* the commands the operator runs
    Importer        \* those who import

VARIABLES
    store,          \* the service definitions
    legible,        \* they can be read
    snapshot,       \* snapshot[w]: what w has read
    status          \* how each command ended, or that it has not

storeVars == <<store, legible, snapshot, status>>

Status == {"open", "done", "failed"}

StoreInit ==
    /\ store = EmptyRegistry
    /\ legible = TRUE
    /\ snapshot = [w \in Command \cup Importer |-> EmptyRegistry]
    /\ status = [c \in Command |-> "open"]

TakeSnapshot(w) ==
    /\ legible
    /\ snapshot' = [snapshot EXCEPT ![w] = store]
    /\ UNCHANGED <<store, legible, status>>

BecomeIllegible ==
    /\ legible' = FALSE
    /\ UNCHANGED <<store, snapshot, status>>

Succeed(c, a) ==
    /\ status[c] = "open"
    /\ status' = [status EXCEPT ![c] = "done"]
    /\ store' \in Registry
    /\ \A b \in Address \ {a} : store'[b] = snapshot[c][b]
    /\ store'[a] # snapshot[c][a] => store'[a] = NoDef \/ IsLocal(store'[a])
    /\ legible' \in BOOLEAN
    /\ UNCHANGED snapshot

Refuse(c) ==
    /\ status[c] = "open"
    /\ status' = [status EXCEPT ![c] = "failed"]
    /\ UNCHANGED <<store, legible, snapshot>>

Import(w, o) ==
    /\ store' \in Registry
    /\ \A a \in Address :
          \/ store'[a] = snapshot[w][a]
          \/ store'[a] = NoDef
          \/ ComesFrom(store'[a], o)
    /\ legible' \in BOOLEAN
    /\ UNCHANGED <<snapshot, status>>

StoreNext ==
    \/ \E w \in Command \cup Importer : TakeSnapshot(w)
    \/ BecomeIllegible
    \/ \E c \in Command : (\E a \in Address : Succeed(c, a)) \/ Refuse(c)
    \/ \E w \in Importer, o \in Site : Import(w, o)

StoreSpec == StoreInit /\ [][StoreNext]_storeVars
=============================================================================
