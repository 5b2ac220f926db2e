---------------------------- MODULE ServiceWatch ----------------------------
(***************************************************************************)
(* What the controller's watch of the service definition file promises,    *)
(* and all that ServiceSync takes of it: in one step it takes up what is   *)
(* in the file, a write is followed by such a step, and it forgets         *)
(* everything when it stops.                                               *)
(***************************************************************************)
CONSTANTS
    Content,        \* what can be in the file
    Torn,           \* a file that is being written
    Nothing,        \* what is known at first
    Meaning(_)      \* what a content amounts to

VARIABLES
    file,           \* what is in the file
    watching,       \* the file is watched
    due,            \* it was written since it was taken up
    view            \* what is known

watchVars == <<file, watching, due, view>>

WatchInit ==
    /\ file \in Content
    /\ watching = FALSE
    /\ due = FALSE
    /\ view = Nothing

Write ==
    /\ file' \in Content \cup {Torn}
    /\ due' = watching
    /\ UNCHANGED <<watching, view>>

(* The first pass is due.                                                  *)
Watch ==
    /\ ~watching
    /\ watching' = TRUE
    /\ due' = TRUE
    /\ UNCHANGED <<file, view>>

(* A file that cannot be decoded is left for the write that follows.  A    *)
(* pass more than is needed may follow this one.                           *)
Pass ==
    /\ watching /\ due
    /\ due' \in BOOLEAN
    /\ view' = IF file = Torn THEN view ELSE Meaning(file)
    /\ UNCHANGED <<file, watching>>

Stop ==
    /\ watching' = FALSE
    /\ due' = FALSE
    /\ view' = Nothing
    /\ UNCHANGED file

WatchNext == Write \/ Watch \/ Pass \/ Stop

WatchSpec == WatchInit /\ [][WatchNext]_watchVars
=============================================================================
