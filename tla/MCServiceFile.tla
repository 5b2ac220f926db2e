--------------------------- MODULE MCServiceFile ---------------------------
(* Instances of ServiceFile for TLC. *)
EXTENDS ServiceFile, TLC

(* Commands, addresses, targets and the other sites are interchangeable. *)
FileSymmetry == Permutations(Command) \cup Permutations(Address)
                  \cup Permutations(Target) \cup Permutations(Site)
=============================================================================
