--------------------------- MODULE MCSiteCommands ---------------------------
(* SiteCommands for TLC. *)
EXTENDS SiteCommands, TLC

Symmetry == Permutations(Uid)
=============================================================================
