---------------------------- MODULE MCSiteQueries ----------------------------
(* SiteQueries for TLC. *)
EXTENDS SiteQueries

Images == {"router-image", "controller-image"}
ImageEnvironment == [i \in Images |-> [n \in {"PATH", "VERSION"} |-> n]]
ImageCommand == [i \in Images |-> <<i>>]

Interior ==
    [edge |-> FALSE, auth |-> "", console |-> TRUE, routerConsole |-> TRUE,
     trace |-> FALSE, mapToHost |-> TRUE, tmpdir |-> ""]
Edge ==
    [edge |-> TRUE, auth |-> "unsecured", console |-> FALSE,
     routerConsole |-> TRUE, trace |-> TRUE, mapToHost |-> FALSE,
     tmpdir |-> "/tmp"]

EachEngine ==
    {[driver |-> "docker", options |-> Interior],
     [driver |-> "podman", options |-> Edge]}
=============================================================================
