--------------------------- MODULE MCControllerRun ---------------------------
(* ControllerRun for TLC: a service that is defined here, changed, taken   *)
(* out, and known from another site.                                       *)
EXTENDS ControllerRun, TLC

CONSTANTS db, web, app, host, plain, no, headless, south, HostService

KindOf == db :> Container @@ app :> Container @@ host :> HostService

ToPort(t, p) ==
    t :> [port |-> p, selector |-> KindOf[t], service |-> NoService]

Defined(p, h, o, targets) ==
    [port |-> p, option |-> plain, headless |-> h, origin |-> o,
     targets |-> targets]

Contents ==
    {NoDefinitions,
     db :> Defined(1, headless, south, <<>>)
         @@ web :> Defined(1, no, Local, ToPort(app, 2)),
     db :> Defined(1, no, Local, ToPort(db, 0))
         @@ web :> Defined(1, no, south, <<>>),
     db :> Defined(2, no, Local, ToPort(db, 0) @@ ToPort(host, 1))
         @@ web :> NoDef}
=============================================================================
