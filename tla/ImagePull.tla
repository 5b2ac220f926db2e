------------------------------ MODULE ImagePull ------------------------------
(***************************************************************************)
(* ImagesPull of docker's driver.  The engine answers the call with a      *)
(* stream of messages about its progress.  A second goroutine, the         *)
(* reporter, looks at each tick of a timer when the last message came, and *)
(* cancels a pull that has been silent for too long.  Podman's driver      *)
(* makes one call and waits.                                               *)
(***************************************************************************)
EXTENDS Integers

CONSTANTS
    Interval,       \* defaultImagePullingProgressReportInterval
    Deadline,       \* imagePullProgressDeadline, in the same unit
    MaxMessages     \* bound on the messages of one pull

ASSUME TimeAssumption ==
    Interval \in Nat \ {0} /\ Deadline \in Nat /\ MaxMessages \in Nat

VARIABLES
    pull,           \* "none", "call", "stream", "pulled", "failed"
    timer,          \* until the reporter's next tick
    elapsed,        \* since the timestamp of the latest progress
    canceled,       \* the context is canceled; the reporter has returned
    messages,       \* messages so far
    silence         \* history: since a message came, or the stream began

pullVars == <<pull, timer, elapsed, canceled, messages, silence>>

PullTypeOK ==
    /\ pull \in {"none", "call", "stream", "pulled", "failed"}
    /\ timer \in 0..Interval
    /\ elapsed \in Nat
    /\ canceled \in BOOLEAN
    /\ messages \in 0..MaxMessages
    /\ silence \in Nat

PullInit ==
    /\ pull = "none"
    /\ timer = Interval
    /\ elapsed = 0
    /\ canceled = FALSE
    /\ messages = 0
    /\ silence = 0

(* Context and reporter are one call's own.                                *)
Anew ==
    /\ timer' = Interval
    /\ elapsed' = 0
    /\ canceled' = FALSE
    /\ messages' = 0
    /\ silence' = 0

PullBegin == pull' = "call" /\ Anew

(* The engine answers.  A pull by podman is over then.                     *)
PullAnswered(driver) ==
    /\ pull = "call"
    /\ pull' \in {IF driver = "docker" THEN "stream" ELSE "pulled", "failed"}
    /\ UNCHANGED <<timer, elapsed, canceled, messages, silence>>

(* Time does not pass over a tick, or over the end of a canceled stream.   *)
TimePasses ==
    /\ pull = "stream" /\ ~canceled
    /\ timer > 0
    /\ timer' = timer - 1
    /\ elapsed' = elapsed + 1
    /\ silence' = silence + 1
    /\ UNCHANGED <<pull, canceled, messages>>

(* The time since the timestamp is found too long.  The first is taken     *)
(* just before the ticker starts, and a later one anywhere between two     *)
(* units of time, so at the deadline it may be found so, or not yet.       *)
Overdue(late) ==
    /\ late => elapsed >= Deadline
    /\ ~late => elapsed =< Deadline

(* Mutant: that the reporter looked counts as progress.                    *)
ReporterTickResets ==
    /\ pull = "stream" /\ ~canceled
    /\ timer = 0
    /\ timer' = Interval
    /\ canceled' \in BOOLEAN /\ Overdue(canceled')
    /\ elapsed' = 0
    /\ UNCHANGED <<pull, messages, silence>>

ReporterTick ==
    /\ pull = "stream" /\ ~canceled
    /\ timer = 0
    /\ timer' = Interval
    /\ canceled' \in BOOLEAN /\ Overdue(canceled')
    /\ UNCHANGED <<pull, elapsed, messages, silence>>

(* Mutant: a message does not set the timestamp.                           *)
ProgressWithoutTimestamp ==
    /\ pull = "stream"
    /\ messages < MaxMessages
    /\ messages' = messages + 1
    /\ silence' = 0
    /\ UNCHANGED <<pull, timer, elapsed, canceled>>

Progress ==
    /\ pull = "stream"
    /\ messages < MaxMessages
    /\ messages' = messages + 1
    /\ elapsed' = 0
    /\ silence' = 0
    /\ UNCHANGED <<pull, timer, canceled>>

(* The stream ends; or it cannot be read any further, or tells of an error,*)
(* which a canceled one does at last.                                      *)
StreamEnds ==
    /\ pull = "stream"
    /\ pull' \in {"pulled", "failed"}
    /\ Anew

StreamCanceled ==
    /\ pull = "stream" /\ canceled
    /\ pull' = "failed"
    /\ Anew

PullStep(driver) ==
    \/ PullAnswered(driver) \/ TimePasses \/ ReporterTick \/ StreamCanceled
    \/ Progress \/ StreamEnds
=============================================================================
