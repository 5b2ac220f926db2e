---------------------------- MODULE ContainerExec ----------------------------
(***************************************************************************)
(* Driver.ContainerExec: a command run in the router's container, and its  *)
(* output brought into a buffer.  Docker's driver copies from the stream   *)
(* of the engine.  Podman's puts a pipe in the place of the process's own  *)
(* standard output, lets the engine write into it until the command has    *)
(* ended, and only then starts to read.                                    *)
(***************************************************************************)
EXTENDS Integers

CONSTANTS
    MaxOutput,      \* bound on the output of a command, in blocks
    PipeCapacity    \* blocks a pipe holds

VARIABLES
    driver,         \* "docker" or "podman"; does not change
    exec,           \* the call
    stdout          \* where what the process prints goes

execVars == <<exec, stdout>>

(* written: blocks the command has written; pipe: those not yet read from  *)
(* the pipe; left: those it would still write; answer: what it found.      *)
Exec(Answer) ==
    [at : {"none", "create", "attach", "copy", "inspect", "return", "done",
           "failed"},
     saved : {"terminal", "pipe"}, answer : Answer, left : 0..MaxOutput,
     pipe : 0..PipeCapacity, buffer : 0..MaxOutput, written : 0..MaxOutput,
     ok : BOOLEAN]

NoExec(answer) ==
    [at |-> "none", saved |-> "terminal", answer |-> answer, left |-> 0,
     pipe |-> 0, buffer |-> 0, written |-> 0, ok |-> FALSE]

Stage(s) == exec' = [exec EXCEPT !.at = s]

(* Podman: the pipe takes the place of standard output first of all.       *)
ExecBegin ==
    /\ exec.at = "none"
    /\ exec' = [exec EXCEPT !.at = "create", !.saved = stdout]
    /\ stdout' = IF driver = "podman" THEN "pipe" ELSE stdout

(* ExecCreate.  Where it fails the driver returns: podman's leaves the     *)
(* pipe where it is.                                                       *)
ExecCreate(running) ==
    /\ exec.at = "create"
    /\ \/ running /\ Stage("attach")
       \/ Stage("failed")
    /\ UNCHANGED stdout

(* The command starts, with its output attached; it finds the answer now.  *)
ExecAttach(answer) ==
    /\ exec.at = "attach"
    /\ \/ \E n \in 1..MaxOutput :
             exec' = [exec EXCEPT !.at = "copy", !.answer = answer, !.left = n]
       \/ Stage("failed")
    /\ UNCHANGED stdout

(* A block goes to the buffer (docker) or into the pipe, if there is room. *)
ExecOutput ==
    /\ exec.at = "copy"
    /\ exec.left > 0
    /\ driver = "podman" => exec.pipe < PipeCapacity
    /\ exec' = IF driver = "docker"
               THEN [exec EXCEPT !.left = @ - 1, !.written = @ + 1,
                                 !.buffer = @ + 1]
               ELSE [exec EXCEPT !.left = @ - 1, !.written = @ + 1,
                                 !.pipe = @ + 1]
    /\ UNCHANGED stdout

(* The stream ends with the command.                                       *)
ExecStreamEnds ==
    /\ exec.at = "copy"
    /\ exec.left = 0
    /\ Stage("inspect")
    /\ UNCHANGED stdout

(* It also ends with the container, and a container that takes its place   *)
(* knows nothing of the call.                                              *)
ExecCut ==
    exec' = [exec EXCEPT !.at = IF @ \in {"create", "attach"} THEN "failed"
                                ELSE IF @ = "copy" THEN "inspect" ELSE @]

(* ExecInspect; the result is made, and podman's deferred function runs.   *)
ExecInspect ==
    /\ exec.at = "inspect"
    /\ \E ok \in BOOLEAN :
          exec' = [exec EXCEPT !.ok = ok,
                      !.at = IF driver = "podman" THEN "return"
                             ELSE IF ok THEN "done" ELSE "failed"]
    /\ UNCHANGED stdout

(* Podman's copier, which runs from the end of the command.                *)
ExecCopy ==
    /\ exec.at \in {"inspect", "return"}
    /\ exec.pipe > 0
    /\ exec' = [exec EXCEPT !.pipe = @ - 1, !.buffer = @ + 1]
    /\ UNCHANGED stdout

(* Mutant: the pipe stays in the place of standard output.                 *)
ExecReturnRedirected ==
    /\ exec.at = "return"
    /\ exec.pipe = 0
    /\ Stage(IF exec.ok THEN "done" ELSE "failed")
    /\ UNCHANGED stdout

(* Mutant: the copier is not waited for.                                   *)
ExecReturnAtOnce ==
    /\ exec.at = "return"
    /\ Stage(IF exec.ok THEN "done" ELSE "failed")
    /\ stdout' = exec.saved

(* The writing end is closed, standard output is what it was, and the      *)
(* copier is waited for.                                                   *)
ExecReturn ==
    /\ exec.at = "return"
    /\ exec.pipe = 0
    /\ Stage(IF exec.ok THEN "done" ELSE "failed")
    /\ stdout' = exec.saved

(* What the caller can decode: nothing unless the buffer has all of it.    *)
Decodable == exec.at = "done" /\ exec.left = 0 /\ exec.buffer = exec.written

ExecEnded == exec.at \in {"done", "failed"}

(* The engine waits for room in a pipe that nobody reads.                  *)
Jammed ==
    /\ driver = "podman" /\ exec.at = "copy"
    /\ exec.left > 0 /\ exec.pipe = PipeCapacity

ExecStep(running, answer) ==
    \/ ExecCreate(running) \/ ExecAttach(answer) \/ ExecOutput
    \/ ExecStreamEnds \/ ExecInspect \/ ExecCopy \/ ExecReturn
=============================================================================
