------------------------------ MODULE D4Sandbox ------------------------------
(* modal_d4.py: the controller of the x86_64 capture.  It creates one sandbox *)
(* from the image of the checkout, starts the worker in it, follows both of   *)
(* its streams with a thread each while it waits, fetches the payload, and    *)
(* releases the sandbox whatever has happened in between.  Only then is the   *)
(* payload kept, first as it came, and validated, by the same process or by   *)
(* a later one.                                                               *)
(*                                                                            *)
(* The sandbox, its streams and its file system are the provider's: what they *)
(* do is modelled from what the controller is prepared for.  The heartbeat,   *)
(* which only reports, and the probe mode are left out.                       *)
EXTENDS D4Capture

CONSTANTS
    Attempts      \* bound on later finalizations

ASSUME AttemptsAssumption == Attempts \in Nat

VARIABLES
    control,      \* the controller: its place, its error, what it holds
    remote,       \* the sandbox, the worker process in it, what it has written
    stream,       \* the threads that read the worker's streams
    finalizer     \* the process that validates a kept payload

sandboxVars == <<control, remote, stream, finalizer>>

VM == "x86_64"
OnModal == Provider[VM] = "modal"
Streams == {"stdout", "stderr"}

SandboxInit ==
    /\ \E defer \in BOOLEAN :
        control = [at |-> "hydrate", defer |-> defer, source |-> 0, holds |-> FALSE,
                   failed |-> FALSE, exit |-> -1, payload |-> <<>>]
    /\ remote = [sandbox |-> "none", attached |-> FALSE, exit |-> -1, output |-> <<>>,
                 written |-> [s \in Streams |-> 0]]
    /\ stream = [s \in Streams |-> [at |-> "idle", read |-> 0]]
    /\ finalizer = [at |-> "idle", source |-> 0, payload |-> <<>>, attempts |-> 0]

Moves(from, to) == control.at = from /\ control' = [control EXCEPT !.at = to]

(* Mutated form: an error ends the controller.                                *)
RaisesAtOnce == control' = [control EXCEPT !.failed = TRUE, !.at = "ended"]

(* An error: what is held is released before the controller ends.             *)
Raises == control' = [control EXCEPT !.failed = TRUE,
                          !.at = IF control.holds THEN "terminate" ELSE "ended"]

-------------------------------------------------------------------------------
(* The image takes its copy of the checkout while the app starts, before main.*)
Hydrate ==
    /\ OnModal /\ Moves("hydrate", "main")
    /\ capture' = [capture EXCEPT ![VM].image = checkout]
    /\ UNCHANGED <<checkout, disk, faults, remote, stream, finalizer>>

(* main: the identity of a clean checkout whose files are those of its commit.*)
Main ==
    /\ control.at = "main"
    /\ control' = IF checkout.tree = checkout.head
                  THEN [control EXCEPT !.at = "create", !.source = checkout.head]
                  ELSE [control EXCEPT !.at = "ended", !.failed = TRUE]
    /\ UNCHANGED <<captureVars, remote, stream, finalizer>>

Create ==
    /\ control.at = "create"
    /\ control' = [control EXCEPT !.at = "exec", !.holds = TRUE]
    /\ remote' = [remote EXCEPT !.sandbox = "live", !.attached = TRUE]
    /\ UNCHANGED <<captureVars, stream, finalizer>>

(* The control file and the worker, with a thread on each of its streams.     *)
Exec ==
    /\ Moves("exec", "wait")
    /\ capture' = [capture EXCEPT ![VM].at = 1, ![VM].artifact.source = control.source]
    /\ remote' = [remote EXCEPT !.written["stdout"] = 1]
    /\ stream' = [s \in Streams |-> [stream[s] EXCEPT !.at = "reading"]]
    /\ UNCHANGED <<checkout, disk, faults, finalizer>>

(* process.wait returns the worker's exit status.                             *)
Wait ==
    /\ control.at = "wait" /\ remote.exit >= 0
    /\ control' = [control EXCEPT !.at = "join", !.exit = remote.exit]
    /\ UNCHANGED <<captureVars, remote, stream, finalizer>>

(* Mutated form: the thread on stderr only is waited for.                     *)
JoinStderr ==
    /\ control.at = "join"
    /\ stream["stderr"].at \in {"ended", "broken"}
    /\ IF stream["stderr"].at = "broken" \/ control.exit # 0
       THEN Raises
       ELSE control' = [control EXCEPT !.at = "read"]
    /\ UNCHANGED <<captureVars, remote, stream, finalizer>>

(* Both threads have ended; the error of either, or of the worker, is raised. *)
Join ==
    /\ control.at = "join"
    /\ \A s \in Streams : stream[s].at \in {"ended", "broken"}
    /\ IF (\E s \in Streams : stream[s].at = "broken") \/ control.exit # 0
       THEN Raises
       ELSE control' = [control EXCEPT !.at = "read"]
    /\ UNCHANGED <<captureVars, remote, stream, finalizer>>

ReadPayload ==
    /\ control.at = "read"
    /\ control' = [control EXCEPT !.at = "terminate", !.payload = remote.output]
    /\ UNCHANGED <<captureVars, remote, stream, finalizer>>

Terminated ==
    /\ remote' = [remote EXCEPT !.sandbox = "terminated",
                                !.exit = IF @ = -1 THEN 137 ELSE @]
    /\ IF Complete(VM) THEN UNCHANGED capture
       ELSE capture' = [capture EXCEPT ![VM].failed = TRUE]

(* The call raises, or the sandbox still answers after it: the payload is     *)
(* given up with the exception.                                               *)
Terminate ==
    /\ control.at = "terminate"
    /\ \/ /\ Terminated
          /\ control' = [control EXCEPT !.at = "detach"]
          /\ UNCHANGED faults
       \/ /\ Fault("terminate")
          /\ control' = [control EXCEPT !.at = "detach", !.failed = TRUE]
          /\ UNCHANGED <<capture, remote>>
    /\ UNCHANGED <<checkout, disk, stream, finalizer>>

Detach ==
    /\ control.at = "detach"
    /\ control' = [control EXCEPT !.at = IF control.failed THEN "ended" ELSE "keep"]
    /\ remote' = [remote EXCEPT !.attached = FALSE]
    /\ UNCHANGED <<captureVars, stream, finalizer>>

(* The payload is kept, by renaming, beside the destination; then it is left  *)
(* to a later process, or finalized against the identity taken at the start.  *)
Keep ==
    /\ control.at = "keep"
    /\ control' = [control EXCEPT !.at = "ended"]
    /\ disk' = [disk EXCEPT !.unvalidated = control.payload]
    /\ finalizer' = IF control.defer THEN finalizer
                    ELSE [finalizer EXCEPT !.at = "read", !.source = control.source]
    /\ UNCHANGED <<capture, checkout, faults, remote, stream>>

-------------------------------------------------------------------------------
(* finalize_capture: a process of its own, when no other one is at work,      *)
(* takes the identity of the checkout as it is now.                           *)
FinalizeLater ==
    /\ control.at \in {"ended", "killed"} /\ finalizer.at = "idle"
    /\ disk.unvalidated # <<>> /\ finalizer.attempts < Attempts
    /\ finalizer' = [finalizer EXCEPT !.at = "read", !.source = checkout.tree,
                                      !.attempts = @ + 1]
    /\ UNCHANGED <<captureVars, control, remote, stream>>

ReadUnvalidated ==
    /\ finalizer.at = "read"
    /\ finalizer' = [finalizer EXCEPT !.at = "write", !.payload = disk.unvalidated]
    /\ UNCHANGED <<captureVars, control, remote, stream>>

(* Mutated form: the kept payload is removed when validation fails, too.      *)
WriteOrRemove ==
    /\ finalizer.at = "write"
    /\ disk' = IF Writable(finalizer.payload[1], finalizer.source)
               THEN [disk EXCEPT !.archive[VM] = finalizer.payload] ELSE disk
    /\ finalizer' = [finalizer EXCEPT !.at = "unlink"]
    /\ UNCHANGED <<capture, checkout, faults, control, remote, stream>>

(* write_capture_archive; an error leaves the kept payload.                   *)
WriteValidated ==
    /\ finalizer.at = "write"
    /\ IF Writable(finalizer.payload[1], finalizer.source)
       THEN /\ disk' = [disk EXCEPT !.archive[VM] = finalizer.payload]
            /\ finalizer' = [finalizer EXCEPT !.at = "unlink"]
       ELSE /\ finalizer' = [finalizer EXCEPT !.at = "idle"]
            /\ UNCHANGED disk
    /\ UNCHANGED <<capture, checkout, faults, control, remote, stream>>

UnlinkUnvalidated ==
    /\ finalizer.at = "unlink"
    /\ disk' = [disk EXCEPT !.unvalidated = <<>>]
    /\ finalizer' = [finalizer EXCEPT !.at = "idle"]
    /\ UNCHANGED <<capture, checkout, faults, control, remote, stream>>

ControlStep ==
    \/ Hydrate \/ Main \/ Create \/ Exec \/ Wait \/ Join \/ ReadPayload \/ Terminate
    \/ Detach \/ Keep

FinalizerStep == ReadUnvalidated \/ WriteValidated \/ UnlinkUnvalidated

-------------------------------------------------------------------------------
(* The worker process: _worker_main writes its output last, and says so.      *)
Alive == remote.sandbox = "live" /\ remote.exit = -1

WorkerExits ==
    /\ Alive /\ capture[VM].at > 0
    /\ \/ /\ Complete(VM) /\ remote.output = <<>>
          /\ remote' = [remote EXCEPT !.output = <<Artifact(VM)>>]
       \/ /\ Complete(VM) /\ remote.output # <<>>
          /\ remote' = [remote EXCEPT !.exit = 0, !.written["stdout"] = @ + 1]
       \/ /\ capture[VM].failed
          /\ remote' = [remote EXCEPT !.exit = 1, !.written = [s \in Streams |-> @[s] + 1]]
    /\ UNCHANGED <<captureVars, control, stream, finalizer>>

(* A thread reads what was written, or ends once nothing more can be.         *)
Drain(s) ==
    /\ stream[s].at = "reading"
    /\ \/ /\ stream[s].read < remote.written[s]
          /\ stream' = [stream EXCEPT ![s].read = @ + 1]
       \/ /\ stream[s].read >= remote.written[s] /\ remote.exit >= 0
          /\ stream' = [stream EXCEPT ![s].at = "ended"]
    /\ UNCHANGED <<captureVars, control, remote, finalizer>>

-------------------------------------------------------------------------------
(* What may go wrong around the sandbox.  A call that creates one may fail    *)
(* when it is there already: then nobody holds it.                            *)
RemoteCallFails ==
    /\ OnModal /\ control.at \in {"hydrate", "create", "exec", "wait", "read"}
    /\ Fault("remote") /\ Raises
    /\ \/ UNCHANGED remote
       \/ control.at = "create" /\ remote' = [remote EXCEPT !.sandbox = "live"]
    /\ UNCHANGED <<capture, checkout, disk, stream, finalizer>>

WorkerIsKilled ==
    /\ Alive /\ capture[VM].at > 0 /\ ~capture[VM].failed
    /\ Fault("worker")
    /\ remote' = [remote EXCEPT !.exit = 137]
    /\ capture' = [capture EXCEPT ![VM].failed = TRUE]
    /\ UNCHANGED <<checkout, disk, control, stream, finalizer>>

DrainBreaks(s) ==
    /\ stream[s].at = "reading"
    /\ Fault("stream")
    /\ stream' = [stream EXCEPT ![s].at = "broken"]
    /\ UNCHANGED <<capture, checkout, disk, control, remote, finalizer>>

DetachFails ==
    /\ control.at = "detach"
    /\ Fault("detach")
    /\ control' = [control EXCEPT !.at = "ended", !.failed = TRUE]
    /\ UNCHANGED <<capture, checkout, disk, remote, stream, finalizer>>

(* The process of the controller, and with it that of its finalization, ends. *)
ControllerIsKilled ==
    /\ control.at \notin {"hydrate", "ended", "killed"} \/ finalizer.at # "idle"
    /\ Fault("killed")
    /\ control' = [control EXCEPT !.at = "killed"]
    /\ finalizer' = [finalizer EXCEPT !.at = "idle"]
    /\ stream' = [s \in Streams |-> [stream[s] EXCEPT !.at = "idle"]]
    /\ UNCHANGED <<capture, checkout, disk, remote>>

(* A sandbox nobody ends comes to its time limit.                             *)
TimeLimit ==
    /\ control.at \in {"ended", "killed"} /\ remote.sandbox = "live"
    /\ Terminated
    /\ UNCHANGED <<checkout, disk, faults, control, stream, finalizer>>

SandboxFaults ==
    \/ RemoteCallFails \/ WorkerIsKilled \/ DetachFails \/ ControllerIsKilled
    \/ \E s \in Streams : DrainBreaks(s)

==============================================================================
