------------------------------ MODULE D4Pipeline -----------------------------
(* The D4 release certification as a whole: a capture on each of two hosts,   *)
(* the controller and the sandbox of the x86_64 one, the finalization of its  *)
(* payload and the certification of both archives, with one checkout that all *)
(* of them read.                                                              *)
EXTENDS D4Certificate

vars == <<captureVars, sandboxVars, certificateVars>>

Init == CaptureInit /\ SandboxInit /\ CertificateInit

(* The worker of the sandbox works while its process lives.                   *)
HostStep(h) ==
    /\ Provider[h] = "modal" => Alive
    /\ CaptureStep(h)
    /\ UNCHANGED <<sandboxVars, certificateVars>>

ControllerStep == ControlStep /\ UNCHANGED certificateVars
LaterStep == FinalizerStep /\ UNCHANGED certificateVars
WorkerStep == WorkerExits /\ UNCHANGED certificateVars
DrainStep(s) == Drain(s) /\ UNCHANGED certificateVars
Expires == TimeLimit /\ UNCHANGED certificateVars

Finalizes == FinalizeLater /\ UNCHANGED certificateVars

Faults ==
    \/ HostFaults /\ UNCHANGED <<sandboxVars, certificateVars>>
    \/ SandboxFaults /\ UNCHANGED certificateVars
    \/ CertifierIsKilled

Next ==
    \/ \E h \in Hosts : HostStep(h)
    \/ \E s \in Streams : DrainStep(s)
    \/ ControllerStep \/ LaterStep \/ WorkerStep \/ Expires \/ Finalizes
    \/ CertificateStep \/ Faults

Spec == Init /\ [][Next]_vars

(* Every process that runs is scheduled, and a sandbox comes to its limit.    *)
(* What a user starts (a later finalization, a certification) need not be,    *)
(* and nothing has to go wrong.                                               *)
FairSpec ==
    /\ Spec
    /\ \A h \in Hosts : WF_vars(HostStep(h))
    /\ \A s \in Streams : WF_vars(DrainStep(s))
    /\ WF_vars(ControllerStep) /\ WF_vars(LaterStep)
    /\ WF_vars(WorkerStep) /\ WF_vars(Expires)

-------------------------------------------------------------------------------
(* A payload reaches the disk only when its worker ended well, both of its    *)
(* streams were read to their end without an error, and the sandbox is gone   *)
(* (modal_d4.py:312-331, 953-986).                                            *)
PayloadsComeFromReleasedSandboxes ==
    OnModal /\ (disk.unvalidated # <<>> \/ disk.archive[VM] # <<>>) =>
        /\ remote.exit = 0 /\ remote.sandbox = "terminated" /\ ~remote.attached
        /\ \A s \in Streams : stream[s].read = remote.written[s]
        /\ faults.kinds \cap {"stream", "worker", "terminate", "detach"} = {}

(* A finished capture is somewhere: a payload that was fetched and released   *)
(* stays beside its destination until it is the archive there, and a local    *)
(* workspace stays until its archive is written (modal_d4.py:1000-1015,       *)
(* d4_local.py:435-441).                                                      *)
NoCaptureIsLost ==
    /\ OnModal /\ control.at = "ended" /\ ~control.failed =>
        disk.archive[VM] # <<>> \/ disk.unvalidated # <<>>
    /\ \A h \in Hosts : Provider[h] # "modal" /\ Complete(h) =>
        disk.archive[h] # <<>> \/ capture[h].workspace

(* Files of the checkout were brought back to what they had been; nothing the *)
(* measurements depend on was.                                                *)
Restored == "checkout_restored" \in faults.kinds
Steady == faults.kinds \cap {"environment_restored", "allocation_restored"} = {}

(* A certification rests on one capture of each architecture.  Every result   *)
(* was measured on the wheel its archive holds and given the workload of the  *)
(* one source it names; the wheel of the sandbox is of that source however    *)
(* the checkout came and went, a local one and what was measured while its    *)
(* environment or processors had changed do not get this far unless what had  *)
(* changed was brought back (d4_evidence.py:247-278, modal_d4.py:833-848); it *)
(* is releasable exactly when every process of both hosts met every bound at  *)
(* every budget (d4_evidence.py:1437-1453).                                   *)
ReleasesRestOnBothCaptures ==
    \A i \in DOMAIN release.artifact :
        LET artifact == release.artifact[i]
            results(h) == {artifact.captures[h].results[t] : t \in BudgetSet}
        IN  /\ \A h \in Hosts :
                /\ artifact.captures[h].source = artifact.source
                /\ Provider[h] = "modal" \/ ~Restored =>
                     artifact.captures[h].wheel = artifact.source
                /\ \A r \in results(h) :
                     /\ r.wheel = artifact.captures[h].wheel
                     /\ r.workload = WorkloadOf[artifact.source]
                     /\ Steady => r.undisturbed
            /\ artifact.releasable <=>
                 \A h \in Hosts : \A r \in results(h) : r.speed = "met"

(* A missed bound keeps no archive from being written and certified: in the   *)
(* end, when nothing else went wrong and the payload was not left for later,  *)
(* both archives are there, and the certification can be rebuilt from them    *)
(* (d4_worker.py:563-570, 615-622; d4_linux.py:567).                          *)
SoundCapturesAreCertified ==
    <>[](faults.kinds \subseteq {"miss"} /\ ~control.defer =>
          BothArchives /\ Rebuilds(Archives))

(* In the end, the sandbox a controller came to hold is terminated and        *)
(* detached for good, whatever failed in between, unless the controller was   *)
(* killed or one of the two calls failed itself (modal_d4.py:965-986).        *)
SandboxesAreReleased ==
    <>[](control.holds =>
          \/ remote.sandbox = "terminated" /\ ~remote.attached
          \/ faults.kinds \cap {"killed", "terminate", "detach"} # {})

==============================================================================
