---------------------------- MODULE D4Certificate ----------------------------
(* d4_evidence.py: one process rebuilds the certification from the two        *)
(* archives alone, against the checkout it runs in, and writes first the      *)
(* artifact and then the report; another one rebuilds it to compare what was  *)
(* written.  performance_certification_v1.py is what they compute.            *)
(*                                                                            *)
(* A version of the checkout stands for its files outside the directories     *)
(* that hold generated evidence, which the code lets change after a capture.  *)
EXTENDS D4Sandbox

VARIABLES
    certifier,    \* the process that writes the certification, with what it built
    release       \* the artifact and the report on the disk, and what was accepted

certificateVars == <<certifier, release>>

CertificateInit ==
    /\ certifier = [at |-> "idle", artifact |-> <<>>, runs |-> 0]
    /\ release = [artifact |-> <<>>, report |-> <<>>, accepted |-> FALSE]

-------------------------------------------------------------------------------
(* Mutated form: commits are compared, the working tree is not.               *)
CommitIsCurrent(source) == checkout.head = source

(* _assert_current_source: nothing was committed since the captured revision, *)
(* and the working tree is clean.                                             *)
SourceIsCurrent(source) ==
    /\ checkout.head = source
    /\ checkout.tree = checkout.head

(* _archive and _validate_provenance.                                         *)
Authentic(a) == Readable(a) /\ a.started < a.completed

(* _phase_c_record: a conformance report is of the retained wheel.            *)
ReportIsOfTheBuild(a, p) == a.reports[p].wheel = a.build.wheel

(* One benchmark of _capture: the raw protocol of its budget, of the retained *)
(* wheel, under the archived first conformance run.                           *)
ResultIsAuthentic(a, t) ==
    /\ a.results[t].budget = t
    /\ a.results[t].wheel = a.build.wheel
    /\ a.results[t].conformance = a.reports["pre"]

(* _validate_observation: the processors measured on are those of the host.   *)
ObservationAgrees(a, t) == a.results[t].masks = a.masks

CaptureAgrees(a) ==
    /\ \A t \in BudgetSet : ResultIsAuthentic(a, t) /\ ObservationAgrees(a, t)
    /\ \A p \in Positions : ReportIsOfTheBuild(a, p)

(* The workload each benchmark read is the one of the current checkout.       *)
WorkloadIsCurrent(result) == result.workload = WorkloadOf[checkout.tree]

(* Both hosts were given the same inputs.                                     *)
InputsAgree(archives) ==
    \A h, g \in Hosts : \A t \in BudgetSet :
        archives[h].results[t].workload = archives[g].results[t].workload

(* _identity.                                                                 *)
IdentityAgrees(archives) ==
    /\ \A h, g \in Hosts : archives[h].source = archives[g].source
    /\ \A h \in Hosts : SourceIsCurrent(archives[h].source)

(* _noise_gates and _compact_gates: every bound of both hosts at every        *)
(* budget, none of them pruned.                                               *)
Gates == {"noise", "speed"} \X Hosts \X BudgetSet

Missed(archives, gate) ==
    archives[gate[2]].results[gate[3]].speed = IF gate[1] = "noise" THEN "noisy" ELSE "slow"

(* rebuild_from_archives fails, or returns the certification.                 *)
Rebuilds(archives) ==
    /\ \A h \in Hosts : Authentic(archives[h])
    /\ IdentityAgrees(archives)
    /\ \A h \in Hosts :
        /\ CaptureAgrees(archives[h])
        /\ \A t \in BudgetSet : WorkloadIsCurrent(archives[h].results[t])
    /\ InputsAgree(archives)

(* build_certification.                                                       *)
Certification(archives) ==
    [source |-> archives["arm64"].source, captures |-> archives,
     missed |-> {gate \in Gates : Missed(archives, gate)},
     releasable |-> \A gate \in Gates : ~Missed(archives, gate)]

(* render_report, which builds the certification again from the captures in   *)
(* the artifact.                                                              *)
Report(artifact) == [releasable |-> artifact.releasable, missed |-> artifact.missed]

-------------------------------------------------------------------------------
Archives == [h \in Hosts |-> disk.archive[h][1]]
BothArchives == \A h \in Hosts : disk.archive[h] # <<>>

(* A rebuild that fails ends the process, which a user may start again.       *)
Certify ==
    /\ certifier.at = "idle" /\ BothArchives /\ certifier.runs <= Attempts
    /\ release.artifact = <<>> \/ release.report = <<>>
    /\ certifier' = [certifier EXCEPT !.runs = @ + 1,
                        !.at = IF Rebuilds(Archives) THEN "artifact" ELSE @,
                        !.artifact = IF Rebuilds(Archives)
                                     THEN <<Certification(Archives)>> ELSE @]
    /\ UNCHANGED <<captureVars, sandboxVars, release>>

WriteArtifact ==
    /\ certifier.at = "artifact"
    /\ release' = [release EXCEPT !.artifact = certifier.artifact, !.accepted = FALSE]
    /\ certifier' = [certifier EXCEPT !.at = "report"]
    /\ UNCHANGED <<captureVars, sandboxVars>>

WriteReport ==
    /\ certifier.at = "report"
    /\ release' = [release EXCEPT !.report = <<Report(certifier.artifact[1])>>,
                                  !.accepted = FALSE]
    /\ certifier' = [certifier EXCEPT !.at = "idle"]
    /\ UNCHANGED <<captureVars, sandboxVars>>

(* --validate-only: nothing is written, and what was written is accepted if   *)
(* the archives give both files again.                                        *)
Accept ==
    /\ BothArchives /\ release.artifact # <<>> /\ ~release.accepted
    /\ Rebuilds(Archives)
    /\ release.artifact = <<Certification(Archives)>>
    /\ release.report = <<Report(Certification(Archives))>>
    /\ release' = [release EXCEPT !.accepted = TRUE]
    /\ UNCHANGED <<captureVars, sandboxVars, certifier>>

(* The process that certifies ends between its two files.                     *)
CertifierIsKilled ==
    /\ certifier.at # "idle"
    /\ Fault("certifier")
    /\ certifier' = [certifier EXCEPT !.at = "idle"]
    /\ UNCHANGED <<capture, checkout, disk, sandboxVars, release>>

CertificateStep == Certify \/ WriteArtifact \/ WriteReport \/ Accept

==============================================================================
