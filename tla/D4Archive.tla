------------------------------ MODULE D4Archive ------------------------------
(* The raw archive a compact capture leaves behind, and what                 *)
(* d4_capture_support.py asks of one before it is written or used: the closed *)
(* list of members, the private environment seen unchanged at every           *)
(* checkpoint, two conformance runs of the archived wheel, and between them   *)
(* one benchmark per thread budget, bound to the first of the two.            *)
(*                                                                            *)
(* An archive is a record of the facts its members state.  The fields of a    *)
(* benchmark named "undisturbed" and "speed" are what really happened; the    *)
(* first is in no member and no check reads it.                               *)
EXTENDS Naturals, Sequences, FiniteSets, SequencesExt

CONSTANT Budgets      \* thread budgets in the order they are measured

BudgetSet == {Budgets[i] : i \in DOMAIN Budgets}

ASSUME BudgetsAssumption ==
    Budgets \in Seq(BudgetSet) /\ IsInjective(Budgets) /\ Len(Budgets) > 0

Positions == {"pre", "post"}

(* required_capture_members, and the retained wheel whose name varies.        *)
Required ==
    {<<"build">>, <<"wheel">>, <<"integrity">>, <<"logs">>, <<"failures">>,
     <<"capture">>, <<"provenance">>}
    \cup {<<"conformance", p>> : p \in Positions}
    \cup {<<"benchmark", t>> : t \in BudgetSet}
    \cup {<<"noise", t>> : t \in BudgetSet}

(* The checkpoints an archive must hold, each once.                           *)
RequiredCheckpoints ==
    {<<"after", "install">>, <<"before", "archive">>}
    \cup ({"before", "after"} \X (Positions \cup BudgetSet))

(* validate_private_environment_integrity.                                    *)
EnvironmentAgrees(a) ==
    /\ \A i \in DOMAIN a.checkpoints : a.checkpoints[i].matches
    /\ IsInjective([i \in DOMAIN a.checkpoints |-> a.checkpoints[i].name])
    /\ {a.checkpoints[i].name : i \in DOMAIN a.checkpoints} = RequiredCheckpoints

(* validate_archived_build: the wheel is the one the runtime was installed    *)
(* from and the one the provenance names.                                     *)
BuildAgrees(a) ==
    /\ EnvironmentAgrees(a)
    /\ a.build.reconciled
    /\ a.build.wheel = a.wheel

(* validate_archived_phase_c.                                                 *)
ConformanceAgrees(a) ==
    /\ \A p \in Positions :
        /\ a.reports[p].revision = a.source
        /\ a.reports[p].wheel = a.wheel
    /\ a.reports["pre"] # a.reports["post"]
    /\ a.started <= a.reports["pre"].created
    /\ a.reports["pre"].created < a.reports["post"].created
    /\ a.reports["post"].created <= a.created
    /\ a.created <= a.completed

(* validate_d4_result_contract: the frozen plan of one budget, pinned to the  *)
(* processors the provenance names, under a passing conformance report.       *)
ContractAgrees(result, t, a) ==
    /\ result.budget = t
    /\ result.masks = a.masks

(* One benchmark of read_capture_archive: inside the two conformance runs,    *)
(* after the one of the budget before, of the archived wheel, bound to the    *)
(* archived first conformance run.                                            *)
BenchmarkAgrees(a, i) ==
    LET result == a.results[Budgets[i]]
    IN  /\ a.reports["pre"].created < result.created
        /\ result.created < a.reports["post"].created
        /\ i > 1 => a.results[Budgets[i - 1]].created < result.created
        /\ result.wheel = a.wheel
        /\ ContractAgrees(result, Budgets[i], a)
        /\ result.conformance = a.reports["pre"]

(* result_noise_assessment over the process medians of one benchmark.         *)
Noise(result) == result.speed # "noisy"

(* capture_failure_report: the budgets whose noise missed the bound.          *)
FailuresOf(noise) == {t \in BudgetSet : ~noise[t]}

(* The noise and the failures in the archive are recomputed from the raw      *)
(* benchmarks.                                                                *)
NoiseAgrees(a) ==
    /\ \A t \in BudgetSet : a.noise[t] = Noise(a.results[t])
    /\ a.failures = FailuresOf(a.noise)

(* create_capture_archive: the index lists the required members or more.      *)
Creatable(members) == Required \subseteq members

(* read_capture_archive.                                                      *)
Readable(a) ==
    /\ a.members = Required
    /\ BuildAgrees(a)
    /\ ConformanceAgrees(a)
    /\ \A i \in DOMAIN Budgets : BenchmarkAgrees(a, i)
    /\ NoiseAgrees(a)

(* write_capture_archive, up to its file: a readable archive of the expected  *)
(* source.                                                                    *)
Writable(a, source) == Readable(a) /\ a.source = source

==============================================================================
