----------------------------- MODULE BenchmarkRun -----------------------------
(* benchmark_v2.py, run_benchmark: for every coordinate of the schedule the   *)
(* two implementations are measured in fresh processes, in an order drawn     *)
(* from the coordinate's seed and turned around at each repetition.  The      *)
(* collected result is validated, as any later reader would validate it,      *)
(* against the workload, the candidate and the Phase C report as they are     *)
(* then; only afterwards is it written, and its report rendered.              *)
EXTENDS BenchmarkWorker

CONSTANTS
    Regimes,      \* the thread budgets, a sequence without repetition
    Cases,        \* the cases, a sequence without repetition
    Repetitions,  \* process repetitions of each coordinate
    Coin,         \* what the generator draws: Coin[seed][repetition]
    Settings      \* the CPUs to pin to (<< >> for no affinity), the state of the
                  \* conformance report, and how long each operation takes

ASSUME RunAssumption ==
    /\ Repetitions \in Nat \ {0}
    /\ {Len(Regimes), Len(Cases)} \subseteq Nat \ {0}
    /\ \A s \in Settings : DOMAIN s = {"pool", "report", "wall"}

VARIABLES
    run,      \* the parent: its loops, the pairs, the result
    world     \* versions of the workload, candidate and report; processes started

vars == <<run, world, worker, sampler, size, faults>>

(* _validate_resource_census: a census is an envelope of its own readings.     *)
CensusAgrees(c) ==
    /\ c.output > 0
    /\ c.reads >= 2
    /\ c.peak >= Larger(c.baseline, c.retained)
    /\ c.retainedDelta = Larger(0, c.retained - c.baseline)
    /\ c.transient = Larger(0, c.peak - c.baseline - c.output)

Other(i) == IF i = "reference" THEN "candidate" ELSE "reference"

Coordinates == 0 .. Len(Cases) * Len(Regimes) - 1
CaseOf(c) == Cases[(c \div Len(Regimes)) + 1]
BudgetOf(c) == Regimes[(c % Len(Regimes)) + 1]

(* randomized_orders, as the implementation that goes first.                  *)
First(seed) ==
    LET F[r \in 0 .. Repetitions - 1] ==
            LET drawn == IF Coin[seed][r] THEN "candidate" ELSE "reference"
            IN  IF r > 0 /\ Repetitions > 2 /\ drawn = F[r - 1] THEN Other(drawn) ELSE drawn
    IN  F

(* The CPUs of a coordinate: the first of the pool, as many as its budget.    *)
Cpus(pool, c) == IF pool = <<>> THEN <<>> ELSE SubSeq(pool, 1, BudgetOf(c))

-------------------------------------------------------------------------------
Reports == {"pass", "fails", "missing"}

Init ==
    /\ WorkerInit
    /\ \E s \in Settings :
        /\ run = [at |-> "next", pool |-> s.pool, wall |-> s.wall, coordinate |-> 0,
                  repetition |-> 0, done |-> <<>>, pairs |-> <<>>, result |-> None]
        /\ world = [workload |-> 1, candidate |-> 1, report |-> s.report, started |-> 0,
                    pids |-> {}]

(* What may change while a benchmark runs.                                    *)
WorkloadChanges ==
    /\ run.at # "reported" /\ world.workload = 1
    /\ Fault("workload") /\ world' = [world EXCEPT !.workload = 2]
    /\ UNCHANGED <<run, worker, sampler, size>>

CandidateChanges ==
    /\ run.at # "reported" /\ world.candidate = 1
    /\ Fault("candidate") /\ world' = [world EXCEPT !.candidate = 2]
    /\ UNCHANGED <<run, worker, sampler, size>>

(* A candidate that was replaced is put back.  This takes nothing from the    *)
(* bound on faults.                                                           *)
CandidateIsRestored ==
    /\ run.at # "reported" /\ world.candidate = 2
    /\ "restored" \notin faults /\ faults' = faults \cup {"restored"}
    /\ world' = [world EXCEPT !.candidate = 1]
    /\ UNCHANGED <<run, worker, sampler, size>>

Restored == "restored" \in faults

ReportChanges ==
    /\ run.at # "reported" /\ world.report \in Reports
    /\ Fault("report") /\ world' = [world EXCEPT !.report = "replaced"]
    /\ UNCHANGED <<run, worker, sampler, size>>

-------------------------------------------------------------------------------
Order == LET first == First(run.coordinate)[run.repetition]
         IN  <<first, Other(first)>>

Turn == Order[Cardinality(DOMAIN run.done) + 1]

(* _run_subprocess_worker: the next process of the pair.  Its identifier is   *)
(* the system's choice and may be that of a process that has ended.           *)
StartWorker ==
    /\ run.at = "next"
    /\ run.coordinate \in Coordinates
    /\ Cardinality(DOMAIN run.done) < 2
    /\ \E pid \in {world.started + 1} \cup world.pids :
        /\ IF pid \in world.pids THEN Fault("recycled") ELSE UNCHANGED faults
        /\ Launch([implementation |-> Turn, budget |-> BudgetOf(run.coordinate),
                   cpus |-> Cpus(run.pool, run.coordinate), wall |-> run.wall[Turn],
                   nonce |-> world.started + 1, input |-> world.workload],
                  pid, world.started + 1, world.candidate)
        /\ world' = [world EXCEPT !.started = @ + 1, !.pids = @ \cup {pid}]
    /\ run' = [run EXCEPT !.at = "wait"]

(* subprocess.run returns; the record is read where the exit status is zero.  *)
(* The validators' verdict on a census depends on nothing else and is all     *)
(* that is kept of it here.                                                   *)
CollectWorker ==
    /\ run.at = "wait"
    /\ worker.at = "exited"
    /\ LET measured == worker.config.implementation
           record == [Record(worker) EXCEPT !.census = CensusAgrees(@)]
       IN  run' = [run EXCEPT !.at = "next",
                              !.done = [m \in (DOMAIN @) \cup {measured} |->
                                            IF m = measured THEN record ELSE @[m]]]
    /\ worker' = Idle /\ sampler' = NoSampler /\ size' = Before
    /\ UNCHANGED <<world, faults>>

(* A process is killed from outside.                                          *)
WorkerDies ==
    /\ Running
    /\ Fault("killed") /\ Raise
    /\ UNCHANGED <<run, world, sampler, size>>

WorkerFailed ==
    /\ run.at = "wait" /\ worker.at = "failed"
    /\ run' = [run EXCEPT !.at = "failed"]
    /\ UNCHANGED <<world, worker, sampler, size, faults>>

(* Mutated form: the seed of a pair is read after the schedule has moved on.  *)
KeepPairWithNextSeed ==
    /\ run.at = "next" /\ Cardinality(DOMAIN run.done) = 2
    /\ run' = IF run.done["reference"].input # run.done["candidate"].input
              THEN [run EXCEPT !.at = "failed"]
              ELSE [run EXCEPT
                    !.pairs = Append(@, [coordinate |-> run.coordinate,
                        repetition |-> run.repetition, order |-> Order,
                        seed |-> run.coordinate + 1, budget |-> BudgetOf(run.coordinate),
                        implementations |-> run.done]),
                    !.done = <<>>,
                    !.repetition = (@ + 1) % Repetitions,
                    !.coordinate = IF run.repetition + 1 = Repetitions THEN @ + 1 ELSE @]
    /\ UNCHANGED <<world, worker, sampler, size, faults>>

(* Both processes of a pair must have been given the same input.              *)
KeepPair ==
    /\ run.at = "next" /\ Cardinality(DOMAIN run.done) = 2
    /\ run' = IF run.done["reference"].input # run.done["candidate"].input
              THEN [run EXCEPT !.at = "failed"]
              ELSE [run EXCEPT
                    !.pairs = Append(@, [coordinate |-> run.coordinate,
                        repetition |-> run.repetition, order |-> Order,
                        seed |-> run.coordinate, budget |-> BudgetOf(run.coordinate),
                        implementations |-> run.done]),
                    !.done = <<>>,
                    !.repetition = (@ + 1) % Repetitions,
                    !.coordinate = IF run.repetition + 1 = Repetitions THEN @ + 1 ELSE @]
    /\ UNCHANGED <<world, worker, sampler, size, faults>>

(* evaluate_image_release_gate: nothing is releasable before certification,   *)
(* only the state of the conformance report is recorded.                      *)
Gate == [releasable |-> FALSE,
         status |-> CASE world.report \in {"pass", "replaced"} -> "pass"
                      [] world.report = "fails" -> "failed"
                      [] world.report = "missing" -> "missing",
         report |-> IF world.report \in {"pass", "replaced"} THEN world.report ELSE None]

BuildResult ==
    /\ run.at = "next" /\ run.coordinate \notin Coordinates
    /\ run' = [run EXCEPT !.at = "validate",
                 !.result = [candidate |-> 1, workload |-> world.workload, pool |-> run.pool,
                             pairs |-> run.pairs, eligibility |-> Gate]]
    /\ UNCHANGED <<world, worker, sampler, size, faults>>

-------------------------------------------------------------------------------
(* The validators of benchmark_v2.py, over a result and the world it is read  *)
(* in.                                                                        *)
TimeOf(samples) == LET T[i \in 0 .. Len(samples)] ==
                           IF i = 0 THEN 0 ELSE T[i - 1] + samples[i]
                   IN  T[Len(samples)]

(* _validate_instrumentation_free_worker.                                     *)
WorkerAgrees(r) ==
    /\ r.warmups = Warmups
    /\ Len(r.samples) = MinimumSamples
    /\ ~r.over
    /\ (r.extraWall = 0) = (r.extra = 0)
    /\ TimeOf(r.samples) + r.extraWall >= MinimumTime
    /\ r.census

(* What a process recorded about itself is what its place in the schedule     *)
(* calls for.                                                                 *)
RecordAgrees(r, implementation, c, result) ==
    /\ r.implementation = implementation
    /\ r.input = result.workload
    /\ r.threads = [budget |-> BudgetOf(c), model |-> ThreadModel(implementation, BudgetOf(c))]
    /\ r.affinity.requested = Cpus(result.pool, c)
    /\ IF result.pool = <<>>
       THEN r.affinity.status = "unavailable"
       ELSE r.affinity.status = "attested" /\ r.affinity.observed = r.affinity.requested
    /\ WorkerAgrees(r)
    /\ r.pre /\ r.post

Records(pairs) == {<<i, m>> : i \in DOMAIN pairs, m \in Implementations}
RecordAt(pairs, k) == pairs[k[1]].implementations[k[2]]

(* _validate_case_bindings: the inventory in its order, every pair at its     *)
(* coordinate with the order of its seed, processes and nonces all distinct.  *)
BindingsAgree(result) ==
    LET pairs == result.pairs
        Distinct(Value(_)) == \A k, l \in Records(pairs) :
            Value(RecordAt(pairs, k)) = Value(RecordAt(pairs, l)) => k = l
    IN  /\ result.workload = world.workload
        /\ Len(pairs) = Cardinality(Coordinates) * Repetitions
        /\ \A i \in DOMAIN pairs :
            LET p == pairs[i]
            IN  /\ p.coordinate = (i - 1) \div Repetitions
                /\ p.repetition = (i - 1) % Repetitions
                /\ p.seed = p.coordinate
                /\ p.order[1] = First(p.seed)[p.repetition]
                /\ p.order[2] = Other(p.order[1])
                /\ p.budget = BudgetOf(p.coordinate)
                /\ DOMAIN p.implementations = Implementations
                /\ \A m \in Implementations :
                    RecordAgrees(p.implementations[m], m, p.coordinate, result)
        /\ Distinct(LAMBDA r : r.pid)
        /\ Distinct(LAMBDA r : r.nonce)

(* Mutated form: the candidate is not identified again.                       *)
EligibilityOfTheRecord(result) ==
    /\ ~result.eligibility.releasable
    /\ result.eligibility.status = "pass" => result.eligibility = Gate

(* _validate_release_eligibility, with the live candidate and a passing       *)
(* report evaluated again.                                                    *)
EligibilityAgrees(result) ==
    /\ ~result.eligibility.releasable
    /\ result.candidate = world.candidate
    /\ result.eligibility.status = "pass" => result.eligibility = Gate

Validates(result) == BindingsAgree(result) /\ EligibilityAgrees(result)

(* The last step of run_benchmark: a result that does not validate is lost.   *)
ValidateResult ==
    /\ run.at = "validate"
    /\ run' = [run EXCEPT !.at = IF Validates(run.result) THEN "write" ELSE "failed"]
    /\ UNCHANGED <<world, worker, sampler, size, faults>>

(* _run_command: the result is on disk before its report is rendered, and     *)
(* rendering validates once more.                                             *)
WriteResult ==
    /\ run.at = "write"
    /\ run' = [run EXCEPT !.at = "written"]
    /\ UNCHANGED <<world, worker, sampler, size, faults>>

RenderReport ==
    /\ run.at = "written"
    /\ run' = [run EXCEPT !.at = IF Validates(run.result) THEN "reported" ELSE "unreported"]
    /\ UNCHANGED <<world, worker, sampler, size, faults>>

Finished == run.at \in {"failed", "reported", "unreported"} /\ UNCHANGED vars

-------------------------------------------------------------------------------
ParentStep ==
    StartWorker \/ CollectWorker \/ WorkerFailed \/ KeepPair \/ BuildResult
    \/ ValidateResult \/ WriteResult \/ RenderReport

ChildStep == (MainStep \/ SamplerStep) /\ UNCHANGED <<run, world>>

Interference ==
    WorkloadChanges \/ CandidateChanges \/ CandidateIsRestored \/ ReportChanges \/ WorkerDies

Next == ParentStep \/ ChildStep \/ Interference \/ Finished

Spec == Init /\ [][Next]_vars

(* The system runs every process and thread that can run.                     *)
FairSpec ==
    /\ Spec
    /\ WF_vars(ParentStep)
    /\ WF_vars(MainStep /\ UNCHANGED <<run, world>>)
    /\ WF_vars(SamplerStep /\ UNCHANGED <<run, world>>)

-------------------------------------------------------------------------------
(* A result on disk holds every repetition of every coordinate once, in the   *)
(* order recorded for it: the process named first was the first to start, no  *)
(* process served twice, all were given the recorded workload, and, of three  *)
(* repetitions or more, neither order was used twice running.  All ran the    *)
(* recorded candidate, unless one was replaced and put back meanwhile: it is  *)
(* identified before the first process and after the last, not in between.    *)
WrittenResultsFollowTheSchedule ==
    run.at \in {"written", "reported", "unreported"} =>
        LET pairs == run.result.pairs
            Started(k) == RecordAt(pairs, k).started
        IN  /\ {<<pairs[i].coordinate, pairs[i].repetition>> : i \in DOMAIN pairs}
                 = Coordinates \X (0 .. Repetitions - 1)
            /\ \A i \in DOMAIN pairs :
                Started(<<i, pairs[i].order[1]>>) < Started(<<i, pairs[i].order[2]>>)
            /\ \A k, l \in Records(pairs) : Started(k) = Started(l) => k = l
            /\ \A k \in Records(pairs) :
                /\ ~Restored => RecordAt(pairs, k).artifact = run.result.candidate
                /\ RecordAt(pairs, k).input = run.result.workload
            /\ Repetitions > 2 => \A i, j \in DOMAIN pairs :
                (j = i + 1 /\ pairs[i].coordinate = pairs[j].coordinate)
                    => pairs[i].order # pairs[j].order

(* Operations too short to reach the time floor within the limit.             *)
TooShort == {w \in Walls : (MinimumSamples + FloorLimit - 1) * w < MinimumTime}

(* Where nothing around it goes wrong a benchmark ends with its result        *)
(* validated, written and reported: what the processes record is what the     *)
(* validators, written apart from them, expect.  A measuring process that     *)
(* cannot meet the time floor within its limit is the exception.              *)
SoundRunsAreReported ==
    <>(\/ run.at = "reported"
       \/ faults # {}
       \/ \E m \in Implementations : run.wall[m] \in TooShort)

==============================================================================
