--------------------------- MODULE BenchmarkWorker ---------------------------
(* benchmark_protocol.py: one measuring process.  It compares its adapter     *)
(* with the oracle, warms up, takes the raw timing samples, repeats the       *)
(* operation until the time floor is met, compares again, and only then takes *)
(* a resource census, during which a second thread reads the size of the      *)
(* process.  Any comparison that fails ends the process without a record.     *)
EXTENDS Integers, Sequences, FiniteSets

CONSTANTS
    Warmups,         \* warm-up operations
    MinimumSamples,  \* raw samples of one operation each
    MinimumTime,     \* the time floor, in units of one fast operation
    FloorLimit,      \* most supplemental operations (1,000,000 in the code)
    Walls,           \* how long one operation may take
    MaxReads,        \* bound on the sampler's reads before it is asked to stop
    MaxFaults        \* bound on what the surroundings do wrong in one run

ASSUME WorkerAssumption ==
    /\ {MinimumSamples, FloorLimit} \subseteq Nat \ {0}
    /\ {Warmups, MinimumTime, MaxReads, MaxFaults} \subseteq Nat
    /\ Walls \subseteq Nat \ {0}

VARIABLES
    worker,    \* the process being run, or Idle
    sampler,   \* the census thread: _RssSampler
    size,      \* the resident size of the process, as the system reports it
    faults     \* what the surroundings have done wrong so far

workerVars == <<worker, sampler, size>>

None == "none"
Implementations == {"reference", "candidate"}

(* The sizes of a process before, during and after the observed call.         *)
Before == 1
During == 3
After == 2
OutputSize == 1

-------------------------------------------------------------------------------
(* total_thread_budget_model: exactly one pool of the process gets the whole  *)
(* budget, every other one a single thread.                                   *)
ThreadModel(implementation, budget) ==
    IF implementation = "reference"
    THEN [owner |-> "official_torch_intraop", omp |-> budget, torch |-> budget]
    ELSE [owner |-> "qwen_mm_processor_pool", omp |-> 1, torch |-> 1]

(* configure_threads, from the environment the parent gave the process.       *)
ThreadSettings(config) ==
    [budget |-> config.budget,
     model |-> ThreadModel(config.implementation, config.budget)]

(* _worker_affinity: a process that does not find itself on the CPUs it was   *)
(* asked to use ends; no CPUs are asked for where there is no affinity.       *)
Affinity(config) ==
    IF config.cpus = <<>>
    THEN [requested |-> config.cpus, status |-> "unavailable", observed |-> <<>>]
    ELSE [requested |-> config.cpus, status |-> "attested", observed |-> config.cpus]

-------------------------------------------------------------------------------
NoSampler == [at |-> "unstarted", baseline |-> 0, peak |-> 0, retained |-> 0,
              reads |-> 0, stopping |-> FALSE, sees |-> FALSE]

Idle == [at |-> "idle"]

WorkerInit ==
    /\ worker = Idle
    /\ sampler = NoSampler
    /\ size = Before
    /\ faults = {}

Running == worker.at \notin {"idle", "exited", "failed"}

(* A process begins: interpreter started, adapters loaded, threads pinned.    *)
Launch(config, pid, started, artifact) ==
    /\ worker' = [at |-> "compare", config |-> config, pid |-> pid, started |-> started,
                  artifact |-> artifact,
                  warmed |-> 0, samples |-> <<>>, extra |-> 0, extraWall |-> 0,
                  over |-> FALSE, before |-> FALSE, after |-> FALSE, census |-> None]
    /\ sampler' = NoSampler
    /\ size' = Before

(* An exception anywhere: the process ends without a record.  A census that   *)
(* was under way is finished first.                                           *)
Raise == worker' = [worker EXCEPT !.at = "failed"]

Fault(f) ==
    /\ f \notin faults /\ Cardinality(faults) < MaxFaults
    /\ faults' = faults \cup {f}

(* The first comparison with the oracle, and the adapter loading before it.   *)
ComparePre ==
    /\ worker.at = "compare"
    /\ \/ /\ worker' = [worker EXCEPT !.at = IF Warmups = 0 THEN "sample" ELSE "warm",
                                      !.before = TRUE]
          /\ UNCHANGED faults
       \/ Fault("disagrees") /\ Raise
    /\ UNCHANGED <<sampler, size>>

WarmUp ==
    /\ worker.at = "warm"
    /\ \/ /\ worker' = [worker EXCEPT !.warmed = @ + 1,
                                      !.at = IF @ = "warm" /\ worker.warmed + 1 < Warmups
                                             THEN "warm" ELSE "sample"]
          /\ UNCHANGED faults
       \/ Fault("unstable") /\ Raise
    /\ UNCHANGED <<sampler, size>>

RawTime == LET Wall[i \in 0 .. Len(worker.samples)] ==
                   IF i = 0 THEN 0 ELSE Wall[i - 1] + worker.samples[i]
           IN  Wall[Len(worker.samples)]

(* One raw sample: an operation and its two clocks, then the comparison with  *)
(* the baseline.  More CPU time than the budget allows is recorded, not       *)
(* refused here.                                                              *)
TakeSample ==
    /\ worker.at = "sample"
    /\ Len(worker.samples) < MinimumSamples
    /\ \/ /\ worker' = [worker EXCEPT !.samples = Append(@, worker.config.wall)]
          /\ UNCHANGED faults
       \/ /\ Fault("busy")
          /\ worker' = [worker EXCEPT !.samples = Append(@, worker.config.wall), !.over = TRUE]
       \/ Fault("unstable") /\ Raise
    /\ UNCHANGED <<sampler, size>>

(* _measure_supplemental_floor: every operation is clocked and compared, only *)
(* the totals are kept.  At the limit it raises, also when the floor has just *)
(* been met.                                                                  *)
ExtendFloor ==
    /\ worker.at = "sample"
    /\ Len(worker.samples) = MinimumSamples
    /\ RawTime + worker.extraWall < MinimumTime
    /\ \/ /\ worker.extra + 1 < FloorLimit
          /\ worker' = [worker EXCEPT !.extra = @ + 1, !.extraWall = @ + worker.config.wall]
          /\ UNCHANGED faults
       \/ worker.extra + 1 >= FloorLimit /\ Raise /\ UNCHANGED faults
       \/ Fault("unstable") /\ Raise
    /\ UNCHANGED <<sampler, size>>

(* After the floor: the adapter against its baseline and against the oracle,  *)
(* and the oracle against its own first answer.                               *)
ComparePost ==
    /\ worker.at = "sample"
    /\ Len(worker.samples) = MinimumSamples
    /\ RawTime + worker.extraWall >= MinimumTime
    /\ \/ /\ worker' = [worker EXCEPT !.at = "start", !.after = TRUE]
          /\ UNCHANGED faults
       \/ Fault("disagrees") /\ Raise
    /\ UNCHANGED <<sampler, size>>

-------------------------------------------------------------------------------
(* The census thread.  It reads the size once before it says it is ready,     *)
(* then waits for the stop event for a millisecond at a time; what the wait   *)
(* returned decides, after one more read, whether it ends.                    *)
SamplerStarts ==
    /\ sampler.at = "started"
    /\ \/ /\ sampler' = [sampler EXCEPT !.at = "waiting", !.baseline = size, !.peak = size,
                                        !.retained = size, !.reads = 1]
          /\ UNCHANGED faults
       \/ Fault("unreadable") /\ sampler' = [sampler EXCEPT !.at = "broken"]
    /\ UNCHANGED <<worker, size>>

(* Mutated form: the stop event ends the thread without a last read.          *)
SamplerWakesAndEnds ==
    /\ sampler.at = "waiting"
    /\ sampler.stopping \/ sampler.reads < MaxReads
    /\ sampler' = [sampler EXCEPT !.at = IF sampler.stopping THEN "ended" ELSE "reading"]
    /\ UNCHANGED <<worker, size, faults>>

SamplerWakes ==
    /\ sampler.at = "waiting"
    /\ sampler.stopping \/ sampler.reads < MaxReads
    /\ sampler' = [sampler EXCEPT !.at = "reading", !.sees = sampler.stopping]
    /\ UNCHANGED <<worker, size, faults>>

SamplerReads ==
    /\ sampler.at = "reading"
    /\ \/ /\ sampler' = [sampler EXCEPT !.at = IF sampler.sees THEN "ended" ELSE "waiting",
                                        !.peak = IF size > @ THEN size ELSE @,
                                        !.retained = size, !.reads = @ + 1]
          /\ UNCHANGED faults
       \/ Fault("unreadable") /\ sampler' = [sampler EXCEPT !.at = "broken"]
    /\ UNCHANGED <<worker, size>>

(* _RssSampler.start: the thread is started and its first read awaited.       *)
StartCensus ==
    /\ worker.at = "start"
    /\ worker' = [worker EXCEPT !.at = "ready"]
    /\ sampler' = [sampler EXCEPT !.at = "started"]
    /\ UNCHANGED <<size, faults>>

(* No first read within the time allowed, or one that failed.                 *)
StartFails ==
    /\ worker.at = "ready"
    /\ \/ sampler.at = "started" /\ Fault("late")
       \/ sampler.at = "broken" /\ UNCHANGED faults
    /\ Raise
    /\ sampler' = [sampler EXCEPT !.stopping = (sampler.at = "started")]
    /\ UNCHANGED size

(* The observed adapter runs: it allocates, and keeps its outputs.  A thread  *)
(* that broke after its first read may have been found in good order.         *)
Allocate ==
    /\ worker.at = "ready"
    /\ sampler.at # "started" /\ sampler.reads > 0
    /\ worker' = [worker EXCEPT !.at = "call"]
    /\ size' = During
    /\ UNCHANGED <<sampler, faults>>

ReturnOutputs ==
    /\ worker.at = "call"
    /\ size' = After
    /\ worker' = [worker EXCEPT !.at = "finish"]
    /\ UNCHANGED <<sampler, faults>>

(* The call raises: the sampler is finished, then the exception goes on.      *)
CallRaises ==
    /\ worker.at = "call"
    /\ Fault("raises")
    /\ sampler' = [sampler EXCEPT !.stopping = TRUE]
    /\ Raise
    /\ UNCHANGED size

(* _RssSampler.finish: the stop event is set and the thread joined.           *)
StopSampler ==
    /\ worker.at = "finish"
    /\ sampler' = [sampler EXCEPT !.stopping = TRUE]
    /\ worker' = [worker EXCEPT !.at = "join"]
    /\ UNCHANGED <<size, faults>>

Larger(a, b) == IF a > b THEN a ELSE b

(* The joined sampler's readings become the census, with the two differences  *)
(* derived from them.                                                         *)
Census ==
    [baseline |-> sampler.baseline, peak |-> sampler.peak, retained |-> sampler.retained,
     reads |-> sampler.reads, output |-> OutputSize,
     retainedDelta |-> Larger(0, sampler.retained - sampler.baseline),
     transient |-> Larger(0, sampler.peak - sampler.baseline - OutputSize)]

(* The join has a time limit, and the outputs of the observed call are        *)
(* compared with the expected ones as well.                                   *)
FinishCensus ==
    /\ worker.at = "join"
    /\ \/ /\ sampler.at \in {"ended", "broken"}
          /\ IF sampler.at = "ended" /\ Census.reads >= 2
                  /\ Census.peak >= Larger(Census.baseline, Census.retained)
             THEN worker' = [worker EXCEPT !.at = "exited", !.census = Census]
             ELSE Raise
          /\ UNCHANGED faults
       \/ sampler.at = "ended" /\ Fault("disagrees") /\ Raise
       \/ sampler.at \notin {"ended", "broken"} /\ Fault("late") /\ Raise
    /\ UNCHANGED <<sampler, size>>

(* The record run_worker returns and _worker_command writes.                  *)
Record(w) ==
    [implementation |-> w.config.implementation, nonce |-> w.config.nonce, pid |-> w.pid,
     input |-> w.config.input, threads |-> ThreadSettings(w.config),
     affinity |-> Affinity(w.config), warmups |-> w.warmed, samples |-> w.samples,
     extra |-> w.extra, extraWall |-> w.extraWall, over |-> w.over,
     pre |-> w.before, post |-> w.after, census |-> w.census,
     started |-> w.started, artifact |-> w.artifact]

MainStep ==
    ComparePre \/ WarmUp \/ TakeSample \/ ExtendFloor \/ ComparePost
    \/ StartCensus \/ StartFails \/ Allocate \/ ReturnOutputs \/ CallRaises \/ StopSampler \/ FinishCensus

SamplerStep == SamplerStarts \/ SamplerWakes \/ SamplerReads

-------------------------------------------------------------------------------
(* The retained size of a census is what the process holds after the call     *)
(* returned, and its peak covers both ends, wherever the stop event finds the *)
(* sampler: between its wait and its read, or while it reads.                 *)
RetainedIsReadAfterTheCall ==
    worker.at = "exited" =>
        /\ worker.census.retained = After
        /\ worker.census.peak >= worker.census.retained
        /\ worker.census.retainedDelta = After - Before

==============================================================================
