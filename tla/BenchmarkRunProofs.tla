--------------------------- MODULE BenchmarkRunProofs ---------------------------
(* The paired benchmark, for every schedule, every draw of its generator and  *)
(* every number of repetitions, samples and faults: what the census of a      *)
(* process holds, and what a written result says of the processes behind it.  *)
EXTENDS BenchmarkRun, FiniteSetTheorems, TLAPS

(* The process under measurement.                                             *)
WorkerFields ==
    {"at", "config", "pid", "started", "artifact", "warmed", "samples", "extra",
     "extraWall", "over", "before", "after", "census"}

SamplerFields == {"at", "baseline", "peak", "retained", "reads", "stopping", "sees"}

IsWorker(w) == w = Idle \/ (DOMAIN w = WorkerFields /\ w.at # "idle")

(* Where the census thread stands while it is at work.  Its peak covers what  *)
(* it read last, and the read with which it ends is one that began after the  *)
(* stop event was set: that is what makes it a read of the process after the  *)
(* call.                                                                      *)
SamplerHolds ==
    /\ DOMAIN sampler = SamplerFields
    /\ sampler.at \in {"started", "waiting", "reading", "ended", "broken"}
    /\ sampler.at = "started" => worker.at = "ready"
    /\ sampler.at \in {"waiting", "reading", "ended"} =>
        /\ sampler.baseline = Before
        /\ sampler.reads \in Nat \ {0}
        /\ sampler.peak \in Nat /\ sampler.retained \in Nat
        /\ Before <= sampler.peak /\ sampler.retained <= sampler.peak
    /\ sampler.at = "reading" => (sampler.sees => sampler.stopping)
    /\ sampler.at = "ended" =>
        sampler.stopping /\ sampler.retained = After /\ sampler.reads >= 2

(* The measuring process and its census thread, step by step: the size of the *)
(* process follows the call, and the stop event is set only after it.         *)
CensusHolds ==
    /\ worker.at \in {"idle", "compare", "warm", "sample", "start", "ready", "call",
                      "finish", "join", "exited", "failed"}
    /\ worker.at \in {"idle", "compare", "warm", "sample", "start"} =>
        sampler = NoSampler /\ size = Before
    /\ worker.at = "ready" => size = Before
    /\ worker.at = "call" => size = During
    /\ worker.at \in {"finish", "join"} => size = After
    /\ worker.at \in {"ready", "call", "finish"} => sampler.stopping = FALSE
    /\ worker.at \in {"ready", "call", "finish", "join"} => SamplerHolds
    /\ worker.at = "exited" =>
        /\ worker.census.retained = After
        /\ worker.census.peak >= worker.census.retained
        /\ worker.census.retainedDelta = After - Before

ProcessHolds == IsWorker(worker) /\ CensusHolds

(* A step of the census thread.                                               *)
LEMMA SamplerStepKeeps ==
    ASSUME ProcessHolds, SamplerStep
    PROVE  ProcessHolds' /\ UNCHANGED <<worker, size>>
<1>1. UNCHANGED <<worker, size>>
    BY DEF SamplerStep, SamplerStarts, SamplerWakes, SamplerReads
<1>2. CASE worker.at \notin {"ready", "call", "finish", "join"}
    <2>1. worker.at \notin {"idle", "compare", "warm", "sample", "start"}
        <3>1. sampler.at # "unstarted"
            BY DEF SamplerStep, SamplerStarts, SamplerWakes, SamplerReads
        <3> QED BY <3>1 DEF ProcessHolds, CensusHolds, NoSampler
    <2> QED BY <1>1, <1>2, <2>1 DEF ProcessHolds, CensusHolds, IsWorker, SamplerHolds
<1>3. CASE worker.at \in {"ready", "call", "finish", "join"}
    <2>1. /\ SamplerHolds /\ size \in Nat /\ size >= Before
          /\ worker.at = "join" => size = After
          /\ worker.at # "join" => sampler.stopping = FALSE
        BY <1>3 DEF ProcessHolds, CensusHolds, Before, During, After
    <2>2. CASE sampler' = [sampler EXCEPT !.at = "broken"]
        <3>1. /\ DOMAIN sampler' = SamplerFields /\ sampler'.at = "broken"
              /\ sampler'.stopping = sampler.stopping
            BY <2>1, <2>2 DEF SamplerHolds, SamplerFields
        <3>2. SamplerHolds'
            BY <1>1, <3>1 DEF SamplerHolds
        <3> QED BY <1>1, <1>3, <3>1, <3>2 DEF ProcessHolds, CensusHolds, IsWorker
    <2>3. CASE SamplerStarts /\ sampler' # [sampler EXCEPT !.at = "broken"]
        <3>1. /\ sampler.at = "started" /\ worker.at = "ready"
              /\ sampler' = [sampler EXCEPT !.at = "waiting", !.baseline = size,
                                !.peak = size, !.retained = size, !.reads = 1]
            BY <2>1, <2>3 DEF SamplerStarts, SamplerHolds
        <3>2. size = Before
            BY <3>1 DEF ProcessHolds, CensusHolds
        <3>3. /\ DOMAIN sampler' = SamplerFields
              /\ sampler'.at = "waiting" /\ sampler'.baseline = size
              /\ sampler'.peak = size /\ sampler'.retained = size /\ sampler'.reads = 1
              /\ sampler'.stopping = sampler.stopping
            BY <2>1, <3>1 DEF SamplerHolds, SamplerFields
        <3>4. SamplerHolds'
            BY <1>1, <2>1, <3>2, <3>3 DEF SamplerHolds, Before
        <3> QED BY <1>1, <1>3, <3>3, <3>4 DEF ProcessHolds, CensusHolds, IsWorker
    <2>4. CASE SamplerWakes
        <3>1. /\ sampler.at = "waiting"
              /\ sampler' = [sampler EXCEPT !.at = "reading", !.sees = sampler.stopping]
            BY <2>4 DEF SamplerWakes
        <3>2. /\ DOMAIN sampler' = SamplerFields
              /\ sampler'.at = "reading" /\ sampler'.baseline = sampler.baseline
              /\ sampler'.peak = sampler.peak /\ sampler'.retained = sampler.retained
              /\ sampler'.reads = sampler.reads
              /\ sampler'.stopping = sampler.stopping /\ sampler'.sees = sampler.stopping
            BY <2>1, <3>1 DEF SamplerHolds, SamplerFields
        <3>3. SamplerHolds'
            BY <1>1, <2>1, <3>1, <3>2 DEF SamplerHolds
        <3> QED BY <1>1, <1>3, <3>2, <3>3 DEF ProcessHolds, CensusHolds, IsWorker
    <2>5. CASE SamplerReads
        <3>1. sampler.at = "reading" /\ (sampler.sees => sampler.stopping)
            BY <2>1, <2>5 DEF SamplerReads, SamplerHolds
        <3>2. CASE sampler' = [sampler EXCEPT
                        !.at = IF sampler.sees THEN "ended" ELSE "waiting",
                        !.peak = IF size > @ THEN size ELSE @,
                        !.retained = size, !.reads = @ + 1]
            <4>1. /\ DOMAIN sampler' = SamplerFields
                  /\ sampler'.at = IF sampler.sees THEN "ended" ELSE "waiting"
                  /\ sampler'.baseline = sampler.baseline
                  /\ sampler'.peak = IF size > sampler.peak THEN size ELSE sampler.peak
                  /\ sampler'.retained = size /\ sampler'.reads = sampler.reads + 1
                  /\ sampler'.stopping = sampler.stopping
                BY <2>1, <3>2 DEF SamplerHolds, SamplerFields
            <4>2. /\ sampler.baseline = Before /\ sampler.reads \in Nat \ {0}
                  /\ sampler.peak \in Nat /\ Before <= sampler.peak
                BY <2>1, <3>1 DEF SamplerHolds
            <4>3. /\ sampler'.peak \in Nat /\ Before <= sampler'.peak
                  /\ sampler'.retained <= sampler'.peak
                BY <2>1, <4>1, <4>2 DEF Before
            <4>4. sampler'.reads \in Nat \ {0} /\ sampler'.reads >= 2
                BY <4>1, <4>2
            <4>5. sampler'.at = "ended" => sampler.stopping /\ worker.at = "join"
                BY <1>3, <2>1, <3>1, <4>1
            <4>6. SamplerHolds'
                BY <1>1, <2>1, <4>1, <4>2, <4>3, <4>4, <4>5 DEF SamplerHolds
            <4> QED BY <1>1, <1>3, <4>1, <4>6 DEF ProcessHolds, CensusHolds, IsWorker
        <3>3. CASE sampler' = [sampler EXCEPT !.at = "broken"]
            BY <2>2, <3>3
        <3> QED BY <2>5, <3>2, <3>3 DEF SamplerReads
    <2> QED BY <2>2, <2>3, <2>4, <2>5 DEF SamplerStep
<1> QED BY <1>1, <1>2, <1>3

(* What a process was started with.                                           *)
SameLaunch ==
    /\ worker'.config = worker.config
    /\ worker'.started = worker.started
    /\ worker'.artifact = worker.artifact

(* An exception, or a kill, ends the process and leaves its launch alone.     *)
LEMMA RaiseKeeps ==
    ASSUME ProcessHolds, worker # Idle, Raise
    PROVE  ProcessHolds' /\ worker' # Idle /\ SameLaunch
<1>1. DOMAIN worker = WorkerFields
    BY DEF ProcessHolds, IsWorker
<1>2. /\ DOMAIN worker' = WorkerFields /\ worker'.at = "failed"
      /\ SameLaunch
    BY <1>1 DEF Raise, WorkerFields, SameLaunch
<1>3. worker' # Idle
    BY <1>2 DEF Idle
<1> QED BY <1>2, <1>3 DEF ProcessHolds, CensusHolds, IsWorker

(* A step of the process itself.                                              *)
LEMMA MainStepKeeps ==
    ASSUME ProcessHolds, MainStep
    PROVE  ProcessHolds' /\ worker # Idle /\ worker' # Idle /\ SameLaunch
<1>1. worker.at # "idle"
    BY DEF MainStep, ComparePre, WarmUp, TakeSample, ExtendFloor, ComparePost, StartCensus,
           StartFails, Allocate, ReturnOutputs, CallRaises, StopSampler, FinishCensus
<1>2. worker # Idle /\ DOMAIN worker = WorkerFields
    BY <1>1 DEF Idle, ProcessHolds, IsWorker
<1>3. ASSUME DOMAIN worker' = WorkerFields, worker'.at # "idle"
      PROVE  worker' # Idle /\ IsWorker(worker')
    BY <1>3 DEF Idle, IsWorker
<1>4. CASE Raise
    BY <1>2, <1>4, RaiseKeeps
<1>5. ASSUME worker.at \in {"compare", "warm", "sample"},
             worker'.at \in {"warm", "sample", "start"},
             DOMAIN worker' = WorkerFields, UNCHANGED <<sampler, size>>
      PROVE  ProcessHolds' /\ worker' # Idle
    <2>1. sampler = NoSampler /\ size = Before
        BY <1>5 DEF ProcessHolds, CensusHolds
    <2> QED BY <1>3, <1>5, <2>1 DEF ProcessHolds, CensusHolds
<1>6. CASE ComparePre /\ ~Raise
    <2>1. /\ worker.at = "compare" /\ UNCHANGED <<sampler, size>>
          /\ worker' = [worker EXCEPT !.at = IF Warmups = 0 THEN "sample" ELSE "warm",
                                      !.before = TRUE]
        BY <1>6 DEF ComparePre
    <2>2. /\ DOMAIN worker' = WorkerFields /\ worker'.at \in {"warm", "sample"} /\ SameLaunch
        BY <1>2, <2>1 DEF WorkerFields, SameLaunch
    <2> QED BY <1>2, <1>5, <2>1, <2>2
<1>7. CASE WarmUp /\ ~Raise
    <2>1. /\ worker.at = "warm" /\ UNCHANGED <<sampler, size>>
          /\ worker' = [worker EXCEPT !.warmed = @ + 1,
                                      !.at = IF @ = "warm" /\ worker.warmed + 1 < Warmups
                                             THEN "warm" ELSE "sample"]
        BY <1>7 DEF WarmUp
    <2>2. /\ DOMAIN worker' = WorkerFields /\ worker'.at \in {"warm", "sample"} /\ SameLaunch
        BY <1>2, <2>1 DEF WorkerFields, SameLaunch
    <2> QED BY <1>2, <1>5, <2>1, <2>2
<1>8. CASE TakeSample /\ ~Raise
    <2>1. /\ worker.at = "sample" /\ UNCHANGED <<sampler, size>>
          /\ \/ worker' = [worker EXCEPT !.samples = Append(@, worker.config.wall)]
             \/ worker' = [worker EXCEPT !.samples = Append(@, worker.config.wall),
                                         !.over = TRUE]
        BY <1>8 DEF TakeSample
    <2>2. /\ DOMAIN worker' = WorkerFields /\ worker'.at = "sample" /\ SameLaunch
        BY <1>2, <2>1 DEF WorkerFields, SameLaunch
    <2> QED BY <1>2, <1>5, <2>1, <2>2
<1>9. CASE ExtendFloor /\ ~Raise
    <2>1. /\ worker.at = "sample" /\ UNCHANGED <<sampler, size>>
          /\ worker' = [worker EXCEPT !.extra = @ + 1,
                                      !.extraWall = @ + worker.config.wall]
        BY <1>9 DEF ExtendFloor
    <2>2. /\ DOMAIN worker' = WorkerFields /\ worker'.at = "sample" /\ SameLaunch
        BY <1>2, <2>1 DEF WorkerFields, SameLaunch
    <2> QED BY <1>2, <1>5, <2>1, <2>2
<1>10. CASE ComparePost /\ ~Raise
    <2>1. /\ worker.at = "sample" /\ UNCHANGED <<sampler, size>>
          /\ worker' = [worker EXCEPT !.at = "start", !.after = TRUE]
        BY <1>10 DEF ComparePost
    <2>2. /\ DOMAIN worker' = WorkerFields /\ worker'.at = "start" /\ SameLaunch
        BY <1>2, <2>1 DEF WorkerFields, SameLaunch
    <2> QED BY <1>2, <1>5, <2>1, <2>2
<1>11. CASE StartCensus
    <2>1. /\ worker.at = "start" /\ UNCHANGED size
          /\ worker' = [worker EXCEPT !.at = "ready"]
          /\ sampler' = [sampler EXCEPT !.at = "started"]
        BY <1>11 DEF StartCensus
    <2>2. sampler = NoSampler /\ size = Before
        BY <2>1 DEF ProcessHolds, CensusHolds
    <2>3. /\ DOMAIN worker' = WorkerFields /\ worker'.at = "ready" /\ SameLaunch
        BY <1>2, <2>1 DEF WorkerFields, SameLaunch
    <2>4. /\ DOMAIN sampler' = SamplerFields /\ sampler'.at = "started"
          /\ sampler'.stopping = FALSE
        BY <2>1, <2>2 DEF NoSampler, SamplerFields
    <2>5. SamplerHolds'
        BY <2>3, <2>4 DEF SamplerHolds
    <2> QED BY <1>2, <1>3, <2>1, <2>2, <2>3, <2>4, <2>5 DEF ProcessHolds, CensusHolds
<1>12. CASE Allocate
    <2>1. /\ worker.at = "ready" /\ UNCHANGED sampler /\ size' = During
          /\ worker' = [worker EXCEPT !.at = "call"]
          /\ sampler.at # "started"
        BY <1>12 DEF Allocate
    <2>2. SamplerHolds /\ sampler.stopping = FALSE
        BY <2>1 DEF ProcessHolds, CensusHolds
    <2>3. /\ DOMAIN worker' = WorkerFields /\ worker'.at = "call" /\ SameLaunch
        BY <1>2, <2>1 DEF WorkerFields, SameLaunch
    <2>4. SamplerHolds'
        BY <2>1, <2>2 DEF SamplerHolds
    <2> QED BY <1>2, <1>3, <2>1, <2>2, <2>3, <2>4 DEF ProcessHolds, CensusHolds
<1>13. CASE ReturnOutputs
    <2>1. /\ worker.at = "call" /\ UNCHANGED sampler /\ size' = After
          /\ worker' = [worker EXCEPT !.at = "finish"]
        BY <1>13 DEF ReturnOutputs
    <2>2. SamplerHolds /\ sampler.stopping = FALSE /\ sampler.at # "started"
        BY <2>1 DEF ProcessHolds, CensusHolds, SamplerHolds
    <2>3. /\ DOMAIN worker' = WorkerFields /\ worker'.at = "finish" /\ SameLaunch
        BY <1>2, <2>1 DEF WorkerFields, SameLaunch
    <2>4. SamplerHolds'
        BY <2>1, <2>2 DEF SamplerHolds
    <2> QED BY <1>2, <1>3, <2>1, <2>2, <2>3, <2>4 DEF ProcessHolds, CensusHolds
<1>14. CASE StopSampler
    <2>1. /\ worker.at = "finish" /\ UNCHANGED size
          /\ worker' = [worker EXCEPT !.at = "join"]
          /\ sampler' = [sampler EXCEPT !.stopping = TRUE]
        BY <1>14 DEF StopSampler
    <2>2. SamplerHolds /\ sampler.at # "started" /\ size = After
        BY <2>1 DEF ProcessHolds, CensusHolds, SamplerHolds
    <2>3. /\ DOMAIN worker' = WorkerFields /\ worker'.at = "join" /\ SameLaunch
        BY <1>2, <2>1 DEF WorkerFields, SameLaunch
    <2>4. /\ DOMAIN sampler' = SamplerFields /\ sampler'.stopping
          /\ sampler'.at = sampler.at /\ sampler'.baseline = sampler.baseline
          /\ sampler'.peak = sampler.peak /\ sampler'.retained = sampler.retained
          /\ sampler'.reads = sampler.reads /\ sampler'.sees = sampler.sees
        BY <2>1, <2>2 DEF SamplerHolds, SamplerFields
    <2>5. SamplerHolds'
        BY <2>2, <2>4 DEF SamplerHolds
    <2> QED BY <1>2, <1>3, <2>1, <2>2, <2>3, <2>5 DEF ProcessHolds, CensusHolds
<1>15. CASE FinishCensus /\ ~Raise
    <2>1. /\ worker.at = "join" /\ sampler.at = "ended"
          /\ Census.peak >= Larger(Census.baseline, Census.retained)
          /\ worker' = [worker EXCEPT !.at = "exited", !.census = Census]
        BY <1>15 DEF FinishCensus
    <2>2. SamplerHolds
        BY <2>1 DEF ProcessHolds, CensusHolds
    <2>3. /\ sampler.retained = After /\ sampler.baseline = Before
          /\ sampler.peak \in Nat /\ sampler.retained <= sampler.peak
        BY <2>1, <2>2 DEF SamplerHolds
    <2>4. /\ Census.retained = After /\ Census.peak = sampler.peak
          /\ Census.retainedDelta = Larger(0, After - Before)
        BY <2>3 DEF Census
    <2>5. /\ DOMAIN worker' = WorkerFields /\ worker'.at = "exited" /\ SameLaunch
          /\ worker'.census = Census
        BY <1>2, <2>1 DEF WorkerFields, SameLaunch
    <2>6. /\ worker'.census.retained = After /\ worker'.census.peak >= After
          /\ worker'.census.retainedDelta = After - Before
        BY <2>3, <2>4, <2>5 DEF Larger, After, Before
    <2> QED BY <1>2, <1>3, <2>5, <2>6 DEF ProcessHolds, CensusHolds
<1>16. CASE CallRaises
    BY <1>4, <1>16 DEF CallRaises
<1>17. CASE StartFails
    BY <1>4, <1>17 DEF StartFails
<1> QED BY <1>4, <1>6, <1>7, <1>8, <1>9, <1>10, <1>11, <1>12, <1>13, <1>14, <1>15, <1>16,
      <1>17 DEF MainStep

(* A process that is started, or that none is run.                            *)
LEMMA LaunchHolds ==
    ASSUME NEW config, NEW pid, NEW started, NEW artifact,
           Launch(config, pid, started, artifact)
    PROVE  /\ ProcessHolds' /\ worker' # Idle
           /\ worker'.config = config /\ worker'.started = started
           /\ worker'.artifact = artifact
<1>1. /\ DOMAIN worker' = WorkerFields /\ worker'.at = "compare"
      /\ worker'.config = config /\ worker'.started = started
      /\ worker'.artifact = artifact
    BY DEF Launch, WorkerFields
<1>2. sampler' = NoSampler /\ size' = Before
    BY DEF Launch
<1>3. worker' # Idle
    BY <1>1 DEF Idle
<1> QED BY <1>1, <1>2, <1>3 DEF ProcessHolds, CensusHolds, IsWorker

(* Where no process is run the census thread does not exist either.           *)
LEMMA IdleHolds ==
    ASSUME worker = Idle, sampler = NoSampler, size = Before
    PROVE  ProcessHolds
BY DEF ProcessHolds, CensusHolds, IsWorker, Idle

-------------------------------------------------------------------------------
(* The schedule.                                                              *)

(* Each implementation is the other of the other.                             *)
LEMMA ImplementationsAreTwo ==
    ASSUME NEW i \in Implementations
    PROVE  /\ Other(i) \in Implementations /\ Other(i) # i
           /\ Implementations = {i, Other(i)}
BY DEF Implementations, Other

(* The draws of a seed, as they come.                                         *)
Drawn(seed, r) == IF Coin[seed][r] THEN "candidate" ELSE "reference"

(* The orders of a seed satisfy their recursion: with more than two           *)
(* repetitions they alternate from the first draw, otherwise they are the     *)
(* draws.                                                                     *)
LEMMA FirstIsDefined ==
    ASSUME NEW seed, NEW r \in 0 .. Repetitions - 1
    PROVE  First(seed)[r] = IF r > 0 /\ Repetitions > 2 /\ Drawn(seed, r) = First(seed)[r - 1]
                            THEN Other(Drawn(seed, r)) ELSE Drawn(seed, r)
<1> DEFINE S == 0 .. Repetitions - 1
           Alternate(n) == IF n % 2 = 0 THEN Drawn(seed, 0) ELSE Other(Drawn(seed, 0))
           G == [n \in S |-> IF Repetitions > 2 THEN Alternate(n) ELSE Drawn(seed, n)]
           Turned(f) == [n \in S |->
               LET drawn == IF Coin[seed][n] THEN "candidate" ELSE "reference"
               IN  IF n > 0 /\ Repetitions > 2 /\ drawn = f[n - 1] THEN Other(drawn) ELSE drawn]
           F == CHOOSE f : f = Turned(f)
<1>1. \A n \in S : G[n] = IF n > 0 /\ Repetitions > 2 /\ Drawn(seed, n) = G[n - 1]
                          THEN Other(Drawn(seed, n)) ELSE Drawn(seed, n)
    <2> SUFFICES ASSUME NEW n \in S
                 PROVE  G[n] = IF n > 0 /\ Repetitions > 2 /\ Drawn(seed, n) = G[n - 1]
                               THEN Other(Drawn(seed, n)) ELSE Drawn(seed, n)
        OBVIOUS
    <2>1. n \in Nat /\ (n > 0 => n - 1 \in S)
        BY RunAssumption
    <2>2. Drawn(seed, n) \in Implementations /\ Drawn(seed, 0) \in Implementations
        BY DEF Drawn, Implementations
    <2>3. CASE Repetitions > 2 /\ n > 0
        <3>1. G[n] = Alternate(n) /\ G[n - 1] = Alternate(n - 1)
            BY <2>1, <2>3
        <3>2. n % 2 = 0 <=> (n - 1) % 2 # 0
            BY <2>1, <2>3
        <3>3. Alternate(n) \in Implementations /\ Alternate(n) = Other(Alternate(n - 1))
            BY <2>2, <3>2 DEF Other, Implementations
        <3>4. Alternate(n - 1) \in Implementations
            BY <2>2, ImplementationsAreTwo
        <3> HIDE DEF Alternate, G
        <3>5. CASE Drawn(seed, n) = Alternate(n - 1)
            BY <2>3, <3>1, <3>3, <3>5
        <3>6. CASE Drawn(seed, n) # Alternate(n - 1)
            <4>1. Drawn(seed, n) = Other(Alternate(n - 1))
                BY <2>2, <3>4, <3>6 DEF Other, Implementations
            <4> QED BY <3>1, <3>3, <3>6, <4>1
        <3> QED BY <3>5, <3>6
    <2>4. CASE n = 0
        <3>1. Alternate(n) = Drawn(seed, n)
            BY <2>4
        <3> QED BY <2>4, <3>1
    <2>5. CASE ~(Repetitions > 2)
        BY <2>5
    <2> QED BY <2>1, <2>3, <2>4, <2>5
<1>2. G = Turned(G)
    BY <1>1 DEF Drawn
<1>3. F = Turned(F)
    <2> HIDE DEF G, Turned
    <2> QED BY <1>2
<1>4. First(seed) = F
    BY DEF First
<1>5. F[r] = IF r > 0 /\ Repetitions > 2 /\ Drawn(seed, r) = F[r - 1]
             THEN Other(Drawn(seed, r)) ELSE Drawn(seed, r)
    <2> HIDE DEF F
    <2> QED BY <1>3 DEF Drawn
<1> QED BY <1>4, <1>5

(* An order names the two implementations, and of three repetitions or more   *)
(* no two that follow each other have the same order.                         *)
LEMMA OrdersAlternate ==
    ASSUME NEW seed, NEW r \in 0 .. Repetitions - 1
    PROVE  /\ First(seed)[r] \in Implementations
           /\ r > 0 /\ Repetitions > 2 => First(seed)[r] # First(seed)[r - 1]
<1>1. Drawn(seed, r) \in Implementations
    BY DEF Drawn, Implementations
<1>2. First(seed)[r] = IF r > 0 /\ Repetitions > 2 /\ Drawn(seed, r) = First(seed)[r - 1]
                       THEN Other(Drawn(seed, r)) ELSE Drawn(seed, r)
    BY FirstIsDefined
<1> QED BY <1>1, <1>2, ImplementationsAreTwo

-------------------------------------------------------------------------------
(* The parent and what it has kept.                                           *)

IsSequence(s) == \E S : s \in Seq(S)

RunFields ==
    {"at", "pool", "wall", "coordinate", "repetition", "done", "pairs", "result"}

WorldFields == {"workload", "candidate", "report", "started", "pids"}

(* As many coordinates as there are pairs of a case and a budget.             *)
Last == Len(Cases) * Len(Regimes)

(* The place of a pair in the schedule is one the loops have passed.          *)
Passed(c, r) == c < run.coordinate \/ (c = run.coordinate /\ r < run.repetition)

(* The candidate is still the one the run began with.                         *)
Same == world.candidate = 1 /\ ~Restored

(* What the candidate was and what has become of it is not forgotten.         *)
Noticed == (Same' => Same) /\ (Restored => Restored')

(* A record of a process that has run: it started when it was its turn, from  *)
(* the candidate as it was then.                                              *)
IsMeasured(record) ==
    /\ record.started \in Nat /\ record.started <= world.started
    /\ Same => record.artifact = 1

IsPair(p) ==
    /\ p.coordinate \in Coordinates /\ p.repetition \in 0 .. Repetitions - 1
    /\ Passed(p.coordinate, p.repetition)
    /\ p.order = <<First(p.coordinate)[p.repetition],
                   Other(First(p.coordinate)[p.repetition])>>
    /\ \A m \in Implementations : IsMeasured(p.implementations[m])
    /\ p.implementations[p.order[1]].started < p.implementations[p.order[2]].started

(* The parent's loops.                                                        *)
ParentHolds ==
    /\ DOMAIN run = RunFields /\ DOMAIN world = WorldFields
    /\ world.started \in Nat /\ world.candidate \in {1, 2}
    /\ run.at \in {"next", "wait", "validate", "write", "written", "reported",
                   "unreported", "failed"}
    /\ run.coordinate \in 0 .. Last /\ run.repetition \in 0 .. Repetitions - 1
    /\ run.coordinate = Last => run.repetition = 0

(* The pairs kept so far: one for every place that has been passed, the       *)
(* repetitions of a coordinate one after another, each begun after the ones   *)
(* before it had ended.                                                       *)
ScheduleHolds ==
    /\ IsSequence(run.pairs)
    /\ \A i \in DOMAIN run.pairs : IsPair(run.pairs[i])
    /\ \A c \in Coordinates, r \in 0 .. Repetitions - 1 :
        Passed(c, r) => \E i \in DOMAIN run.pairs :
            run.pairs[i].coordinate = c /\ run.pairs[i].repetition = r
    /\ \A i, j \in DOMAIN run.pairs :
        (j = i + 1 /\ run.pairs[i].coordinate = run.pairs[j].coordinate) =>
            run.pairs[j].repetition = run.pairs[i].repetition + 1
    /\ \A i \in DOMAIN run.pairs :
        (i = Len(run.pairs) /\ run.pairs[i].coordinate = run.coordinate) =>
            run.repetition = run.pairs[i].repetition + 1
    /\ \A i, j \in DOMAIN run.pairs : i < j =>
        \A m, n \in Implementations :
            run.pairs[i].implementations[m].started < run.pairs[j].implementations[n].started

(* A process that started after every pair kept so far.                       *)
FollowsThePairs(started) ==
    \A i \in DOMAIN run.pairs : \A m \in Implementations :
        run.pairs[i].implementations[m].started < started

(* The pair at work: nothing yet, the first of the order, or both.            *)
PairHolds ==
    run.at \in {"next", "wait"} =>
        /\ DOMAIN run.done # {} =>
            run.coordinate \in Coordinates /\ DOMAIN run.done \in {{Order[1]}, Implementations}
        /\ \A m \in DOMAIN run.done :
            IsMeasured(run.done[m]) /\ FollowsThePairs(run.done[m].started)
        /\ DOMAIN run.done = Implementations =>
            run.done[Order[1]].started < run.done[Order[2]].started
        /\ run.at = "wait" =>
            /\ run.coordinate \in Coordinates /\ DOMAIN run.done # Implementations
            /\ worker # Idle /\ worker.config.implementation = Turn
            /\ IsMeasured(worker) /\ FollowsThePairs(worker.started)
            /\ \A m \in DOMAIN run.done : run.done[m].started < worker.started

(* The result, once built, holds the pairs of the whole schedule; once it has *)
(* been validated every process behind it is known to have had the same       *)
(* input and, unless one was put back, the same candidate, whatever changes   *)
(* afterwards.                                                                *)
ResultHolds ==
    run.at \in {"validate", "write", "written", "reported", "unreported"} =>
        /\ run.result.pairs = run.pairs /\ run.result.candidate = 1
        /\ run.coordinate = Last
        /\ run.at # "validate" =>
            \A i \in DOMAIN run.pairs : \A m \in Implementations :
                /\ ~Restored => run.pairs[i].implementations[m].artifact = 1
                /\ run.pairs[i].implementations[m].input = run.result.workload

IInv == ProcessHolds /\ ParentHolds /\ ScheduleHolds /\ PairHolds /\ ResultHolds

(* Nothing the surroundings did is struck from the record of it.              *)
LEMMA FaultsAreKept ==
    ASSUME MainStep \/ SamplerStep \/ Interference \/ ParentStep
    PROVE  faults \subseteq faults'
<1>1. CASE MainStep
    <2>1. \/ UNCHANGED faults
          \/ \E f : Fault(f)
        BY <1>1 DEF MainStep, ComparePre, WarmUp, TakeSample, ExtendFloor, ComparePost,
                    StartCensus, StartFails, Allocate, ReturnOutputs, CallRaises,
                    StopSampler, FinishCensus
    <2> QED BY <2>1 DEF Fault
<1>2. CASE SamplerStep
    BY <1>2 DEF SamplerStep, SamplerStarts, SamplerWakes, SamplerReads, Fault
<1>3. CASE Interference
    BY <1>3 DEF Interference, WorkloadChanges, CandidateChanges, CandidateIsRestored,
                ReportChanges, WorkerDies, Fault
<1>4. CASE ParentStep
    BY <1>4 DEF ParentStep, StartWorker, CollectWorker, WorkerFailed, KeepPair, BuildResult,
                ValidateResult, WriteResult, RenderReport, Fault
<1> QED BY <1>1, <1>2, <1>3, <1>4

(* A step that leaves the candidate alone does not make another of it.        *)
LEMMA CandidateStays ==
    ASSUME world'.candidate = world.candidate, faults \subseteq faults'
    PROVE  Noticed
BY DEF Noticed, Same, Restored

(* The coordinates are counted from zero, and there is at least one.          *)
LEMMA CoordinatesAreCounted ==
    /\ Last \in Nat \ {0} /\ Repetitions \in Nat \ {0}
    /\ Coordinates = 0 .. Last - 1
<1>1. PICK a \in Nat \ {0}, b \in Nat \ {0} : a = Len(Cases) /\ b = Len(Regimes)
    BY RunAssumption
<1>2. a * b \in Nat \ {0}
    OBVIOUS
<1>3. Last = a * b
    BY <1>1 DEF Last
<1> QED BY <1>2, <1>3, RunAssumption DEF Coordinates, Last

(* What is asked of a run is asked of what is left of it by a step that       *)
(* changes neither its pairs nor its place.                                   *)
LEMMA MeasuredStays ==
    ASSUME NEW record, IsMeasured(record), world.started \in Nat, world'.started \in Nat,
           world.started <= world'.started, Noticed
    PROVE  IsMeasured(record)'
BY DEF IsMeasured, Noticed

(* The pairs kept so far stay as they are.                                    *)
LEMMA ScheduleStays ==
    ASSUME ScheduleHolds, run'.pairs = run.pairs, run'.coordinate = run.coordinate,
           run'.repetition = run.repetition, world.started \in Nat, world'.started \in Nat,
           world.started <= world'.started, Noticed
    PROVE  ScheduleHolds'
<1>1. \A c, r : Passed(c, r)' <=> Passed(c, r)
    BY DEF Passed
<1>2. ASSUME NEW p, IsPair(p) PROVE IsPair(p)'
    <2>1. \A m \in Implementations : IsMeasured(p.implementations[m])'
        BY <1>2, MeasuredStays DEF IsPair
    <2> QED BY <1>1, <1>2, <2>1 DEF IsPair
<1>3. \A i \in DOMAIN run.pairs : IsPair(run.pairs[i])'
    BY <1>2 DEF ScheduleHolds
<1>4. \A i \in DOMAIN run'.pairs : IsPair(run.pairs[i])'
    BY <1>3
<1> QED BY <1>1, <1>4 DEF ScheduleHolds

(* A step that leaves the run alone, whatever it does to the process: other   *)
(* than to start a new one.                                                   *)
LEMMA RunIsLeftAlone ==
    ASSUME ParentHolds, ScheduleHolds, PairHolds, ResultHolds,
           run' = run, DOMAIN world' = WorldFields, world'.started = world.started,
           world'.candidate \in {1, 2}, Noticed,
           worker # Idle => worker' # Idle /\ SameLaunch
    PROVE  (ParentHolds /\ ScheduleHolds /\ PairHolds /\ ResultHolds)'
<1>0. world.started \in Nat /\ world.started <= world'.started /\ world'.started \in Nat
    BY DEF ParentHolds
<1>1. ParentHolds'
    BY <1>0 DEF ParentHolds
<1>2. ScheduleHolds'
    BY <1>0, ScheduleStays
<1>3. PairHolds'
    <2>1. Order' = Order /\ Turn' = Turn
        BY DEF Order, Turn
    <2>2. \A s : FollowsThePairs(s)' <=> FollowsThePairs(s)
        BY DEF FollowsThePairs
    <2> SUFFICES ASSUME run.at \in {"next", "wait"} PROVE PairHolds'
        BY DEF PairHolds
    <2>3. \A m \in DOMAIN run.done :
              IsMeasured(run.done[m])' /\ FollowsThePairs(run.done[m].started)'
        BY <1>0, <2>2, MeasuredStays DEF PairHolds
    <2>4. CASE run.at = "wait"
        <3>1. /\ worker # Idle /\ worker.config.implementation = Turn
              /\ IsMeasured(worker) /\ FollowsThePairs(worker.started)
              /\ \A m \in DOMAIN run.done : run.done[m].started < worker.started
            BY <2>4 DEF PairHolds
        <3>2. IsMeasured(worker)'
            BY <1>0, <3>1 DEF IsMeasured, SameLaunch, Noticed
        <3>3. /\ worker' # Idle /\ worker'.config = worker.config
              /\ worker'.started = worker.started
            BY <3>1 DEF SameLaunch
        <3>4. FollowsThePairs(worker.started)'
            BY <3>1, <3>3 DEF FollowsThePairs
        <3> QED BY <2>1, <2>3, <2>4, <3>1, <3>2, <3>3, <3>4 DEF PairHolds, FollowsThePairs
    <2>5. CASE run.at = "next"
        BY <2>1, <2>3, <2>5 DEF PairHolds, FollowsThePairs
    <2> QED BY <2>4, <2>5
<1>4. ResultHolds'
    BY DEF ResultHolds, Noticed
<1> QED BY <1>1, <1>2, <1>3, <1>4

(* How many implementations of a pair have been measured.                     *)
LEMMA MeasuredOfAPair ==
    ASSUME NEW i \in Implementations
    PROVE  /\ Cardinality({}) = 0 /\ Cardinality({i}) = 1
           /\ Cardinality(Implementations) = 2
<1>1. Cardinality({}) = 0 /\ Cardinality({i}) = 1
    BY FS_EmptySet, FS_Singleton
<1>2. IsFiniteSet({"reference"}) /\ Cardinality({"reference"}) = 1
    BY FS_Singleton
<1>3. "candidate" \notin {"reference"}
    OBVIOUS
<1>4. Cardinality({"reference"} \cup {"candidate"}) = 2
    BY <1>2, <1>3, FS_AddElement
<1>5. Implementations = {"reference"} \cup {"candidate"}
    BY DEF Implementations
<1> QED BY <1>1, <1>4, <1>5

(* The order of the pair at work names two implementations.                   *)
LEMMA OrderNamesBoth ==
    ASSUME ParentHolds
    PROVE  /\ Order = <<Order[1], Order[2]>>
           /\ Order[1] = First(run.coordinate)[run.repetition]
           /\ Order[1] \in Implementations /\ Order[2] = Other(Order[1])
           /\ Order[2] # Order[1] /\ Implementations = {Order[1], Order[2]}
<1>1. PICK first \in Implementations : first = First(run.coordinate)[run.repetition]
    BY OrdersAlternate DEF ParentHolds
<1>2. Order = <<first, Other(first)>>
    BY <1>1 DEF Order
<1> QED BY <1>1, <1>2, ImplementationsAreTwo

(* A process is started where the pair lacks one, after everything before it. *)
LEMMA StartWorkerKeeps ==
    ASSUME IInv, StartWorker
    PROVE  IInv'
<1>1. PICK pid : Launch([implementation |-> Turn, budget |-> BudgetOf(run.coordinate),
                   cpus |-> Cpus(run.pool, run.coordinate), wall |-> run.wall[Turn],
                   nonce |-> world.started + 1, input |-> world.workload],
                  pid, world.started + 1, world.candidate)
            /\ world' = [world EXCEPT !.started = @ + 1, !.pids = @ \cup {pid}]
    BY DEF StartWorker
<1>2. /\ ProcessHolds' /\ worker' # Idle /\ worker'.config.implementation = Turn
      /\ worker'.started = world.started + 1 /\ worker'.artifact = world.candidate
    BY <1>1, LaunchHolds
<1>3. /\ run.at = "next" /\ run.coordinate \in Coordinates
      /\ Cardinality(DOMAIN run.done) < 2 /\ run' = [run EXCEPT !.at = "wait"]
    BY DEF StartWorker
<1>4. ParentHolds /\ ScheduleHolds /\ PairHolds
    BY DEF IInv
<1>5. /\ DOMAIN run' = RunFields /\ run'.at = "wait" /\ run'.coordinate = run.coordinate
      /\ run'.repetition = run.repetition /\ run'.pairs = run.pairs /\ run'.done = run.done
    BY <1>3, <1>4 DEF ParentHolds, RunFields
<1>6. /\ DOMAIN world' = WorldFields /\ world'.started = world.started + 1
      /\ world'.candidate = world.candidate /\ world.started \in Nat
    BY <1>1, <1>4 DEF ParentHolds, WorldFields
<1>6a. Noticed
    BY <1>6, FaultsAreKept, CandidateStays DEF ParentStep
<1>7. ParentHolds'
    BY <1>4, <1>5, <1>6 DEF ParentHolds
<1>8. ScheduleHolds'
    BY <1>4, <1>5, <1>6, <1>6a, ScheduleStays
<1>9. Order' = Order /\ Turn' = Turn
    BY <1>5 DEF Order, Turn
<1>10. ASSUME NEW i \in DOMAIN run.pairs, NEW m \in Implementations
       PROVE  run.pairs[i].implementations[m].started < world.started + 1
    <2>1. IsMeasured(run.pairs[i].implementations[m])
        BY <1>4, <1>10 DEF ScheduleHolds, IsPair
    <2> QED BY <1>6, <2>1 DEF IsMeasured
<1>11. FollowsThePairs(worker.started)'
    BY <1>2, <1>5, <1>10 DEF FollowsThePairs
<1>12. ASSUME NEW m \in DOMAIN run.done
       PROVE  /\ IsMeasured(run.done[m])' /\ FollowsThePairs(run.done[m].started)'
              /\ run.done[m].started < worker'.started
    <2>1. IsMeasured(run.done[m]) /\ FollowsThePairs(run.done[m].started)
        BY <1>3, <1>4, <1>12 DEF PairHolds
    <2>2. IsMeasured(run.done[m])'
        <3>1. PICK record : record = run.done[m]
            OBVIOUS
        <3>2. IsMeasured(record)'
            BY <1>6, <1>6a, <2>1, <3>1 DEF IsMeasured, Noticed
        <3> QED BY <1>5, <3>1, <3>2
    <2> QED BY <1>2, <1>5, <1>6, <2>1, <2>2 DEF FollowsThePairs, IsMeasured
<1>13. IsMeasured(worker)'
    BY <1>2, <1>6, <1>6a DEF IsMeasured, Noticed, Same
<1>14. DOMAIN run.done # Implementations
    <2>1. Cardinality(Implementations) = 2
        BY MeasuredOfAPair DEF Implementations
    <2> QED BY <1>3, <2>1
<1>15. DOMAIN run.done # {} => DOMAIN run.done \in {{Order[1]}, Implementations}
    BY <1>3, <1>4 DEF PairHolds
<1>16. PairHolds'
    BY <1>2, <1>3, <1>5, <1>9, <1>11, <1>12, <1>13, <1>14, <1>15 DEF PairHolds, FollowsThePairs
<1>17. ResultHolds'
    BY <1>5 DEF ResultHolds
<1> QED BY <1>2, <1>7, <1>8, <1>16, <1>17 DEF IInv

(* The record of a process tells when it started and from what.               *)
LEMMA RecordTells ==
    ASSUME NEW w, NEW agrees
    PROVE  LET r == [Record(w) EXCEPT !.census = agrees]
           IN  r.started = w.started /\ r.artifact = w.artifact /\ r.input = w.config.input
BY DEF Record

(* A record that is collected belongs to the implementation whose turn it is. *)
LEMMA CollectWorkerKeeps ==
    ASSUME IInv, CollectWorker
    PROVE  IInv'
<1>1. PICK r : r = [Record(worker) EXCEPT !.census = CensusAgrees(@)]
    OBVIOUS
<1>2. r.started = worker.started /\ r.artifact = worker.artifact
    BY <1>1, RecordTells DEF Record
<1>3. ParentHolds /\ ScheduleHolds /\ PairHolds
    BY DEF IInv
<1>4. /\ run.at = "wait"
      /\ run' = [run EXCEPT !.at = "next",
                            !.done = [m \in (DOMAIN @) \cup {worker.config.implementation} |->
                                IF m = worker.config.implementation THEN r ELSE @[m]]]
      /\ worker' = Idle /\ sampler' = NoSampler /\ size' = Before
      /\ UNCHANGED <<world, faults>>
    BY <1>1 DEF CollectWorker
<1>4a. Noticed
    BY <1>4, CandidateStays
<1>5. /\ worker.config.implementation = Turn /\ IsMeasured(worker)
      /\ FollowsThePairs(worker.started) /\ run.coordinate \in Coordinates
      /\ \A m \in DOMAIN run.done : run.done[m].started < worker.started
      /\ DOMAIN run.done \in {{}, {Order[1]}}
    BY <1>3, <1>4 DEF PairHolds
<1>6. PICK i \in Implementations : i = Turn /\ i \notin DOMAIN run.done
           /\ i = IF DOMAIN run.done = {} THEN Order[1] ELSE Order[2]
    <2>1. CASE DOMAIN run.done = {}
        <3>1. Turn = Order[1]
            BY <2>1, FS_EmptySet DEF Turn
        <3> QED BY <1>3, <2>1, <3>1, OrderNamesBoth
    <2>2. CASE DOMAIN run.done = {Order[1]}
        BY <1>3, <2>2, OrderNamesBoth, MeasuredOfAPair DEF Turn
    <2> QED BY <1>5, <2>1, <2>2
<1>7. PICK done : done = [m \in (DOMAIN run.done) \cup {i} |->
                              IF m = i THEN r ELSE run.done[m]]
    OBVIOUS
<1>7a. /\ DOMAIN done = (DOMAIN run.done) \cup {i}
       /\ done[i] = r /\ \A m \in DOMAIN run.done : done[m] = run.done[m]
    BY <1>6, <1>7
<1>8. /\ DOMAIN run' = RunFields /\ run'.at = "next" /\ run'.coordinate = run.coordinate
      /\ run'.repetition = run.repetition /\ run'.pairs = run.pairs /\ run'.done = done
    BY <1>3, <1>4, <1>5, <1>6, <1>7 DEF ParentHolds, RunFields
<1>9. ProcessHolds'
    <2>1. worker' = Idle /\ sampler' = NoSampler /\ size' = Before
        BY <1>4
    <2> QED BY <2>1 DEF ProcessHolds, CensusHolds, IsWorker, Idle
<1>10. ParentHolds'
    BY <1>3, <1>4, <1>8 DEF ParentHolds
<1>11. ScheduleHolds'
    BY <1>3, <1>4, <1>4a, <1>8, ScheduleStays DEF ParentHolds
<1>12. Order' = Order
    BY <1>8 DEF Order
<1>13. IsMeasured(r)
    BY <1>2, <1>5 DEF IsMeasured
<1>14. ASSUME NEW m \in DOMAIN done
       PROVE  IsMeasured(done[m])' /\ FollowsThePairs(done[m].started)'
    <2>1. IsMeasured(done[m]) /\ FollowsThePairs(done[m].started)
        BY <1>2, <1>3, <1>4, <1>5, <1>7a, <1>13 DEF PairHolds
    <2> QED BY <1>4, <1>4a, <1>8, <2>1 DEF IsMeasured, FollowsThePairs, Noticed
<1>15. DOMAIN done \in {{Order[1]}, Implementations}
    BY <1>3, <1>5, <1>6, <1>7a, OrderNamesBoth
<1>16. DOMAIN done = Implementations => done[Order[1]].started < done[Order[2]].started
    <2> SUFFICES ASSUME DOMAIN done = Implementations
                 PROVE  done[Order[1]].started < done[Order[2]].started
        OBVIOUS
    <2>1. DOMAIN run.done = {Order[1]} /\ i = Order[2]
        BY <1>3, <1>5, <1>6, <1>7a, OrderNamesBoth
    <2> QED BY <1>2, <1>5, <1>7a, <2>1
<1>17. PairHolds'
    BY <1>5, <1>8, <1>12, <1>14, <1>15, <1>16 DEF PairHolds, FollowsThePairs
<1>18. ResultHolds'
    BY <1>8 DEF ResultHolds
<1> QED BY <1>9, <1>10, <1>11, <1>17, <1>18 DEF IInv

(* A sequence of anything stays one when something is appended to it.         *)
LEMMA OneMore ==
    ASSUME NEW s, IsSequence(s), NEW e
    PROVE  /\ IsSequence(Append(s, e)) /\ Len(s) \in Nat
           /\ DOMAIN s = 1 .. Len(s) /\ DOMAIN Append(s, e) = 1 .. (Len(s) + 1)
           /\ Len(Append(s, e)) = Len(s) + 1
           /\ \A i \in 1 .. Len(s) : Append(s, e)[i] = s[i]
           /\ Append(s, e)[Len(s) + 1] = e
<1>1. PICK S : s \in Seq(S)
    BY DEF IsSequence
<1>2. s \in Seq(S \cup {e}) /\ e \in S \cup {e}
    BY <1>1
<1>3. Append(s, e) \in Seq(S \cup {e})
    BY <1>2
<1> QED BY <1>2, <1>3 DEF IsSequence

(* The loops move to the next repetition, or to the next coordinate: the      *)
(* places passed are those passed before and the one that was at work.        *)
LEMMA LoopsAdvance ==
    ASSUME ParentHolds, run.coordinate \in Coordinates,
           run'.repetition = (run.repetition + 1) % Repetitions,
           run'.coordinate = IF run.repetition + 1 = Repetitions
                             THEN run.coordinate + 1 ELSE run.coordinate
    PROVE  /\ run'.coordinate \in 0 .. Last /\ run'.repetition \in 0 .. Repetitions - 1
           /\ run'.coordinate = Last => run'.repetition = 0
           /\ run'.coordinate = run.coordinate => run'.repetition = run.repetition + 1
           /\ \A c \in Coordinates, r \in 0 .. Repetitions - 1 :
                Passed(c, r)' <=> \/ Passed(c, r)
                                  \/ (c = run.coordinate /\ r = run.repetition)
<1>1. PICK n \in Nat, k \in Nat, c \in Nat, r \in Nat :
        /\ n = Last /\ k = Repetitions /\ c = run.coordinate /\ r = run.repetition
        /\ n > 0 /\ k > 0 /\ c < n /\ r < k /\ Coordinates = 0 .. n - 1
    <2>1. Last \in Nat /\ Repetitions \in Nat /\ Last > 0 /\ Repetitions > 0
        BY CoordinatesAreCounted
    <2>2. Coordinates = 0 .. Last - 1
        BY CoordinatesAreCounted
    <2>3. run.coordinate \in Nat /\ run.coordinate < Last
        BY <2>1, <2>2
    <2>4. run.repetition \in Nat /\ run.repetition < Repetitions
        BY <2>1 DEF ParentHolds
    <2> QED BY <2>1, <2>2, <2>3, <2>4
<1>2. CASE r + 1 = k
    <2>1. run'.coordinate = c + 1 /\ run'.repetition = 0
        <3>1. k % k = 0
            BY <1>1
        <3> QED BY <1>1, <1>2, <3>1
    <2>2. \A d \in Nat, q \in Nat : q < k =>
            (Passed(d, q)' <=> \/ Passed(d, q) \/ (d = c /\ q = r))
        BY <1>1, <1>2, <2>1, SMTT(40) DEF Passed
    <2>3. /\ run'.coordinate \in 0 .. n /\ run'.repetition \in 0 .. k - 1
          /\ run'.coordinate # run.coordinate
        <3>1. c + 1 \in 0 .. n /\ c + 1 # c /\ 0 \in 0 .. k - 1
            BY <1>1
        <3>2. run.coordinate = c
            BY <1>1
        <3> QED BY <2>1, <3>1, <3>2
    <2>4. \A d \in 0 .. n - 1, q \in 0 .. k - 1 :
            Passed(d, q)' <=> \/ Passed(d, q) \/ (d = c /\ q = r)
        BY <1>1, <2>2
    <2> QED BY <1>1, <2>1, <2>3, <2>4
<1>3. CASE r + 1 # k
    <2>1. run'.coordinate = c /\ run'.repetition = r + 1
        <3>1. (r + 1) % k = r + 1
            BY <1>1, <1>3, SMTT(40)
        <3> QED BY <1>1, <1>3, <3>1
    <2>2. \A d \in Nat, q \in Nat : q < k =>
            (Passed(d, q)' <=> \/ Passed(d, q) \/ (d = c /\ q = r))
        BY <1>1, <2>1, SMTT(40) DEF Passed
    <2>3. /\ run'.coordinate \in 0 .. n /\ run'.repetition \in 0 .. k - 1
          /\ run'.coordinate # n
        BY <1>1, <1>3, <2>1, SMTT(40)
    <2>4. \A d \in 0 .. n - 1, q \in 0 .. k - 1 :
            Passed(d, q)' <=> \/ Passed(d, q) \/ (d = c /\ q = r)
        BY <1>1, <2>2
    <2> QED BY <1>1, <2>1, <2>3, <2>4
<1> QED BY <1>2, <1>3

(* A pair is kept at the place of the loops, after every pair before it.      *)
LEMMA KeepPairKeeps ==
    ASSUME IInv, KeepPair
    PROVE  IInv'
<1>1. /\ run.at = "next" /\ Cardinality(DOMAIN run.done) = 2
      /\ UNCHANGED <<world, worker, sampler, size, faults>> /\ Noticed
    BY CandidateStays DEF KeepPair
<1>2. ParentHolds /\ ScheduleHolds /\ PairHolds /\ ProcessHolds
    BY DEF IInv
<1>3. ProcessHolds'
    BY <1>1, <1>2 DEF ProcessHolds, CensusHolds, SamplerHolds
<1>4. \A record : IsMeasured(record)' <=> IsMeasured(record)
    BY <1>1 DEF IsMeasured, Same, Restored
<1>5. CASE run' = [run EXCEPT !.at = "failed"]
    <2>1. /\ DOMAIN run' = RunFields /\ run'.at = "failed"
          /\ run'.coordinate = run.coordinate /\ run'.repetition = run.repetition
          /\ run'.pairs = run.pairs
        BY <1>2, <1>5 DEF ParentHolds, RunFields
    <2>2. ParentHolds'
        BY <1>1, <1>2, <2>1 DEF ParentHolds
    <2>3. ScheduleHolds'
        BY <1>1, <1>2, <2>1, ScheduleStays DEF ParentHolds
    <2>4. PairHolds' /\ ResultHolds'
        BY <2>1 DEF PairHolds, ResultHolds
    <2> QED BY <1>3, <2>2, <2>3, <2>4 DEF IInv
<1>6. CASE run' # [run EXCEPT !.at = "failed"]
    <2>1. PICK p : p = [coordinate |-> run.coordinate,
                        repetition |-> run.repetition, order |-> Order,
                        seed |-> run.coordinate, budget |-> BudgetOf(run.coordinate),
                        implementations |-> run.done]
        OBVIOUS
    <2>2. run' = [run EXCEPT !.pairs = Append(@, p), !.done = <<>>,
                    !.repetition = (@ + 1) % Repetitions,
                    !.coordinate = IF run.repetition + 1 = Repetitions THEN @ + 1 ELSE @]
        BY <1>6, <2>1 DEF KeepPair
    <2>3. PICK pairs : pairs = Append(run.pairs, p)
        OBVIOUS
    <2>4. /\ DOMAIN run' = RunFields /\ run'.at = "next" /\ run'.done = <<>>
          /\ run'.pairs = pairs
          /\ run'.repetition = (run.repetition + 1) % Repetitions
          /\ run'.coordinate = IF run.repetition + 1 = Repetitions
                               THEN run.coordinate + 1 ELSE run.coordinate
        BY <1>1, <1>2, <2>2, <2>3 DEF ParentHolds, RunFields
    <2>5. /\ DOMAIN run.done = Implementations /\ run.coordinate \in Coordinates
          /\ run.done[Order[1]].started < run.done[Order[2]].started
          /\ \A m \in Implementations :
                IsMeasured(run.done[m]) /\ FollowsThePairs(run.done[m].started)
        <3>1. DOMAIN run.done # {} /\ DOMAIN run.done # {Order[1]}
            <4>1. Cardinality({}) = 0 /\ Cardinality({Order[1]}) = 1
                BY FS_EmptySet, FS_Singleton
            <4> QED BY <1>1, <4>1
        <3> QED BY <1>1, <1>2, <3>1 DEF PairHolds
    <2>6. /\ run'.coordinate \in 0 .. Last /\ run'.repetition \in 0 .. Repetitions - 1
          /\ run'.coordinate = Last => run'.repetition = 0
          /\ run'.coordinate = run.coordinate => run'.repetition = run.repetition + 1
          /\ \A c \in Coordinates, r \in 0 .. Repetitions - 1 :
                Passed(c, r)' <=> \/ Passed(c, r)
                                  \/ (c = run.coordinate /\ r = run.repetition)
        BY <1>2, <2>4, <2>5, LoopsAdvance
    <2>7. ParentHolds'
        BY <1>1, <1>2, <2>4, <2>6 DEF ParentHolds
    <2>8. PICK n \in Nat :
            /\ n = Len(run.pairs) /\ IsSequence(pairs)
            /\ DOMAIN run.pairs = 1 .. n /\ DOMAIN pairs = 1 .. n + 1
            /\ Len(pairs) = n + 1 /\ \A i \in 1 .. n : pairs[i] = run.pairs[i]
            /\ pairs[n + 1] = p
        BY <1>2, <2>3, OneMore DEF ScheduleHolds
    <2>9. /\ p.coordinate = run.coordinate /\ p.repetition = run.repetition
          /\ p.order = Order /\ p.implementations = run.done
        BY <2>1
    <2>10. IsPair(p)'
        <3>1. /\ p.coordinate \in Coordinates /\ p.repetition \in 0 .. Repetitions - 1
              /\ Passed(p.coordinate, p.repetition)'
            BY <1>2, <2>5, <2>6, <2>9 DEF ParentHolds
        <3>2. p.order = <<First(p.coordinate)[p.repetition],
                          Other(First(p.coordinate)[p.repetition])>>
            BY <1>2, <2>9, OrderNamesBoth
        <3>3. \A m \in Implementations : IsMeasured(p.implementations[m])'
            BY <1>4, <2>5, <2>9
        <3>4. p.implementations[p.order[1]].started < p.implementations[p.order[2]].started
            BY <2>5, <2>9
        <3> QED BY <3>1, <3>2, <3>3, <3>4 DEF IsPair
    <2>11. ASSUME NEW i \in 1 .. n + 1 PROVE IsPair(pairs[i])'
        <3>1. CASE i \in 1 .. n
            <4>1. IsPair(run.pairs[i]) /\ pairs[i] = run.pairs[i]
                BY <1>2, <2>8, <3>1 DEF ScheduleHolds
            <4>2. PICK q : q = run.pairs[i]
                OBVIOUS
            <4>3. IsPair(q)'
                BY <1>4, <2>6, <4>1, <4>2 DEF IsPair
            <4> QED BY <4>1, <4>2, <4>3
        <3>2. CASE i = n + 1
            BY <2>8, <2>10, <3>2
        <3> QED BY <3>1, <3>2
    <2>12. ASSUME NEW c \in Coordinates, NEW r \in 0 .. Repetitions - 1, Passed(c, r)'
           PROVE  \E i \in 1 .. n + 1 : pairs[i].coordinate = c /\ pairs[i].repetition = r
        <3>1. CASE Passed(c, r)
            <4>1. PICK i \in 1 .. n : run.pairs[i].coordinate = c /\ run.pairs[i].repetition = r
                BY <1>2, <2>8, <3>1 DEF ScheduleHolds
            <4> QED BY <2>8, <4>1
        <3>2. CASE c = run.coordinate /\ r = run.repetition
            <4>1. pairs[n + 1].coordinate = c /\ pairs[n + 1].repetition = r
                BY <2>8, <2>9, <3>2
            <4> QED BY <4>1
        <3> QED BY <2>6, <2>12, <3>1, <3>2
    <2>13. ASSUME NEW i \in 1 .. n + 1, NEW j \in 1 .. n + 1,
                  j = i + 1, pairs[i].coordinate = pairs[j].coordinate
           PROVE  pairs[j].repetition = pairs[i].repetition + 1
        <3>1. CASE j \in 1 .. n
            <4>1. i \in 1 .. n
                BY <2>13, <3>1
            <4>2. pairs[i] = run.pairs[i] /\ pairs[j] = run.pairs[j]
                BY <2>8, <3>1, <4>1
            <4>3. i \in DOMAIN run.pairs /\ j \in DOMAIN run.pairs
                BY <2>8, <3>1, <4>1
            <4>4. run.pairs[j].repetition = run.pairs[i].repetition + 1
                BY <1>2, <2>13, <4>2, <4>3 DEF ScheduleHolds
            <4> QED BY <4>2, <4>4
        <3>2. CASE j = n + 1
            <4>1. i = n /\ i \in 1 .. n
                BY <2>13, <3>2
            <4>2. pairs[i] = run.pairs[i] /\ pairs[j] = p
                BY <2>8, <3>2, <4>1
            <4>3. run.pairs[i].coordinate = run.coordinate
                BY <2>9, <2>13, <4>2
            <4>4. run.repetition = run.pairs[i].repetition + 1
                BY <1>2, <2>8, <4>1, <4>3 DEF ScheduleHolds
            <4> QED BY <2>9, <4>2, <4>4
        <3> QED BY <3>1, <3>2
    <2>14. pairs[n + 1].coordinate = run'.coordinate =>
              run'.repetition = pairs[n + 1].repetition + 1
        BY <2>6, <2>8, <2>9
    <2>15. ASSUME NEW i \in 1 .. n + 1, NEW j \in 1 .. n + 1, i < j,
                  NEW m \in Implementations, NEW o \in Implementations
           PROVE  pairs[i].implementations[m].started < pairs[j].implementations[o].started
        <3>1. i \in 1 .. n /\ pairs[i] = run.pairs[i]
            BY <2>8, <2>15
        <3>2. CASE j \in 1 .. n
            <4>1. pairs[j] = run.pairs[j]
                BY <2>8, <3>2
            <4> QED BY <1>2, <2>8, <2>15, <3>1, <3>2, <4>1 DEF ScheduleHolds
        <3>3. CASE j = n + 1
            <4>1. pairs[j].implementations = run.done
                BY <2>8, <2>9, <3>3
            <4> QED BY <2>5, <2>8, <3>1, <4>1 DEF FollowsThePairs
        <3> QED BY <3>2, <3>3
    <2>16. ScheduleHolds'
        <3>1. /\ IsSequence(run'.pairs) /\ DOMAIN run'.pairs = 1 .. n + 1
              /\ Len(run'.pairs) = n + 1 /\ run'.pairs = pairs
            BY <2>4, <2>8
        <3>2. \A i \in DOMAIN run'.pairs : IsPair(pairs[i])'
            BY <2>11, <3>1
        <3>3. \A c \in Coordinates, r \in 0 .. Repetitions - 1 :
                Passed(c, r)' => \E i \in DOMAIN run'.pairs :
                    run'.pairs[i].coordinate = c /\ run'.pairs[i].repetition = r
            BY <2>12, <3>1
        <3>4. \A i, j \in DOMAIN run'.pairs :
                (j = i + 1 /\ run'.pairs[i].coordinate = run'.pairs[j].coordinate) =>
                    run'.pairs[j].repetition = run'.pairs[i].repetition + 1
            BY <2>13, <3>1
        <3>5. \A i \in DOMAIN run'.pairs :
                (i = Len(run'.pairs) /\ run'.pairs[i].coordinate = run'.coordinate) =>
                    run'.repetition = run'.pairs[i].repetition + 1
            BY <2>14, <3>1
        <3>6. \A i, j \in DOMAIN run'.pairs : i < j =>
                \A m, o \in Implementations :
                    run'.pairs[i].implementations[m].started
                        < run'.pairs[j].implementations[o].started
            BY <2>15, <3>1
        <3> QED BY <3>1, <3>2, <3>3, <3>4, <3>5, <3>6 DEF ScheduleHolds
    <2>17. PairHolds'
        <3>1. DOMAIN run'.done = {} /\ run'.at = "next"
            BY <2>4
        <3>2. DOMAIN run'.done # Implementations
            BY <3>1 DEF Implementations
        <3> QED BY <3>1, <3>2 DEF PairHolds
    <2>18. ResultHolds'
        BY <2>4 DEF ResultHolds
    <2> QED BY <1>3, <2>7, <2>16, <2>17, <2>18 DEF IInv
<1> QED BY <1>5, <1>6

(* A step of the parent after the last pair: it changes neither what has been *)
(* kept nor the world.                                                        *)
LEMMA ParentEnds ==
    ASSUME IInv, UNCHANGED <<world, worker, sampler, size, faults>>, DOMAIN run' = RunFields,
           run'.at \in {"validate", "write", "written", "reported", "unreported", "failed"},
           run'.pairs = run.pairs, run'.coordinate = run.coordinate,
           run'.repetition = run.repetition, ResultHolds'
    PROVE  IInv'
<1>1. ProcessHolds'
    BY DEF IInv, ProcessHolds, CensusHolds, SamplerHolds
<1>2. ParentHolds'
    BY DEF IInv, ParentHolds
<1>3. ScheduleHolds'
    BY CandidateStays, ScheduleStays DEF IInv, ParentHolds
<1>4. PairHolds'
    BY DEF PairHolds
<1> QED BY <1>1, <1>2, <1>3, <1>4 DEF IInv

(* The result is built when the loops have ended.                             *)
LEMMA BuildResultKeeps ==
    ASSUME IInv, BuildResult
    PROVE  IInv'
<1>1. PICK result : result = [candidate |-> 1, workload |-> world.workload, pool |-> run.pool,
                              pairs |-> run.pairs, eligibility |-> Gate]
    OBVIOUS
<1>2. /\ run' = [run EXCEPT !.at = "validate", !.result = result]
      /\ run.coordinate \notin Coordinates /\ UNCHANGED <<world, worker, sampler, size, faults>>
    BY <1>1 DEF BuildResult
<1>3. /\ DOMAIN run' = RunFields /\ run'.at = "validate" /\ run'.result = result
      /\ run'.pairs = run.pairs /\ run'.coordinate = run.coordinate
      /\ run'.repetition = run.repetition
    BY <1>2 DEF IInv, ParentHolds, RunFields
<1>4. run.coordinate = Last
    <2>1. run.coordinate \in 0 .. Last /\ run.coordinate \notin 0 .. Last - 1
        BY <1>2, CoordinatesAreCounted DEF IInv, ParentHolds
    <2>2. Last \in Nat
        BY CoordinatesAreCounted
    <2> QED BY <2>1, <2>2
<1>5. result.pairs = run.pairs /\ result.candidate = 1
    BY <1>1
<1>6. ResultHolds'
    BY <1>3, <1>4, <1>5 DEF ResultHolds
<1> QED BY <1>2, <1>3, <1>6, ParentEnds

(* A result that validates was measured on one candidate, unless one was put  *)
(* back: the one it names is the one found now.                               *)
(* The input of every process is compared with the result's.                  *)
LEMMA ValidatedResultsAreOfOneCandidate ==
    ASSUME IInv, run.at = "validate", Validates(run.result),
           NEW i \in DOMAIN run.pairs, NEW m \in Implementations
    PROVE  /\ ~Restored => run.pairs[i].implementations[m].artifact = 1
           /\ run.pairs[i].implementations[m].input = run.result.workload
<1>1. run.result.pairs = run.pairs /\ run.result.candidate = 1
    BY DEF IInv, ResultHolds
<1>2. world.candidate = 1
    BY <1>1 DEF Validates, EligibilityAgrees
<1>3. IsMeasured(run.pairs[i].implementations[m])
    BY DEF IInv, ScheduleHolds, IsPair
<1>4. \E c : RecordAgrees(run.pairs[i].implementations[m], m, c, run.result)
    BY <1>1 DEF Validates, BindingsAgree
<1>5. run.pairs[i].implementations[m].input = run.result.workload
    BY <1>4 DEF RecordAgrees
<1> QED BY <1>2, <1>3, <1>5 DEF IsMeasured, Same

(* A result that does not validate is not written.                            *)
LEMMA ValidateResultKeeps ==
    ASSUME IInv, ValidateResult
    PROVE  IInv'
<1>1. PICK to : to = IF Validates(run.result) THEN "write" ELSE "failed"
    OBVIOUS
<1>2. /\ run.at = "validate" /\ run' = [run EXCEPT !.at = to]
      /\ UNCHANGED <<world, worker, sampler, size, faults>>
    BY <1>1 DEF ValidateResult
<1>3. /\ DOMAIN run' = RunFields /\ run'.at = to /\ run'.result = run.result
      /\ run'.pairs = run.pairs /\ run'.coordinate = run.coordinate
      /\ run'.repetition = run.repetition
    BY <1>2 DEF IInv, ParentHolds, RunFields
<1>4. ResultHolds'
    <2>1. CASE Validates(run.result)
        <3>1. /\ run.result.pairs = run.pairs /\ run.result.candidate = 1
              /\ run.coordinate = Last
            BY <1>2 DEF IInv, ResultHolds
        <3>2. \A i \in DOMAIN run.pairs : \A m \in Implementations :
                /\ ~Restored => run.pairs[i].implementations[m].artifact = 1
                /\ run.pairs[i].implementations[m].input = run.result.workload
            BY <1>2, <2>1, ValidatedResultsAreOfOneCandidate
        <3>3. Restored => Restored'
            BY <1>2 DEF Restored
        <3> QED BY <1>3, <3>1, <3>2, <3>3 DEF ResultHolds
    <2>2. CASE ~Validates(run.result)
        <3>1. to = "failed"
            BY <1>1, <2>2
        <3> QED BY <1>3, <3>1 DEF ResultHolds
    <2> QED BY <2>1, <2>2
<1>5. to \in {"write", "failed"}
    BY <1>1
<1> QED BY <1>2, <1>3, <1>4, <1>5, ParentEnds

(* Writing and rendering move on with the same result.                        *)
LEMMA ResultIsKept ==
    ASSUME IInv, run.at \in {"write", "written"},
           NEW to \in {"written", "reported", "unreported"}, run' = [run EXCEPT !.at = to],
           UNCHANGED <<world, worker, sampler, size, faults>>
    PROVE  IInv'
<1>1. /\ DOMAIN run' = RunFields /\ run'.at = to /\ run'.result = run.result
      /\ run'.pairs = run.pairs /\ run'.coordinate = run.coordinate
      /\ run'.repetition = run.repetition
    BY DEF IInv, ParentHolds, RunFields
<1>2. ResultHolds'
    BY <1>1 DEF IInv, ResultHolds, Restored
<1> QED BY <1>1, <1>2, ParentEnds

(* The initial states satisfy the invariant.                                  *)
LEMMA InvariantInitially == Init => IInv
<1> SUFFICES ASSUME Init PROVE IInv
    OBVIOUS
<1>1. PICK s \in Settings :
        /\ run = [at |-> "next", pool |-> s.pool, wall |-> s.wall, coordinate |-> 0,
                  repetition |-> 0, done |-> <<>>, pairs |-> <<>>, result |-> None]
        /\ world = [workload |-> 1, candidate |-> 1, report |-> s.report, started |-> 0,
                    pids |-> {}]
    BY DEF Init
<1>2. /\ DOMAIN run = RunFields /\ run.at = "next" /\ run.coordinate = 0
      /\ run.repetition = 0 /\ run.done = <<>> /\ run.pairs = <<>>
    BY <1>1 DEF RunFields
<1>3. DOMAIN world = WorldFields /\ world.started = 0 /\ world.candidate = 1
    BY <1>1 DEF WorldFields
<1>4. ProcessHolds
    BY IdleHolds DEF Init, WorkerInit
<1>5. ParentHolds
    <2>1. 0 \in 0 .. Last /\ 0 \in 0 .. Repetitions - 1
        BY CoordinatesAreCounted
    <2> QED BY <1>2, <1>3, <2>1 DEF ParentHolds
<1>6. ScheduleHolds
    <2>1. run.pairs \in Seq({}) /\ DOMAIN run.pairs = {}
        BY <1>2
    <2>2. IsSequence(run.pairs)
        BY <2>1 DEF IsSequence
    <2>3. \A c \in Coordinates, r \in 0 .. Repetitions - 1 : ~Passed(c, r)
        BY <1>2, CoordinatesAreCounted DEF Passed
    <2> QED BY <2>1, <2>2, <2>3 DEF ScheduleHolds
<1>7. PairHolds
    <2>1. DOMAIN run.done = {} /\ run.at = "next"
        BY <1>2
    <2>2. DOMAIN run.done # Implementations
        BY <2>1 DEF Implementations
    <2> QED BY <2>1, <2>2 DEF PairHolds
<1>8. ResultHolds
    BY <1>2 DEF ResultHolds
<1> QED BY <1>4, <1>5, <1>6, <1>7, <1>8 DEF IInv

(* What goes on around the benchmark.                                         *)
LEMMA InterferenceKeeps ==
    ASSUME IInv, Interference
    PROVE  IInv'
<1>0. DOMAIN world = WorldFields /\ world.candidate \in {1, 2}
    BY DEF IInv, ParentHolds
<1>1. CASE WorkloadChanges \/ CandidateChanges \/ CandidateIsRestored \/ ReportChanges
    <2>1. UNCHANGED <<run, worker, sampler, size>>
        BY <1>1 DEF WorkloadChanges, CandidateChanges, CandidateIsRestored, ReportChanges
    <2>2. \/ world' = [world EXCEPT !.workload = 2]
          \/ world' = [world EXCEPT !.candidate = 2]
          \/ world' = [world EXCEPT !.candidate = 1] /\ "restored" \in faults'
          \/ world' = [world EXCEPT !.report = "replaced"]
        BY <1>1 DEF WorkloadChanges, CandidateChanges, CandidateIsRestored, ReportChanges
    <2>3. /\ DOMAIN world' = WorldFields /\ world'.started = world.started
          /\ world'.candidate \in {1, 2}
          /\ \/ world'.candidate = world.candidate
             \/ world'.candidate = 2
             \/ "restored" \in faults'
        BY <1>0, <2>2 DEF WorldFields
    <2>3a. Noticed
        <3>1. faults \subseteq faults'
            BY FaultsAreKept
        <3> QED BY <2>3, <3>1 DEF Noticed, Same, Restored
    <2>4. ProcessHolds'
        BY <2>1 DEF IInv, ProcessHolds, CensusHolds, SamplerHolds
    <2>5. worker # Idle => worker' # Idle /\ SameLaunch
        BY <2>1 DEF SameLaunch
    <2> QED BY <2>1, <2>3, <2>3a, <2>4, <2>5, RunIsLeftAlone DEF IInv
<1>2. CASE WorkerDies
    <2>1. Raise /\ worker # Idle /\ UNCHANGED <<run, world, sampler, size>>
        BY <1>2 DEF WorkerDies, Running, Idle
    <2>2. ProcessHolds' /\ worker' # Idle /\ SameLaunch
        BY <2>1, RaiseKeeps DEF IInv
    <2>3. Noticed
        BY <2>1, FaultsAreKept, CandidateStays
    <2> QED BY <1>0, <2>1, <2>2, <2>3, RunIsLeftAlone DEF IInv
<1> QED BY <1>1, <1>2 DEF Interference

(* A step of the process, or of its census thread.                            *)
LEMMA ChildStepKeeps ==
    ASSUME IInv, ChildStep
    PROVE  IInv'
<1>0. DOMAIN world = WorldFields /\ world.candidate \in {1, 2} /\ UNCHANGED <<run, world>>
    BY DEF IInv, ParentHolds, ChildStep
<1>0a. Noticed
    <2>1. faults \subseteq faults'
        BY FaultsAreKept DEF ChildStep
    <2> QED BY <1>0, <2>1, CandidateStays
<1>1. CASE MainStep
    <2>1. ProcessHolds' /\ worker' # Idle /\ SameLaunch
        BY <1>1, MainStepKeeps DEF IInv
    <2> QED BY <1>0, <1>0a, <2>1, RunIsLeftAlone DEF IInv
<1>2. CASE SamplerStep
    <2>1. ProcessHolds' /\ UNCHANGED worker
        BY <1>2, SamplerStepKeeps DEF IInv
    <2>2. worker # Idle => worker' # Idle /\ SameLaunch
        BY <2>1 DEF SameLaunch
    <2> QED BY <1>0, <1>0a, <2>1, <2>2, RunIsLeftAlone DEF IInv
<1> QED BY <1>1, <1>2 DEF ChildStep

(* Every step keeps the invariant.                                            *)
LEMMA InvariantKept == IInv /\ [Next]_vars => IInv'
<1> SUFFICES ASSUME IInv, [Next]_vars PROVE IInv'
    OBVIOUS
<1>1. CASE StartWorker
    BY <1>1, StartWorkerKeeps
<1>2. CASE CollectWorker
    BY <1>2, CollectWorkerKeeps
<1>3. CASE WorkerFailed
    <2>1. /\ run' = [run EXCEPT !.at = "failed"]
          /\ UNCHANGED <<world, worker, sampler, size, faults>>
        BY <1>3 DEF WorkerFailed
    <2>2. /\ DOMAIN run' = RunFields /\ run'.at = "failed" /\ run'.pairs = run.pairs
          /\ run'.coordinate = run.coordinate /\ run'.repetition = run.repetition
        BY <2>1 DEF IInv, ParentHolds, RunFields
    <2>3. ResultHolds'
        BY <2>2 DEF ResultHolds
    <2> QED BY <2>1, <2>2, <2>3, ParentEnds
<1>4. CASE KeepPair
    BY <1>4, KeepPairKeeps
<1>5. CASE BuildResult
    BY <1>5, BuildResultKeeps
<1>6. CASE ValidateResult
    BY <1>6, ValidateResultKeeps
<1>7. CASE WriteResult
    <2>1. /\ run.at = "write" /\ run' = [run EXCEPT !.at = "written"]
          /\ UNCHANGED <<world, worker, sampler, size, faults>>
        BY <1>7 DEF WriteResult
    <2> QED BY <2>1, ResultIsKept
<1>8. CASE RenderReport
    <2>1. PICK to \in {"written", "reported", "unreported"} :
              to = IF Validates(run.result) THEN "reported" ELSE "unreported"
        OBVIOUS
    <2>2. /\ run.at = "written" /\ run' = [run EXCEPT !.at = to]
          /\ UNCHANGED <<world, worker, sampler, size, faults>>
        BY <1>8, <2>1 DEF RenderReport
    <2> QED BY <2>2, ResultIsKept
<1>9. CASE ChildStep
    BY <1>9, ChildStepKeeps
<1>10. CASE Interference
    BY <1>10, InterferenceKeeps
<1>11. CASE Finished \/ UNCHANGED vars
    <2>1. UNCHANGED <<run, world, worker, sampler, size, faults>>
        BY <1>11 DEF Finished, vars
    <2>2. ProcessHolds'
        BY <2>1 DEF IInv, ProcessHolds, CensusHolds, SamplerHolds
    <2>3. worker # Idle => worker' # Idle /\ SameLaunch
        BY <2>1 DEF SameLaunch
    <2>4. DOMAIN world = WorldFields /\ world.candidate \in {1, 2}
        BY DEF IInv, ParentHolds
    <2>5. Noticed
        BY <2>1, CandidateStays
    <2> QED BY <2>1, <2>2, <2>3, <2>4, <2>5, RunIsLeftAlone DEF IInv
<1> QED BY <1>1, <1>2, <1>3, <1>4, <1>5, <1>6, <1>7, <1>8, <1>9, <1>10, <1>11
        DEF Next, ParentStep

-------------------------------------------------------------------------------
(* The pairs of a result that has been written are the schedule.              *)
LEMMA WrittenPairsAreTheSchedule ==
    ASSUME IInv, run.at \in {"written", "reported", "unreported"}
    PROVE  {<<run.pairs[i].coordinate, run.pairs[i].repetition>> : i \in DOMAIN run.pairs}
             = Coordinates \X (0 .. Repetitions - 1)
<1>1. ASSUME NEW i \in DOMAIN run.pairs
      PROVE  /\ run.pairs[i].coordinate \in Coordinates
             /\ run.pairs[i].repetition \in 0 .. Repetitions - 1
    BY <1>1 DEF IInv, ScheduleHolds, IsPair
<1>2. ASSUME NEW c \in Coordinates, NEW r \in 0 .. Repetitions - 1
      PROVE  \E i \in DOMAIN run.pairs :
                run.pairs[i].coordinate = c /\ run.pairs[i].repetition = r
    <2>1. Passed(c, r)
        <3>1. run.coordinate = Last
            BY DEF IInv, ResultHolds
        <3> QED BY <1>2, <3>1, CoordinatesAreCounted DEF Passed
    <2> QED BY <1>2, <2>1 DEF IInv, ScheduleHolds
<1> QED BY <1>1, <1>2

(* No two processes of a run started at once.                                 *)
LEMMA ProcessesAreDistinct ==
    ASSUME ScheduleHolds, NEW i \in DOMAIN run.pairs, NEW j \in DOMAIN run.pairs,
           NEW m \in Implementations, NEW n \in Implementations,
           run.pairs[i].implementations[m].started = run.pairs[j].implementations[n].started
    PROVE  i = j /\ m = n
<1>1. i \in Nat /\ j \in Nat
    <2>1. DOMAIN run.pairs = 1 .. Len(run.pairs) /\ Len(run.pairs) \in Nat
        BY OneMore DEF ScheduleHolds
    <2> QED BY <2>1
<1>2. PICK a \in Nat, b \in Nat :
        /\ a = run.pairs[i].implementations[m].started
        /\ b = run.pairs[j].implementations[n].started
    BY DEF ScheduleHolds, IsPair, IsMeasured
<1>3. ~(i < j) /\ ~(j < i)
    <2>1. i < j => a < b
        BY <1>2 DEF ScheduleHolds
    <2>2. j < i => b < a
        BY <1>2 DEF ScheduleHolds
    <2> QED BY <1>2, <2>1, <2>2
<1>4. i = j
    BY <1>1, <1>3
<1>5. m = n
    <2>1. PICK p : p = run.pairs[i] /\ IsPair(p)
        BY DEF ScheduleHolds
    <2>2. PICK first \in Implementations : first = First(p.coordinate)[p.repetition]
        BY <2>1, OrdersAlternate DEF IsPair
    <2>3. p.order[1] = first /\ p.order[2] = Other(first)
        <3>1. p.order = <<first, Other(first)>>
            BY <2>1, <2>2, Zenon DEF IsPair
        <3> QED BY <3>1
    <2>4. p.implementations[first].started < p.implementations[Other(first)].started
        BY <2>1, <2>3 DEF IsPair
    <2>5. Other(first) \in Implementations
        BY <2>2, ImplementationsAreTwo
    <2>6. /\ p.implementations[first].started \in Nat
          /\ p.implementations[Other(first)].started \in Nat
        BY <2>1, <2>2, <2>5 DEF IsPair, IsMeasured
    <2>7. m \in {first, Other(first)} /\ n \in {first, Other(first)}
        BY <2>2, ImplementationsAreTwo
    <2>8. p.implementations[m].started = p.implementations[n].started
        BY <1>4, <2>1
    <2>9. p.implementations[first].started # p.implementations[Other(first)].started
        BY <2>4, <2>6
    <2> QED BY <2>7, <2>8, <2>9
<1> QED BY <1>4, <1>5

(* Of three repetitions or more, two that follow each other differ in order.  *)
LEMMA NeighboursDiffer ==
    ASSUME ScheduleHolds, Repetitions > 2, NEW i \in DOMAIN run.pairs,
           NEW j \in DOMAIN run.pairs, j = i + 1,
           run.pairs[i].coordinate = run.pairs[j].coordinate
    PROVE  run.pairs[i].order # run.pairs[j].order
<1>1. PICK p, q : p = run.pairs[i] /\ q = run.pairs[j] /\ IsPair(p) /\ IsPair(q)
    BY DEF ScheduleHolds
<1>2. q.repetition = p.repetition + 1 /\ q.coordinate = p.coordinate
    BY <1>1 DEF ScheduleHolds
<1>3. PICK c, r : c = p.coordinate /\ r = q.repetition
    OBVIOUS
<1>4. r \in 0 .. Repetitions - 1 /\ r > 0 /\ p.repetition = r - 1
    <2>1. /\ p.repetition \in 0 .. Repetitions - 1 /\ q.repetition \in 0 .. Repetitions - 1
          /\ Repetitions \in Nat
        BY <1>1, RunAssumption DEF IsPair
    <2>2. PICK a \in Nat : a = p.repetition /\ q.repetition = a + 1
        BY <1>2, <2>1
    <2> QED BY <1>3, <2>1, <2>2
<1>5. First(c)[r] # First(c)[r - 1]
    BY <1>4, OrdersAlternate
<1>6. p.order[1] = First(c)[r - 1] /\ q.order[1] = First(c)[r]
    <2>1. p.order[1] = First(p.coordinate)[p.repetition]
        <3>1. PICK first : first = First(p.coordinate)[p.repetition]
            OBVIOUS
        <3>2. p.order = <<first, Other(first)>>
            BY <1>1, <3>1 DEF IsPair
        <3> QED BY <3>1, <3>2
    <2>2. q.order[1] = First(q.coordinate)[q.repetition]
        <3>1. PICK first : first = First(q.coordinate)[q.repetition]
            OBVIOUS
        <3>2. q.order = <<first, Other(first)>>
            BY <1>1, <3>1 DEF IsPair
        <3> QED BY <3>1, <3>2
    <2> QED BY <1>2, <1>3, <1>4, <2>1, <2>2
<1> QED BY <1>1, <1>5, <1>6

(* The invariant implies that a census is taken after the call.               *)
LEMMA InvariantTellsTheCensus == IInv => RetainedIsReadAfterTheCall
BY DEF IInv, ProcessHolds, CensusHolds, RetainedIsReadAfterTheCall

(* A written result is the schedule that was run.                             *)
LEMMA InvariantTellsTheSchedule == IInv => WrittenResultsFollowTheSchedule
<1> SUFFICES ASSUME IInv, run.at \in {"written", "reported", "unreported"}
             PROVE  WrittenResultsFollowTheSchedule
    BY DEF WrittenResultsFollowTheSchedule
<1>1. PICK pairs : pairs = run.pairs
    OBVIOUS
<1>2. run.result.pairs = pairs /\ run.result.candidate = 1 /\ ScheduleHolds
    BY <1>1 DEF IInv, ResultHolds
<1>3. {<<pairs[i].coordinate, pairs[i].repetition>> : i \in DOMAIN pairs}
        = Coordinates \X (0 .. Repetitions - 1)
    BY <1>1, WrittenPairsAreTheSchedule
<1>4. ASSUME NEW i \in DOMAIN pairs
      PROVE  RecordAt(pairs, <<i, pairs[i].order[1]>>).started
               < RecordAt(pairs, <<i, pairs[i].order[2]>>).started
    BY <1>1, <1>2, <1>4 DEF ScheduleHolds, IsPair, RecordAt
<1>5. ASSUME NEW k \in Records(pairs), NEW l \in Records(pairs),
             RecordAt(pairs, k).started = RecordAt(pairs, l).started
      PROVE  k = l
    <2>1. PICK i \in DOMAIN pairs, m \in Implementations : k = <<i, m>>
        BY <1>5 DEF Records
    <2>2. PICK j \in DOMAIN pairs, n \in Implementations : l = <<j, n>>
        BY <1>5 DEF Records
    <2>3. pairs[i].implementations[m].started = pairs[j].implementations[n].started
        BY <1>5, <2>1, <2>2 DEF RecordAt
    <2>4. i = j /\ m = n
        BY <1>1, <1>2, <2>3, ProcessesAreDistinct
    <2> QED BY <2>1, <2>2, <2>4
<1>6. ASSUME NEW k \in Records(pairs)
      PROVE  /\ ~Restored => RecordAt(pairs, k).artifact = run.result.candidate
             /\ RecordAt(pairs, k).input = run.result.workload
    <2>1. PICK i \in DOMAIN pairs, m \in Implementations : k = <<i, m>>
        BY <1>6 DEF Records
    <2>2. /\ ~Restored => pairs[i].implementations[m].artifact = 1
          /\ pairs[i].implementations[m].input = run.result.workload
        BY <1>1 DEF IInv, ResultHolds
    <2> QED BY <1>2, <2>1, <2>2 DEF RecordAt
<1>7. ASSUME NEW i \in DOMAIN pairs, NEW j \in DOMAIN pairs, Repetitions > 2,
             j = i + 1, pairs[i].coordinate = pairs[j].coordinate
      PROVE  pairs[i].order # pairs[j].order
    BY <1>1, <1>2, <1>7, NeighboursDiffer
<1> QED BY <1>2, <1>3, <1>4, <1>5, <1>6, <1>7 DEF WrittenResultsFollowTheSchedule

(* The invariant holds in every reachable state.                              *)
THEOREM InvariantHolds == Spec => []IInv
BY InvariantInitially, InvariantKept, PTL DEF Spec

(* Whenever the stop event finds the sampler, the retained size of a census   *)
(* was read after the call had returned, and its peak covers it.              *)
THEOREM CensusIsTakenAfterTheCall == Spec => []RetainedIsReadAfterTheCall
BY InvariantHolds, InvariantTellsTheCensus, PTL

(* Whatever changes or dies while a benchmark runs, a result that was written *)
(* holds the whole schedule, every repetition of it from processes of its     *)
(* own, started in the order recorded, on one workload and, unless one was    *)
(* replaced and put back meanwhile, on one candidate; and of three            *)
(* repetitions or more no order comes twice running.                          *)
THEOREM ResultsFollowTheSchedule == Spec => []WrittenResultsFollowTheSchedule
BY InvariantHolds, InvariantTellsTheSchedule, PTL

==============================================================================
