------------------------------ MODULE D4Capture ------------------------------
(* One capture on each of two hosts: d4_local.py on the arm64 one, and        *)
(* d4_linux.py or the worker of modal_d4.py on the x86_64 one.  All build one *)
(* wheel into a private environment and then follow run_compact_capture of    *)
(* d4_worker.py; they differ in what they attest before and after it.  The    *)
(* local hosts read the checkout while they work, the worker reads the copy   *)
(* of it that its image holds.                                                *)
(*                                                                            *)
(* The checkout, the environment of a host and its allocation are versions: a *)
(* change makes a later one, and what was changed may be brought back to an   *)
(* earlier one at any moment.                                                 *)
EXTENDS D4Archive

CONSTANTS
    Provider,     \* "local", "local_linux" or "modal" for each host
    FaultKinds,   \* what may go wrong, of the kinds the actions below name
    MaxFaults,    \* bound on how often anything goes wrong in a behaviour
    ClockStep,    \* how far a clock is set back
    Versions,     \* what the files of the checkout may be
    WorkloadOf,   \* the benchmark workload among those files, per version
    ListedOf      \* the files a conformance report compares with its commit

Hosts == {"arm64", "x86_64"}

ASSUME ProviderAssumption ==
    /\ Provider \in [Hosts -> {"local", "local_linux", "modal"}]
    /\ Provider["arm64"] = "local"

ASSUME FaultsAssumption == MaxFaults \in Nat /\ ClockStep \in Nat

ASSUME VersionsAssumption ==
    /\ Versions \subseteq Nat \ {0} /\ 1 \in Versions
    /\ DOMAIN WorkloadOf = Versions /\ DOMAIN ListedOf = Versions

VARIABLES
    capture,      \* per host: its place in the plan, its surroundings, its artifact
    checkout,     \* commit and working tree of the repository, as versions
    disk,         \* the archives that were written, and the unvalidated payload
    faults        \* the kinds of what has gone wrong, and how often anything has

captureVars == <<capture, checkout, disk, faults>>

Fault(kind) ==
    /\ kind \in FaultKinds /\ faults.times < MaxFaults
    /\ faults' = [kinds |-> faults.kinds \cup {kind}, times |-> faults.times + 1]

(* Something is put right again.  This takes nothing from the bound: each     *)
(* time brings back an earlier version, and only a fault makes a later one.   *)
Restoration(kind) ==
    /\ kind \in FaultKinds
    /\ faults' = [kinds |-> faults.kinds \cup {kind}, times |-> faults.times]

-------------------------------------------------------------------------------
(* A step of the capture, and one that needs no name.                         *)
Step(does, of) == [does |-> does, of |-> of]
Whole(does) == Step(does, "none")

(* The three steps of every budget, one budget after the other.               *)
TimedMatrix ==
    [k \in 1..(3 * Len(Budgets)) |->
        LET t == Budgets[(k + 2) \div 3] IN
        <<Step("check", <<"before", t>>), Step("benchmark", t),
          Step("check", <<"after", t>>)>>[((k - 1) % 3) + 1]]

(* run_compact_capture.                                                       *)
CompactCapture ==
    <<Whole("baseline"), Step("check", <<"before", "pre">>), Step("conform", "pre"),
      Step("check", <<"after", "pre">>)>>
    \o TimedMatrix
    \o <<Step("check", <<"before", "post">>), Step("conform", "post"),
         Step("check", <<"after", "post">>), Whole("finish")>>

Prologue(provider) ==
    CASE provider = "local" -> <<Whole("start"), Whole("build")>>
      [] provider = "local_linux" ->
            <<Whole("start"), Step("attest", "pre"), Whole("build")>>
      [] provider = "modal" ->
            <<Whole("upload"), Step("attest", "pre"), Whole("start"), Whole("build")>>

Epilogue(provider) ==
    CASE provider = "local" -> <<Step("check", <<"before", "archive">>)>>
      [] provider = "local_linux" ->
            <<Step("attest", "post"), Step("check", <<"before", "archive">>)>>
      [] provider = "modal" ->
            <<Step("check", <<"before", "archive">>), Step("attest", "post")>>

PlanOf == [h \in Hosts |->
    Prologue(Provider[h]) \o CompactCapture \o <<Whole("record")>>
        \o Epilogue(Provider[h]) \o <<Whole("provenance"), Whole("archive")>>]

-------------------------------------------------------------------------------
NoArtifact ==
    [source |-> 0, started |-> 0, created |-> 0, completed |-> 0, masks |-> 0, wheel |-> 0,
     build |-> [wheel |-> 0, reconciled |-> FALSE], checkpoints |-> <<>>, reports |-> <<>>,
     results |-> <<>>, noise |-> <<>>, failures |-> {}, members |-> {}]

NoImage == [head |-> 0, tree |-> 0]

(* The clocks start far enough from zero for every step back.                 *)
CaptureInit ==
    /\ capture = [h \in Hosts |->
        [at |-> 0, failed |-> FALSE, clock |-> ClockStep * MaxFaults, environment |-> 1,
         baseline |-> 0, allocation |-> 1, image |-> NoImage, workspace |-> FALSE,
         artifact |-> NoArtifact]]
    /\ checkout = [head |-> 1, tree |-> 1]
    /\ disk = [archive |-> [h \in Hosts |-> <<>>], unvalidated |-> <<>>]
    /\ faults = [kinds |-> {}, times |-> 0]

Complete(h) == capture[h].at > Len(PlanOf[h])
Working(h) == ~capture[h].failed /\ capture[h].at \in DOMAIN PlanOf[h]
Does(h, what) == Working(h) /\ PlanOf[h][capture[h].at].does = what
Subject(h) == PlanOf[h][capture[h].at].of

(* The files a host builds and measures from.                                 *)
Tree(h) == IF Provider[h] = "modal" THEN capture[h].image ELSE checkout

(* A file is written under a name: one of that name is replaced.              *)
With(files, name, file) ==
    [n \in DOMAIN files \cup {name} |-> IF n = name THEN file ELSE files[n]]

Artifact(h) == capture[h].artifact
Clock(h) == capture[h].clock

Progress(h, artifact) ==
    /\ capture' = [capture EXCEPT ![h].at = @ + 1, ![h].clock = @ + 1,
                                  ![h].artifact = artifact]
    /\ UNCHANGED <<checkout, disk>>

Fails(h) ==
    /\ capture' = [capture EXCEPT ![h].failed = TRUE]
    /\ UNCHANGED <<checkout, disk>>

-------------------------------------------------------------------------------
(* Both local scripts begin with a clean checkout whose files are those of    *)
(* its commit; they do not look at it again.                                  *)
Identify(h) ==
    /\ Provider[h] # "modal"
    /\ capture[h].at = 0 /\ ~capture[h].failed
    /\ IF checkout.tree # checkout.head
       THEN Fails(h)
       ELSE Progress(h, [Artifact(h) EXCEPT !.source = checkout.head])
    /\ UNCHANGED faults

(* Mutated form: the worker takes its files as they came.                     *)
TakeUpload(h) ==
    /\ Does(h, "upload")
    /\ Progress(h, Artifact(h))
    /\ UNCHANGED faults

(* The worker compares its files with the identity the controller sent.       *)
VerifyUpload(h) ==
    /\ Does(h, "upload")
    /\ IF capture[h].image.tree # Artifact(h).source THEN Fails(h) ELSE Progress(h, Artifact(h))
    /\ UNCHANGED faults

(* The workspace is made just after the capture has started.                  *)
Start(h) ==
    /\ Does(h, "start")
    /\ capture' = [capture EXCEPT ![h].at = @ + 1, ![h].clock = @ + 1,
                                  ![h].workspace = TRUE, ![h].artifact.started = Clock(h)]
    /\ UNCHANGED <<checkout, disk, faults>>

(* The allocation, with a run that shows the processor masks to be enforced.  *)
(* d4_linux.py keeps the output of both runs beside the other logs.           *)
Controls(h) == IF Provider[h] = "local_linux" THEN {<<"controls", Subject(h)>>} ELSE {}

AttestBefore(h) ==
    /\ Does(h, "attest") /\ Subject(h) = "pre"
    /\ Progress(h, [Artifact(h) EXCEPT !.masks = capture[h].allocation,
                                       !.members = @ \cup Controls(h)])
    /\ UNCHANGED faults

AttestAfter(h) ==
    /\ Does(h, "attest") /\ Subject(h) = "post"
    /\ IF capture[h].allocation # Artifact(h).masks
       THEN Fails(h)
       ELSE Progress(h, [Artifact(h) EXCEPT !.members = @ \cup Controls(h)])
    /\ UNCHANGED faults

(* The environment, the wheel built from the files as they are now and        *)
(* installed from its retained copy, compared with what the runtime reports.  *)
Build(h) ==
    /\ Does(h, "build")
    /\ Progress(h, [Artifact(h) EXCEPT !.wheel = Tree(h).tree,
                                       !.members = @ \cup {<<"wheel">>, <<"logs">>}])
    /\ UNCHANGED faults

(* The beginning of run_compact_capture: build.json and the baseline of       *)
(* initialize_private_environment_integrity.                                  *)
Baseline(h) ==
    /\ Does(h, "baseline")
    /\ capture' = [capture EXCEPT
            ![h].at = @ + 1, ![h].clock = @ + 1, ![h].baseline = capture[h].environment,
            ![h].artifact.build.wheel = Artifact(h).wheel,
            ![h].artifact.checkpoints =
                <<[name |-> <<"after", "install">>, matches |-> TRUE]>>,
            ![h].artifact.members = @ \cup {<<"build">>, <<"integrity">>}]
    /\ UNCHANGED <<checkout, disk, faults>>

Matches(h) == capture[h].environment = capture[h].baseline

(* Mutated form: a checkpoint before a step takes the baseline again.         *)
CheckpointFreezes(h) ==
    /\ Does(h, "check")
    /\ Matches(h) \/ Subject(h)[1] = "before"
    /\ capture' = [capture EXCEPT
            ![h].at = @ + 1, ![h].clock = @ + 1, ![h].baseline = capture[h].environment,
            ![h].artifact.checkpoints = Append(@, [name |-> Subject(h), matches |-> TRUE])]
    /\ UNCHANGED <<checkout, disk, faults>>

(* verify_private_environment_integrity: the checkpoint is written whether it *)
(* matches or not, and a mismatch ends the capture.                           *)
Checkpoint(h) ==
    /\ Does(h, "check")
    /\ LET artifact == [Artifact(h) EXCEPT !.checkpoints =
                           Append(@, [name |-> Subject(h), matches |-> Matches(h)])]
       IN  IF Matches(h)
           THEN Progress(h, artifact)
           ELSE /\ capture' = [capture EXCEPT ![h].failed = TRUE, ![h].artifact = artifact]
                /\ UNCHANGED <<checkout, disk>>
    /\ UNCHANGED faults

(* A conformance run names the commit it finds.  Its validation compares two  *)
(* source files with that commit, so it notices some uncommitted changes.     *)
Conform(h) ==
    /\ Does(h, "conform")
    /\ IF ListedOf[Tree(h).tree] # ListedOf[Tree(h).head]
       THEN Fails(h)
       ELSE Progress(h, [Artifact(h) EXCEPT
              !.reports = With(@, Subject(h), [revision |-> Tree(h).head,
                                               wheel |-> Artifact(h).wheel,
                                               created |-> Clock(h)]),
              !.members = @ \cup {<<"conformance", Subject(h)>>}])
    /\ UNCHANGED faults

(* The benchmark of one thread budget, from the workload that is read now.    *)
Result(h, speed) ==
    [budget |-> Subject(h), created |-> Clock(h), speed |-> speed,
     wheel |-> Artifact(h).wheel, masks |-> Artifact(h).masks,
     conformance |-> Artifact(h).reports["pre"], workload |-> WorkloadOf[Tree(h).tree],
     undisturbed |-> capture[h].environment = 1 /\ capture[h].allocation = 1]

Measured(h, result) ==
    [Artifact(h) EXCEPT !.results = With(@, Subject(h), result),
                        !.noise = With(@, Subject(h), Noise(result)),
                        !.members = @ \cup {<<"benchmark", Subject(h)>>, <<"noise", Subject(h)>>}]

(* Mutated form: a missed bound ends the capture.                             *)
BenchmarkMustPass(h) ==
    /\ Does(h, "benchmark")
    /\ \E speed \in {"met", "noisy", "slow"} :
        /\ IF speed = "met" THEN UNCHANGED faults ELSE Fault("miss")
        /\ IF speed = "noisy" THEN Fails(h) ELSE Progress(h, Measured(h, Result(h, speed)))

(* A missed bound is written down and ends nothing.                           *)
Benchmark(h) ==
    /\ Does(h, "benchmark")
    /\ \E speed \in {"met", "noisy", "slow"} :
        /\ IF speed = "met" THEN UNCHANGED faults ELSE Fault("miss")
        /\ Progress(h, Measured(h, Result(h, speed)))

(* The end of run_compact_capture: failures.json and capture.json.            *)
Finish(h) ==
    /\ Does(h, "finish")
    /\ Progress(h, [Artifact(h) EXCEPT !.failures = FailuresOf(Artifact(h).noise),
                                       !.created = Clock(h),
                                       !.members = @ \cup {<<"failures">>, <<"capture">>}])
    /\ UNCHANGED faults

(* build.json is completed with the runtime that was reconciled.              *)
Record(h) ==
    /\ Does(h, "record")
    /\ Progress(h, [Artifact(h) EXCEPT !.build.reconciled = TRUE])
    /\ UNCHANGED faults

Provenance(h) ==
    /\ Does(h, "provenance")
    /\ Progress(h, [Artifact(h) EXCEPT !.completed = Clock(h),
                                       !.members = @ \cup {<<"provenance">>}])
    /\ UNCHANGED faults

(* _collect_files takes every file of the artifact, create_capture_archive    *)
(* misses none of those required.                                             *)
Archive(h) ==
    /\ Does(h, "archive")
    /\ IF Creatable(Artifact(h).members) THEN Progress(h, Artifact(h)) ELSE Fails(h)
    /\ UNCHANGED faults

(* The local scripts write their archive, by renaming, once it has been read  *)
(* back as any reader would, and only then remove their workspace.            *)
WriteArchive(h) ==
    /\ Provider[h] # "modal"
    /\ Complete(h) /\ ~capture[h].failed /\ disk.archive[h] = <<>>
    /\ IF Writable(Artifact(h), Artifact(h).source)
       THEN /\ disk' = [disk EXCEPT !.archive[h] = <<Artifact(h)>>]
            /\ UNCHANGED <<capture, checkout>>
       ELSE Fails(h)
    /\ UNCHANGED faults

RemoveWorkspace(h) ==
    /\ Provider[h] # "modal"
    /\ disk.archive[h] # <<>> /\ capture[h].workspace /\ ~capture[h].failed
    /\ capture' = [capture EXCEPT ![h].workspace = FALSE]
    /\ UNCHANGED <<checkout, disk, faults>>

CaptureStep(h) ==
    \/ Identify(h) \/ VerifyUpload(h) \/ Start(h) \/ AttestBefore(h) \/ AttestAfter(h)
    \/ Build(h) \/ Baseline(h) \/ Checkpoint(h) \/ Conform(h) \/ Benchmark(h)
    \/ Finish(h) \/ Record(h) \/ Provenance(h) \/ Archive(h) \/ WriteArchive(h)
    \/ RemoveWorkspace(h)

-------------------------------------------------------------------------------
(* What may go wrong on a host, and be put right again.                       *)
CommandFails(h) == Working(h) /\ Fault("command") /\ Fails(h)

EnvironmentBecomes(h, v) ==
    /\ capture' = [capture EXCEPT ![h].environment = v]
    /\ UNCHANGED <<checkout, disk>>

(* What changes before the baseline is taken belongs to it.                   *)
EnvironmentChanges(h) ==
    /\ Working(h) /\ capture[h].baseline # 0
    /\ Fault("environment")
    /\ EnvironmentBecomes(h, capture[h].environment + 1)

EnvironmentIsRestored(h) ==
    /\ Working(h)
    /\ Restoration("environment_restored")
    /\ \E v \in 1..(capture[h].environment - 1) : EnvironmentBecomes(h, v)

AllocationBecomes(h, v) ==
    /\ capture' = [capture EXCEPT ![h].allocation = v]
    /\ UNCHANGED <<checkout, disk>>

AllocationChanges(h) ==
    /\ Working(h) /\ Artifact(h).masks # 0
    /\ Fault("allocation")
    /\ AllocationBecomes(h, capture[h].allocation + 1)

AllocationIsRestored(h) ==
    /\ Working(h)
    /\ Restoration("allocation_restored")
    /\ \E v \in 1..(capture[h].allocation - 1) : AllocationBecomes(h, v)

ClockIsSetBack(h) ==
    /\ Working(h)
    /\ Fault("clock")
    /\ capture' = [capture EXCEPT ![h].clock = @ - ClockStep]
    /\ UNCHANGED <<checkout, disk>>

(* Files are edited, or another commit is checked out.                        *)
CheckoutBecomes(v) ==
    /\ checkout' \in {[checkout EXCEPT !.tree = v], [head |-> v, tree |-> v]} \ {checkout}
    /\ UNCHANGED <<capture, disk>>

CheckoutChanges ==
    /\ Fault("checkout")
    /\ \E v \in Versions : v >= checkout.tree /\ CheckoutBecomes(v)

CheckoutIsRestored ==
    /\ Restoration("checkout_restored")
    /\ \E v \in Versions : v < checkout.tree /\ CheckoutBecomes(v)

HostFaults ==
    \/ CheckoutChanges \/ CheckoutIsRestored
    \/ \E h \in Hosts :
        \/ CommandFails(h) \/ ClockIsSetBack(h)
        \/ EnvironmentChanges(h) \/ EnvironmentIsRestored(h)
        \/ AllocationChanges(h) \/ AllocationIsRestored(h)

==============================================================================
