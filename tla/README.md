# A TLA+ development of qwen-mm

qwen-mm turns chat requests with images and videos into the arrays a Qwen
vision-language model reads. This directory models its control in TLA+ (the
Rust core, the native binding, the Python media path, and the tools that measure
a build and certify its release), checks it with TLC and proves part of it with
TLAPS. Paths are relative to `src/`; `processor.rs` and its siblings are those of
`crates/qwen-mm-core/src/`, `_media.py` and `_video.py` those of
`crates/qwen-mm-python/python/qwen_mm/`, `input.rs` and `output.rs` those of
`crates/qwen-mm-python/src/`, `benchmark_*.py` those of
`reference/src/qwen_mm_reference/`, and `d4_*.py`, `modal_d4.py` those of `scripts/`.

## 1. The system

### The program

| Component | State it keeps | Operations | Talks to |
| --- | --- | --- | --- |
| Batch planning (`processor.rs`, `plan_batch_internal`) | pending images and videos, layouts, row counters, collected failures, one plan at the end | validate and render, preflight, traverse, triage, salvage decode, plan text, execute decode, execute videos, build the sidecar | media, text, video, worker pool, recorder |
| Single-request preparation (`processor.rs`, `prepare_internal`) | planned images, failures, row counter, optional text plan | plan headers, plan outputs and text, execute, compose | media, text |
| Plan execution (`processor.rs`, `execute_plan_into_internal`) | none of its own: the caller's seven slices for the length of a call | validate identity, validate destinations, write text, write images by fork and join, write videos | text, patchify, video, worker pool |
| Error selection (`processor.rs`, `error.rs`) | none | `select_preferred_error`, `preferred_predecode_error` | planning |
| Allocating preparation and recorder (`processor.rs`, `observability.rs`) | spans, active spans, buffers, copies, aggregate counters, all bounded | begin, finish, record, release, discard, report; seven allocations in turn | planning, execution, binding |
| Image media (`media.rs`) | none | header probe, planning, decode and resize | planning |
| Text (`text.rs`) | tokenizer and template | render, expand markers, tokenize, locate ranges, pad, write | planning, execution |
| Limits and geometry (`limits.rs`, `geometry.rs`) | none | checked `u64` arithmetic, resource preflight, smart resize | all |
| Patchify and video (`patchify.rs`, `video.rs`) | none | layout of rows, temporal groups, sampling metadata | planning, execution |
| Resize kernels (`resize.rs`) | none | floating-point pixels | media, video |
| Requests, outputs, profiles (`request.rs`, `output.rs`, `profile.rs`) | immutable registry | structure and shape checks | planning |
| Native binding (`input.rs`, `output.rs`, `lib.rs`) | the caller's lists, copies of them, destination arrays, metadata | check references, preflight, copy with the GIL, plan and write without it, rotate padding, hand over arrays | Python, core |
| Python media (`_media.py`) | the read budget of a batch, the lists of a request being renumbered, a cache of decoded videos | read and charge a source, renumber inline media, decode a clip once per set of options | the caller's sources, binding |
| Python video (`_video.py`) | none | choose a decoder, choose the frames of a clip, check the options | media |
| vLLM integration (`integrations/vllm/`) | registry of an external program | register, forward | Python package |

A call enters the processor's own rayon pool (`run_in_pool`) and stays on one of
its threads, except where it hands images, frames or output rows to the other
workers and waits for them. The components share no memory with each other; what is
shared is what the fork and join hand out (disjoint parts of one slice, and a list of
results put together in the order of the inputs) and, between Python and the
binding, the caller's own lists, which the binding reads more than once.

### The tools around it

| Component | State it keeps | Operations | Talks to |
| --- | --- | --- | --- |
| Paired benchmark, measuring process (`benchmark_protocol.py`) | samples, time spent, a census | compare, warm up, sample, extend to the time floor, compare, census | a second thread that reads the size of the process |
| Paired benchmark, schedule and result (`benchmark_v2.py`, `benchmark_statistics.py`) | the schedule, the pairs, one result | draw orders, start a process, keep a pair, build, validate, write, report | measuring processes, workload, candidate, conformance report |
| D4 capture (`d4_local.py`, `d4_linux.py`, `d4_worker.py`) | a private environment, an artifact directory, its attestation | identify, build, checkpoint, conform, benchmark, record, archive | checkout, benchmark |
| D4 archive (`d4_capture_support.py`) | one ZIP | create, read back, validate members against each other | capture, certification |
| D4 sandbox (`modal_d4.py`) | a remote sandbox, two stream threads, an unvalidated payload | create, start the worker, drain, join, fetch, terminate, detach, keep, validate, finalize later | Modal, checkout, disk |
| D4 certification (`d4_evidence.py`, `performance_certification_v1.py`) | an artifact and a report on the disk | rebuild from both archives, write, accept | checkout, archives |
| D1 profile evidence, conformance generators, oracles, release scripts | files | one pass each | the program |

**What is hard.** Several images fail at once, in an order that depends on the
workers, and one failure must be the answer; failures of later stages must not
hide, nor be hidden by, those of earlier ones, and resource failures must come
before any decode. Row counters skip failed and non-image occurrences but number
the rows of what is left. Output slices are split recursively by offsets relative
to moving bases. Destinations are lent, may be longer than needed, and must be
untouched after a refusal. A recorder silently switches every parallel section off.
A source announces one size and delivers another, in chunks of any length, against two
limits of which one shrinks. Positions are renumbered while inline media are
appended. Token ranges are found by walking the offsets of a normalised text in step
with the bytes of the unnormalised one. A caller's list may change between the
check and the copy. A sampling thread must see the state after the call it measures
although the stop event finds it anywhere. A capture runs for hours over a checkout,
an environment and a processor allocation that others may change; a remote sandbox
must be released on every path, and its payload must survive a killed controller.

**What makes it correct**, per component:

- planning: the answer depends on the batch alone; limits precede decoding; rows
  tile the output; a plan misses no occurrence and pairs replacements with images;
- single-request preparation: the same, and decode precedes geometry;
- execution: all or nothing, no index outside its slice, no two writers on a cell;
- recorder: bounded tables agree with unbounded counters, failures release what
  they held, no span stays active;
- text and padding: every range the metadata gives holds exactly its medium's tokens;
- binding: what is prepared was within the limits when it was copied;
- Python media: no read exceeds the smaller of its two budgets, the budget is what is
  kept, an item still names what the caller wrote there; sampled frames span the clip;
- benchmark: the retained size is read after the call, a written result is the
  schedule, a sound run is reported;
- D4: no payload of a sandbox that may still run, no finished capture lost, every
  sandbox released, a release rests on both captures, a sound capture is certified;
- limits and geometry: no result that overflowed is ever accepted.

The hazards behind these sentences are listed in `PROJECT.json`, each at its line.

## 2. Modules

| Module | Role |
| --- | --- |
| `PrepareErrors` | error categories and the two selections by (precedence, occurrence) |
| `PrepareVerdict` | the answer due for a batch, stated over the batch alone, once for the batch path and once for the single path |
| `VerdictContract` | abstract specification: one answer, the verdict of the batch, eventually |
| `BatchPlanning` | `plan_batch_internal` with its workers |
| `SinglePrepare` | `prepare_internal` |
| `PrepareLemmas` | lemmas about the operators of `PrepareErrors` and `PrepareVerdict` |
| `BatchPlanningProofs` | theorems about `BatchPlanning`, and that it implements `VerdictContract` |
| `SinglePrepareProofs` | the same of `SinglePrepare` |
| `DestinationContract` | abstract specification: refuse and touch nothing, or fill exactly |
| `PlanExecution` | `execute_plan_into_internal` with forked writers |
| `PlanExecutionProofs` | theorems about `PlanExecution`, and that it implements `DestinationContract` |
| `ObservationRecorder` | the methods of `PreparationRecorder`, as operators on a record |
| `ObservedPrepare` | one observed call from its entry to its report, with all its failures |
| `ObservedPrepareProofs` | theorems about `ObservedPrepare` and the recorder's methods |
| `MediaReading` | one source after another against one read budget |
| `VideoSampling` | the frames of a clip, as operators |
| `RequestNormalization` | `_media.py` and `_video.py` as one machine around `MediaReading` and `VideoSampling` |
| `RequestNormalizationProofs` | theorem about `MediaReading`, and that `RequestNormalization` implements it; renumbering, cache, sampling and budget |
| `TextRanges` | expansion, encoding and location of media in the text, as operators |
| `BindingCall` | one native `prepare_batch` over lists that may change, around `TextRanges` |
| `BenchmarkWorker` | one measuring process and its sampling thread |
| `BenchmarkRun` | the schedule of processes, the result and its validators |
| `BenchmarkRunProofs` | theorems about `BenchmarkRun`, its measuring process included |
| `D4Archive` | what an archive must hold and agree on, as operators |
| `D4Capture` | a capture on each of two hosts, of three kinds |
| `D4Sandbox` | the controller, the sandbox, the streams and the finalization |
| `D4Certificate` | rebuilding, writing and accepting a certification |
| `D4Pipeline` | the composition of the four, with faults and fairness |
| `D4PipelineProofs` | theorems about `D4Pipeline` |
| `MC…` | instances for TLC, one per specification |

`BatchPlanning` and `SinglePrepare` extend `PrepareVerdict`, which extends
`PrepareErrors`; each implements `VerdictContract` under the verdict of its own path,
and `PlanExecution` implements `DestinationContract`: the safety of the three refinements is
proved, their liveness is checked.
A plan passes from one to the other as prefix sums of row counts:
`LayoutsTileTheOutput` is what planning guarantees, `ExecutionAssumption` what
execution assumes. `ObservedPrepare` extends `ObservationRecorder` and walks the same
planning stages again, this time for what they record and own.
`RequestNormalization` shares the variables of `MediaReading` and is proved to implement
it: each of its steps is a `Load`, `Take`, `Finish` or `ReadStep` of it, or leaves its
variables alone, so that what is proved about `MediaReading` holds of every batch. The D4 modules form a
chain of `EXTENDS` over shared variables (`capture`, `checkout`, `disk`, `faults`), and
`D4Pipeline` puts their steps side by side.

### State and actions against the code

*A batch* of the core is a sequence of requests of content items, together with the
verdicts the code computes from bytes: structure, rendering and options of a request,
whole-batch resources, text planning, and for an item its planning, geometry and
decode verdicts. A verdict is `Ok` or an error category; everything that computes
one is abstracted and any combination that may arise from bytes is an input.
Messages are flattened into one list of items per request, since the code only
walks them in order. A failure of `plan_image_patchify` or of a `u64` row counter
is an overflow or resource failure, answered at once on both paths, and is
included in the planning verdict.

`BatchPlanning` names its variables after those of the function. `phase` is the
place in its text. `ImageFails`, `PlanImage`, `VideoFails` and `PlanVideo` are the
arms of the two `match planned`; `CloseRequest` is the end of the request loop;
`Triage` the test after it. `StartDecode` and `FinishDecode` are the worker
threads running the closure given to `par_iter`, at most `ThreadBudget` at once, or
the loop in order when there is one worker or a recorder; `FinishSalvage` and
`FinishExecute` collect. `ExecuteVideos` runs all videos and takes the first
failure in order: the frames of a video are resized in parallel but collected in
order, and no two videos run at the same time, so nothing of it can be observed
earlier. `BuildSidecar` pairs replacements and layouts and checks the pairing.
The placeholder counts, cache keys and the shape of text rows are left out.

`SinglePrepare` has an action per stage of `prepare_internal`. Requests with videos
reach it only through `prepare_with_media_trace`, where they are refused.

`PlanExecution` counts in patch rows and grid rows: the factors `patch_width` and 3
multiply every index of an array alike and are left out. A cell holds the
occurrence it was written for, or `Stale`. A *task* is a pending call of
`execute_patchify_images_parallel`: the images it still has to write, its windows of
the two arrays, and the bases subtracted from absolute positions. `Fork` is the
split and `rayon::join`; a leaf writes one row per step, so that two leaves
interleave row by row; `Successors` is the next turn of the serial loop. Text is
written in one step, because one thread writes it before any other starts.

`ObservationRecorder` has one operator per method of the recorder. Its three event
tables are bounded by `capacity`, its counters are not. A clock ticks at every begin
and finish, which is enough to compare durations. `Keep` is what every method does
with an event: append it, or count it as dropped when the table is full. Loops that record
(inputs copied, pixels released, outputs allocated, patches written) are `InTurn` over a list
of `Event`s; sums over a list are `TotalOf`.

`ObservedPrepare` runs one call through one of four entries: `plan_batch_observed`
followed by what its caller may do with the plan (`plan`), `prepare_batch_with_observer`
(`observer`), `prepare_batch_observed_with_capacity` (`envelope`) and the Python method
`prepare_batch_observed` (`binding`). The recorder is lent as `&mut`, so the call has
one thread and its only choices are its inputs and faults, all in `call`. An action is
a stage, or one turn of a stage's loop, with everything recorded in it. Beside `rec`
stand what the program really has: `owned`, `images` and `videos` are the inputs,
pixels and frames that exist at this point, `open` the span tokens held by functions on
the stack. The properties compare the two. An occurrence has one placeholder and one
medium, and its verdicts are read off `call`; a geometry failure cannot occur at
execution, because planning has asked for the geometry already. Parsing in the binding
refuses empty batches, bad structures and preflight failures, so its calls never meet
the native checks of the same conditions. Messages, hashes and byte counts other than
buffer capacities are left out.

`MediaReading`: a source has a kind, the sizes it announces (`stat`, `Content-Length`,
the length of a base64 payload), the size it turns out to have, and where it fails.
`Check`, `ReadLimit` and `Consume` are the methods of `_ReadBudget`; `BeginRead`,
`ReadChunk` and `EndOfStream` are `_read_limited`, one action per chunk, of any length
from one byte to what was asked for. `Finish` stands for the ends its caller decides.
The scheme of a URL, the header of a data URI and the wording of errors are
the fault of a source.

`RequestNormalization` walks a batch as `_normalize_request` does: the supplied
images, then each content item, then the end of the request; `stage`, `at` and `frame`
are the places in its loops. What it has normalised names where each medium came from
(`from`, `place`), which is what renumbering is about. `cache` is `video_cache`.
`VideoSampling` counts times in half seconds and frame rates in whole numbers, so
that every bound of the code is an exact quotient; the rounding of its floats is left
out. Image options are carried along and not looked at, as in the code.

`TextRanges` makes the rendered prompt a sequence of pieces with a length in bytes and
tokens of their own byte lengths in the normalised text, so that NFC may shorten
or lengthen a piece. The chat template is the order of pieces, the byte-pair encoder
is data. Two texts that stand next to each other are independent: no composition or merge
across them. A text that spells a placeholder is found like a placeholder, as in the
code. "Picture 1:" and the like are text.

`BindingCall` has the reads of the caller's lists in their order. The caller's code can
run at every read of a medium that calls Python (`__buffer__`, `__float__`), and other
threads run while the interpreter is detached, so `CallerWrites` may come between any
two reads; the loop over the structure runs none of it and is one step, and so is the
look at the videos of a request. Iteration over a list ends at its length when the loop
began, or now if that is less. `Plan` is the core: it checks references and limits again
on the copies. `CopyFails` is the media whose type, shape or memory is refused at the copy only.
Only the lists of media change; messages are copied at once.

`BenchmarkWorker` has an action per measured operation of `run_worker` and per wake
and read of `_RssSampler`. Time is what the operations take (`wall`). The process has
three sizes, before, during and after the observed call. Any failed comparison ends it.
`BenchmarkRun` is `run_benchmark`: `StartWorker` to `KeepPair` are its loops,
`BuildResult` its end, `BindingsAgree` and `EligibilityAgrees` the validators, which
were written separately from it in the code and are here, too. `Coin` is what the seeded
generator draws. The workload, the candidate and the report are versions that may change
at any moment, and a candidate that was replaced may be put back (`CandidateIsRestored`).

`D4Archive` is a record of the facts the members of an archive state. Only
checks that relate members to each other are modelled; hashes, sizes and host
descriptions of single members are not. Two fields of a benchmark, `undisturbed` and
`speed`, say what really happened; no check reads the first.

`D4Capture` has `PlanOf[h]`, the steps of a host in the order of its script, and one
action per kind of step. The three kinds of host share `run_compact_capture`
(`CompactCapture`) and differ before and after it. `WriteArchive` reads back before it
renames, as `write_capture_archive` does. The identity of the checkout is taken once at the
start (`d4_local.py:242-244`) and the wheel is built later (`:278`) from the files there are
then; what the archive binds is checked afterwards by the certification. A version of the
checkout stands for its files outside the directories of generated evidence, and
`source` for the identities of source, assets and contract together. Later changes make later
versions; the checkout, the environment and the allocation of a host may also be brought
back to any earlier version, at any moment (`CheckoutIsRestored`, `EnvironmentIsRestored`,
`AllocationIsRestored`), as a user does who undoes an edit. Every fault has a kind, and a
kind may come any number of times up to `MaxFaults` in all. What is brought back is noted like a
fault but not counted against the bound: it makes an earlier version each time, and only a fault
makes a later one. The validation of a
conformance report compares two source files (`phase_c_overlay_v2.py:777-785`), hence
`listed`. A local Linux host shares the checkout with the arm64 host.

`D4Sandbox` is one invocation of `main`: a second one overwrites an unfinalized
diagnostic by design (`modal_d4.py:1085-1086`). The sandbox and its streams are external and
modelled from what the controller is prepared for. `Hydrate` comes before `Main`: the image
is resolved when the application starts (`modal_d4.py:139-144`), so what it holds may
differ from the checkout `main` identifies, and the worker compares the two. `Raises` is the `finally` of
`_execute_in_vm_sandbox`. The probe mode, the dry run and the heartbeat are left out, and so
is the exhaustive suite (`d4_worker.run_capture`).

`D4Certificate` has the process that rebuilds and writes (`Certify`, `WriteArtifact`,
`WriteReport`) and the one that accepts (`Accept`). Percentiles and bootstrap
are data: a benchmark meets its bounds, is noisy or is slow.

## 3. Runs

| Run | Question | Bounds | Size |
| --- | --- | --- | --- |
| `batch_planning` | all safety properties and the verdict of `plan_batch` | lists of up to 3 items of 11 kinds, one or two requests, failing or good text, every pair of rejected requests, two workers; up to 2 items with a recorder; 4 images that all plan, 3 workers | 235k states |
| `batch_geometry_order` | *violated*: decode precedes geometry on the batch path | up to 2 items | |
| `single_prepare` | decode precedes geometry, composed checks agree, the verdict | up to 3 items of 11 kinds | 18k |
| `plan_execution` | all properties of the writers and all-or-nothing | 6 images of 1 or 2 rows, 2 videos of 2 and 3 groups, 20 destinations | 19k |
| `observed_prepare` | the recorder agrees with what the call owns, does and answers | up to 2 media of 15 kinds, all lists of 3 of an image, a good and a failing video, a fault at every stage, capacities 0, 3 and 64, four entries | 84k |
| `observed_video_release` | *violated*: transient storage is released when a call returns | the same, without the two entries that sweep, capacity 64 | |
| `request_normalization` | budgets, renumbering, cache, sampling, and an answer for every batch | sources of every kind and size around limits of 3 and 5 bytes, chunks of 2; up to 3 items over up to 2 supplied images and videos; videos of 0 to 9 frames with every option | 146k |
| `image_positions` | *violated*: a position names a supplied image | up to 3 items | |
| `binding_call` | copies keep the limits; ranges hold their media | 1 or 2 requests of up to 4 items, 2 changes by the caller, both padding sides | 1.3M |
| `benchmark_run` | census, schedule and result of a paired benchmark | 2 coordinates of 3 repetitions (12 processes), one fault | 126k |
| `d4_pipeline` | a release certification from two captures | a local and a remote host, one thread budget, 2 versions of the checkout, one fault of any kind, what was changed brought back at any later moment, one later finalization, two attempts to certify | 275k |
| `d4_linux_archive` | *violated*: a sound capture is certified | the same with a local Linux host, 2 thread budgets and no fault | |

Why these bounds are enough.

- *Planning.* Failures are selected by a minimum over (category, occurrence), so a pair
  shows every comparison; three items add a bystander before, between or after, and let
  an image follow a failed one and a video. Two requests show ranges that start where
  the previous ended. Four images over three workers is the smallest instance where a
  worker is reused while two others still run.
- *Execution.* Six images split as 3+3, then 1+2 and 1+2: both halves, an odd split and a
  second level of bases on both sides; unequal row counts tell a row offset from an image
  index. A destination is exact, one longer, one shorter, missing or unplanned: the code
  only compares a length with a capacity. Only the parallel schedule is run: the
  theorems of section 4 hold for the serial one, too.
- *Recorder.* A capacity of 0 keeps nothing, one of 3 fills up inside the first medium,
  one of 64 never does. Lists of three media put a video after a failed one with something
  before both, the only place where collection stops early. Buffer capacities are distinct,
  so that releasing the wrong buffer shows in the counter.
- *Python media.* Sizes lie below, at and above both limits, and a second source finds a
  budget already charged; chunks of two bytes against three leave one that is cut short. The
  theorem of section 4 covers every other size. Two supplied media, two sets
  of options and three items show every reuse of the cache with a medium in between.
  Frames 0 to 9 with all bounds of the clip cover the even and odd counts and every clamp,
  with `MaxRawFrames` below and `DefaultFrames` inside the range.
- *Binding.* One change of the caller moves a list away from what was checked, the
  second can bring its length back. A text that shortens under NFC, one that
  lengthens and one that stays, before, between and after media, move every cursor of the
  walk apart. Two requests of different lengths make padding necessary.
- *Benchmark.* One thing goes wrong, and a replaced candidate may be put back besides. Three
  repetitions are the smallest number for which orders must alternate
  (`Repetitions > 2`), two coordinates let the seed change. The operations are such
  that the time floor is met by raw samples alone, exactly at the limit, or never.
- *D4.* With one budget there is a check of the environment before and after its benchmark and
  before and after either conformance run: every kind of gap between two checks. A second budget
  repeats the gap of the first; what a certification rests on is proved for any number of them.
  One fault at any point is what the scripts are prepared for; the clock goes back by three steps, as many as lie between
  one measurement and the next. A change and its undoing are the shortest history that
  checks at two moments do not see, and the two may lie anywhere in both captures, before
  or after the checkout is certified. Both versions of the checkout have the same benchmark
  workload and the same files of those that conformance reports list, so that an edit gets past
  these two checks and only those of the source are left to stop it; versions that differ in
  them are covered by the theorem of section 4.

What the properties say is written above each of them in the modules. In short:

- `LayoutsTileTheOutput`: contiguous rows from zero, grid rows numbered over images
  only, request ranges that partition both.
- `CollectedErrorsHaveDistinctPlaces`: one failure per occurrence, so that the
  selection has a single answer, whatever the order of the list.
- `LimitsPrecedeDecoding`: no image is decoded for a batch that a limit refuses.
- `PreparedBatchesAreComplete`: a plan covers every occurrence and the sidecar pairs
  the k-th placeholder with the k-th image of the same request.
- `AnswersWithTheVerdictOfTheBatch` / `OfTheRequest`: refinement of
  `VerdictContract`, liveness included.
- `DecodePrecedesGeometry`: holds for `prepare`, fails for `plan_batch`. It speaks of the
  images whose header was accepted: one with a refused header is never decoded, so
  nothing can be said of its pixels (an attempt to prove it of every image showed this).
- `CompositionChecksAgree`: the checks at the end of `prepare` cannot fire: when every
  image was executed and none failed there is a text plan, and rows and images agree with it.
- `SlicesHoldTheirImages`, `WritersNeverShareCells`: the index arithmetic of the fork.
- `RefusedCallsWriteNothing`, `CompletedCallsFillTheImages`, `AllOrNothing`: what the
  caller sees; the last is refinement of `DestinationContract`, liveness included.
- `LiveIsHeld`: after every stage the live counter is the size of what the call owns.
- `CountersAgreeWithTable`, `EventsAccounted`: bounded tables against unbounded counters.
- `OpenSpansAreTheCallers`, `ChildrenFitInTheirParent`: no early return leaves a span open
  or closes another's, and exclusive durations never saturate.
- `ReportAnswersTheCall`: the report fails when the call does, with the category its caller
  receives, also when several media failed. `RetainedIsWhatTheCallReturns`: a failed call
  retains nothing, a good one exactly its destinations (three to seven, by the media present).
- `MemoryStaysWithinTheLimits`: whatever is announced and however a stream is cut, a read
  holds no more than both limits leave, but for the one byte that shows a breach, and
  the assertion after it is unreachable.
- `BudgetIsWhatIsKept`: at the end of a request the budget is the sum of what was kept,
  each medium once, a reused video not again.
- `ItemsNameTheirMedia`: after renumbering an item names the medium the caller wrote there,
  a video with that item's options, and none is decoded twice with the same ones.
- `SampledFramesSpanTheClip`: frames distinct, in order, from end to end of a clip that
  lies inside the bounds asked for, even in number.
- `EveryBatchIsAnswered`: also when a server never ends its stream.
- `PreparedCopiesAreWithinTheLimits`: what is prepared keeps every limit and reference,
  whatever the caller did after they were checked.
- `MediaStandWhereTheMetadataSays`: a range of the metadata, moved by the left padding,
  holds exactly the tokens of its medium; modalities and attention stand nowhere else; and
  a batch that passed the checks never fails because a range is not found.
- `RetainedIsReadAfterTheCall`: the last reading of a census is taken after the call,
  wherever the stop event finds the sampler.
- `WrittenResultsFollowTheSchedule`: a result on disk has every coordinate and repetition
  once, the process named first really started first, no process served twice, all had the
  workload recorded, and all the candidate recorded unless it was replaced and put back
  in mid-run: it is identified before the first process and after the last
  (`benchmark_v2.py:1903, 719-727`).
- `SoundRunsAreReported`: without interference what the processes record is what the
  validators expect.
- `PayloadsComeFromReleasedSandboxes`, `SandboxesAreReleased`: a payload is kept only when
  both streams ended well and the sandbox is gone, and a sandbox that was held is always
  released, but for a killed controller or a failure of the call itself.
- `NoCaptureIsLost`: a fetched payload, or the workspace of a local capture, stays until
  the archive is there.
- `ReleasesRestOnBothCaptures`: every result is of its archive's wheel and of the workload of the
  source the certification names, the sandbox's wheel is of that source, and it is
  releasable exactly when every bound was met. The local wheel is of the source unless files
  of the checkout were brought back (`Restored`), and the measurements were undisturbed
  unless an environment or an allocation was (without that: `Steady`). No check of the code can
  see those, so the conditions are part of the property.
- `SoundCapturesAreCertified`: a missed bound alone keeps nothing from being archived and
  certified.

**Fairness.** `ObservedPrepare` and `BindingCall` have none: only their safety is checked.
For the core, `WF(PlanningThread)`, `WF(Worker)` and `WF(Step)`: a call is straight-line
code and bounded loops that nothing suspends, and a rayon pool runs the closures it is
given (weak fairness of *some* worker making progress, not of each). Decoders and
resizers are assumed to return. `RequestNormalization` has `WF(Step)`: one thread, and
every `read` returns (URLs are opened with a time-out). `BenchmarkRun` has weak fairness of
the parent, of the measuring process and of its sampler: the operating system
schedules processes and threads that can run. `D4Pipeline` has it of each host, each stream
thread, the controller, the finalization, the worker and the sandbox's time limit, which
the provider enforces. What a user starts (a later finalization, a certification) and
what goes wrong is never fair. `SoundCapturesAreCertified` and `SandboxesAreReleased` have
the form `<>[](condition => outcome)`: all their parts are stable, so this says what
leads-to would.

`Finished`, `Returned` and `Answered` are self-loops of what has ended, so that deadlock checking stays
on: any other state without a successor would be reported. Only `binding_call` and the
two D4 runs set `CHECK_DEADLOCK FALSE`: a call ends, and a pipeline stops where nobody
starts a certification.

### Findings

*Geometry before decode.* `plan_batch_internal` evaluates `plan.geometry()?` inside the traversal
(`processor.rs:958`), so an image with a refused geometry is collected as
`MediaGeometry` and never decoded. `media.rs:92` says geometry errors are retained "so the
composed processor can run every decode before selecting a later-stage geometry
failure", and `limits.rs:306` that "recognized corrupt media wins over later
geometry/stage failures". `prepare` does so; `plan_batch` and `prepare_batch` do not: for one
image that is both corrupt and of extreme geometry the first answers `MediaDecode`,
the others `MediaGeometry`. `batch_geometry_order` exhibits it. `BatchVerdict` and
`SingleVerdict` record the two paths as they are.

*Later videos are not released.* Every planned video is executed before the results are
collected (`processor.rs:1384`), and collection stops at the first failure, so the frames
of a later video that succeeded are freed by Rust but never released in the recorder.
`observability.rs:125` says of a transient buffer that it is released before the complete operation
returns. `observed_video_release` shows a call that returns with a live counter that
is not zero, for `plan_batch_observed` and `prepare_batch_with_observer`; the envelope and
the binding sweep the recorder when they fail, which hides it. `LiveIsHeld` states the
exception. No memory is leaked: only the report is wrong.

*A position may name an inline image.* `_normalize_request` appends inline images to the
supplied ones and hands integer positions on unchecked (`_media.py:324`), so a
position beyond the supplied images names an inline image of another item and the batch is
prepared. `README.md:175` speaks of "an integer position in the request's separate `images`
list". Positions of videos are checked (`_media.py:351`), and the binding's own check
(`input.rs:444`) sees only the merged list. `image_positions` exhibits it;
`ItemsNameTheirMedia` states the rest.

*A local Linux capture is never archived.* `execute_capture` keeps the output of its affinity
probes under `logs/controls` of the artifact (`d4_linux.py:602-611, 707-714`) and puts every
file of it into the archive, but the archive is read back before it is written, and the
reader accepts no member outside the compact inventory
(`d4_capture_support.py:2030-2032`). Every sound capture ends in an error after its last
measurement. `d4_linux.py:567` says "Build, measure, validate, and atomically write one
local Linux raw ZIP." `d4_linux_archive` exhibits it without any fault. The other two kinds of
host keep no such files.

*Without a run of its own: a wheel may not be of the source named.* A local host's
`execute_capture` requires a clean checkout and identifies it once (`d4_local.py:242-244`); the
wheel is built later from the files there are then (`:278`), and nothing compares the two. The
certification looks at the checkout of its own moment (`d4_evidence.py:247-278`) and demands a
clean one, so an edit made in between is usually undone first. The certification is then
releasable and its local wheel is not of the revision it names.
`docs/performance-certification-v1.md:233-234` says "The provenance check binds the result to the
exact 40-character source revision"; line 22 asks that nothing change until both captures have
finished, which nothing checks. In `d4_pipeline` this is the case that the condition `~Restored` of
`ReleasesRestOnBothCaptures` excepts: without it TLC finds the property violated by one edit
before the build and its undoing. The worker of the sandbox compares its copy
(`modal_d4.py:444-469`) and is not affected. The condition `Steady` excepts the like for an
environment or an allocation that is changed and put back between two checks.

*Without a run: D1 captures.* The D1 lanes start the version 1 release gates
(`local_profile.py:213`, `modal_profile.py:406`), the bundle accepts version 2 only
(`profile_v1.py:2291-2379`), so no D1 capture of this commit can be ingested, while
`docs/profile-evidence-v1.md` describes the lanes as working. There is nothing of it to model
beyond its refusal.

## 4. Proofs

Every theorem holds for every value of the constants that satisfies the named
assumptions, which TLC evaluates on the instances of the runs. The provers have no induction
over an operator, so where one is needed (the order of failures, sums of rows, sizes of
sets) `PrepareLemmas` proves the induction of the naturals in the form of sets from
well-foundedness, and a recursive function is spoken of by the equation it satisfies. A
theorem about a `Spec` uses the inductive invariant of its module, called `Inv` in each; all
of them were checked by TLC on the instances of the runs before they were proved.

### Execution (`PlanExecutionProofs`)

For every number of images and videos, every layout, every text size, every set of
destinations and both schedules, from `ExecutionAssumption` alone (layouts are prefix sums
of row counts):

| Theorem | Property |
| --- | --- |
| `TypeCorrect` | `TypeOK` |
| `WritesCannotFail` | `SlicesHoldTheirImages` |
| `WritersAreApart` | `WritersNeverShareCells` |
| `RefusalIsClean` | `RefusedCallsWriteNothing` |
| `CompletionFillsTheImages` | `CompletedCallsFillTheImages` |
| `ExecutionIsAllOrNothing` | `Spec => Contract!SafeSpec`: the safety of `AllOrNothing` |

*The argument.* None of the properties is inductive by itself. That a slice holds its
images says nothing of where the slice lies, so a fork could not be shown to keep its
halves apart. `Inv` adds `WindowsAreOwned` (a task's window starts at the cell its base
stands for: `rowFrom = rowBase`, and reaches to the last row of its images),
`WindowsAreApart` (of two tasks one lies entirely before the other, in images, rows
and grid rows), `SerialTasks` (one task at a time when serial) and `Stages` (what each
stage relies on: accepted destinations after validation, no task outside the image
stage). From `Inv` the index arithmetic and disjointness follow at once. Completion needs
a second invariant relative to the first: `Progress` says that each image is either still
covered by a pending task or written, that a leaf's finished rows still hold its image,
and that the surplus is stale; a row step preserves it because other writers' windows are
disjoint. When no task is left every image is written. `VideoProgress` says the same of
text and videos: the text is there from the image stage on, the videos before the one at
hand are written, of that one a group is pending or written, and the surplus is stale. Refusal
rests on `FreshUntilText`. The refinement maps a returned call to the answer and reads the seven
destinations when it returns: `FindingsAreAsPromised` shows them filled after a completed
call and as they were lent after a refused one, and every earlier step stutters.

### Planning (`BatchPlanningProofs`, `SinglePrepareProofs`)

For every batch of any number of requests and items with any verdicts, every number of workers
and every order in which they finish, with and without a recorder, from `PlanningAssumption`
(the constants are batches as `PrepareVerdict` describes them):

| Theorem | Property |
| --- | --- |
| `TypesAreCorrect` | `TypeOK` |
| `OutputIsTiled` | `LayoutsTileTheOutput` |
| `LimitsComeFirst` | `LimitsPrecedeDecoding` |
| `PlacesAreDistinct` | `CollectedErrorsHaveDistinctPlaces` |
| `PreparedIsComplete` | `PreparedBatchesAreComplete` |
| `ThreadBudgetsDoNotChangeResults` | `Spec => Contract!SafeSpec` with `BatchVerdict`: the safety of `AnswersWithTheVerdictOfTheBatch` |

*The argument.* `Inv` has nine parts. `Typed` and `PhasesHold` say where the traversal stands
and that an answer is given exactly at the end. `ImagesInOrder` and `VideosInOrder` say that
the tables are in source order with distinct occurrences, each image starting at the row where
the one before ended; `RangesHold` that the request ranges part them. `NothingIsMissed` says
that every occurrence the traversal has passed is in a table or among the failures, and
`FailuresInOrder` that failures carry distinct places in source order. `DecodingIsDue`
relates the decode states to the salvage of a failed batch and the execution of a good
one, and `StagesPassed` says which stages of the verdict are empty by now. For the sidecar
`PromptsHoldTheImages` adds that the placeholders of a request, in order, are its images and
videos. The verdict is then unfolded stage by stage (`VerdictByStages`): at every place where
the code answers, the stages before are empty by `StagesPassed` and the first that is not gives
the answer the code computes, because the least failure of a set does not depend on the list it
was collected in (`PreferredIsUnbeaten`).

`SinglePrepareProofs` does the same for `prepare_internal`, from `RequestsAssumption` (requests as
`PrepareVerdict` describes them; only the geometry of an image fails with `MediaGeometry`):

| Theorem | Property |
| --- | --- |
| `SingleTypesAreCorrect` | `TypeOK` |
| `CompositionNeverRefuses` | `CompositionChecksAgree` |
| `DecodeComesBeforeGeometry` | `DecodePrecedesGeometry` |
| `OneVerdictPerRequest` | `Spec => Contract!SafeSpec` with `SingleVerdict`: the safety of `AnswersWithTheVerdictOfTheRequest` |

*The argument.* `Inv` is `Typed`, `PhasesHold`, `HeadersHold` (every occurrence passed is counted,
and planned exactly when its header is accepted), `FailuresHold` (the failures collected are those
of the headers passed and the images executed) and `ExecutionHolds` (past every limit; a
text plan exactly when every image has a geometry; until a failure the images stand row after
row). The last shows that the checks of the composition agree.

### Observed calls (`ObservedPrepareProofs`)

For every call (any number of requests and media, any verdict at every stage, any number of inputs
and allocations before a fault), every capacity of the tables and every size of the buffers, from
`CallsAssumption` (what a call is) and `BytesAssumption` (sizes are positive):

| Theorem | Property |
| --- | --- |
| `TypeCorrect` | `TypeOK` |
| `EventsAreAccounted` | `EventsAccounted` |
| `SpansCloseWithTheirOwners` | `OpenSpansAreTheCallers` |
| `ExclusiveDurationsAreDifferences` | `ChildrenFitInTheirParent` |
| `LiveCounterIsWhatIsHeld` | `LiveIsHeld` |
| `ReportIsTheAnswer` | `ReportAnswersTheCall` |
| `OnlyResultsAreRetained` | `RetainedIsWhatTheCallReturns` |

*The argument.* First the recorder alone. `Effect(r, s, verdict, live)` is the contract every piece of a
stage keeps, whatever it records on the way: the tables stay accounted for, the stack of open spans
and the spans already in the table are as before, the outcome is that of `verdict`, the
retained bytes are as before and the live counter is `live`. It composes (`ThenAnother`,
`ThenCleanUp`) and closes under a span around it (`WithinASpan`); a loop moves its counter by
the sum over its list (`LoopAmounts`, by an induction over the turns that is told to the provers as
one over a set of natural numbers). The effects of the real sequences follow, path by path: an
image on its seven ways through decoder and kernel (`ExecuteImageEffect`), a video that succeeds or
fails (`VideoEffects`), the loops that give back (`ReleaseAllEffect`).

Then the call. `IInv` says beside the types: the recorder's stack is that of the tokens held, whose
number each stage knows (`Books`, `Depth`); which calls reach a stage (`Course`); what the list
of failures says (`Listed`): none is of a video before the videos run, and at the collection the
first is that of the first video that failed while all that succeeded are in the list;
what is held (`Held`); what the report says while no answer is given yet: `Success` as long as no
failure was collected (`Answered`); what is retained at each stage (`Kept`). A failing stage is one
lemma (`FailPlanKeeps`): it must show what is left live. Only `CollectVideosKeeps` has something left: the
videos collected are as many as precede the first failure, and all of them exactly when
`UncollectedVideos` is empty (`CollectedBytes`).

*Durations.* That children fit in their parent is a fact about ended spans, and not inductive: until a
span ends nothing bounds its children. `Nested` says it at every moment, of the age of a span: its
duration once it has ended, the time since it began before (`Within`). When time
passes everything on the stack grows older, and of the children of a span only the one above it on
the stack does, which is one at most, and only if the span itself is on the stack
(`OneChildAges`); the innermost open span has a unit to spare, which is what the child gets that is
begun on it (`TimePasses`, `OpenedWithin`). This needs that the stack is a chain of parents in the
order of their sequence numbers (`Stacked`) and that a token and the table agree on the place of
a span (`Numbered`, `Place`): `close` writes to the place of the token and takes the sequence
number off the stack, and nothing compares the two. Spans that were dropped may be anyone's parents and
children; only those of the table are summed, and fewer children make a smaller sum.

### Python media (`RequestNormalizationProofs`)

For every item and batch limit, every chunk size and every set of sources that announce and
deliver what they like, from `LimitsAssumption` and `SourcesAssumption`:

| Theorem | Property |
| --- | --- |
| `ReadsAreBounded` | `MemoryStaysWithinTheLimits` of `ReadingSpec` |

*The argument.* The property is not inductive: a chunk is bounded by the limit that was
computed when its read began, and nothing in the property says that this limit is still
what the budget leaves. `ReadInvariant` adds that: `limit = ReadLimit` and `held <= limit`
throughout a read, because nothing is charged while one is in progress. Then a chunk
that goes beyond the limit goes beyond it by one byte, and
`BeyondTheLimitIsRefused` shows that the check must refuse it, whichever of the two limits
the effective one was taken from, so that the assertion after the check is dead. The
theorem is about `ReadingSpec`, in which a caller loads and takes sources as it likes.

The other theorems are about whole batches, for every set of batches and decoders, from
`BatchesAssumption` (what a request may hold) and `FramesAssumption` (the limits on frames are
positive):

| Theorem | What it says |
| --- | --- |
| `BatchesReadOneBudget` | `Spec => ReadingSpec`: a batch reads its sources against one budget |
| `BatchesStayWithinTheLimits` | `MemoryStaysWithinTheLimits` of `RequestNormalization` |
| `ItemsNameWhatWasWritten` | `ItemsNameTheirMedia` |
| `DecodedFramesSpanTheClip` | `SampledFramesSpanTheClip` |
| `NormalizationTypesAreCorrect` | `TypeOK` |
| `BudgetsAreWhatIsKept` | `BudgetIsWhatIsKept`, as long as `FilesKeepTheirSize` |

*The argument.* That a step loads one of the `Sources` needs to know where the loops stand:
`PlacesHold` says that a request is at hand while one is handled, and that while frames are
loaded or a video is decoded the item is a video and its position in range, which
was only checked when the video was opened. Refusals are `Finish` because no error of a
request or video has the name of the assertion (`EntryErrorIsAnError`,
`DecodeErrorsAreErrors`).

For renumbering, `Inv` adds what the lists hold while a request is being handled. `ImagesHold`:
the supplied images come first, each at its own position, so that a position handed on
unchecked still names the supplied image, if there is one. `VideosHold`: a supplied video
stands where the cache says, one of an item stands once and before the item at hand,
and nothing is decoded that the cache has. `ItemsHold`: every item kept names its medium among
those kept so far; `NamesSurvive` shows that appending media behind it changes nothing. A closed
request is the draft that was held (`PreparedHold`).

The frames of a clip are arithmetic: for every length, rate and set of options,
`SamplesSpanTheClip` shows from the bounds of the clip (`ClipsAreWithinTheVideo`) and of the
count (`CountsAreWithinTheClip`) that frames spread evenly are distinct and in order.
`RoundingKeepsApart` is the heart of it: two quotients more than one apart are rounded to
different frames, in order, ties to even included; when the quotients are whole, rounding
leaves them as they are (`ExactQuotientsStay`).

*The budget.* The property speaks of the moment between two requests; what holds at every step
(`ChargesHold`) is that the budget is the sum of five charges: for the requests prepared,
for the images and for the videos the request at hand keeps, for the frames read so far of a list
that is not kept yet, and for the source that is loaded and not yet taken. Each
action moves a charge from one place to the next or adds one. What a read adds is the
source's own size because the source being loaded is the one the loops stand at, and a stream
is held no further than its size, so that what is held at its end is all of it
(`SourceHolds`). The sums are recursive functions; that they exist and are unique is
proved once (`SumsExist`, `SumsAreUnique`) and used for every sequence. The hypothesis `FilesKeepTheirSize`
says that a video file does not change its size between two openings. It is needed for the
property as stated: the code charges what `stat` says at each opening
(`_video.py:396-400`), and a supplied video that two items decode with different options is
opened twice. The instance TLC checks satisfies it.


### The paired benchmark (`BenchmarkRunProofs`)

For every list of cases and of thread budgets, every number of repetitions, whatever the generator
draws and however long the operations take, from `RunAssumption` (there is a case, a budget and a
repetition):

| Theorem | What it says |
| --- | --- |
| `InvariantHolds` | `Spec => []IInv` |
| `CensusIsTakenAfterTheCall` | `RetainedIsReadAfterTheCall` |
| `ResultsFollowTheSchedule` | `WrittenResultsFollowTheSchedule` |

*The argument.* `IInv` has a part for the process and four for the parent.

`ProcessHolds`: the size of the process is that of a running or a returned call exactly by where the
process stands, and a sampler that reads once more after it saw the stop event does so when the
event was set, which is after the call. The last reading is therefore one of the
returned call, although the thread may have looked at the event and read the size in two steps
with anything between them.

`ParentHolds` and `ScheduleHolds`: the loops stand at a place of the schedule, and the pairs kept are
those of the places passed, in order (`LoopsAdvance` is the arithmetic of both loops).
`PairHolds` orders the processes in time: the first of a pair started before the second, and both
after every process of the pairs before. From this alone no process can have served twice
(`ProcessesAreDistinct`), although identifiers of processes may return.

`ResultHolds`: a result that is validated is made of exactly the pairs kept. That all processes ran
the candidate recorded is *not* invariant while they run: the candidate may change between
two of them. It holds of a written result because validation compares the candidate named with
the one found then: had it changed before any process was started and not been put back, it
would still be changed (`ValidatedResultsAreOfOneCandidate`). `Same` is that condition, and no step
regains it once it is lost (`Noticed`), because `faults` only grows (`FaultsAreKept`).

That orders alternate is a fact about the recursion of `First`: `FirstIsDefined` shows that it has a
solution, by giving one in closed form, and `OrdersAlternate` follows from its equation.

### D4 (`D4PipelineProofs`)

For every number of budgets, every kind of x86_64 host, every set of versions of the checkout, every
number of faults of the kinds modelled, changes taken back among them, and every number of attempts
at finalizing and certifying, from `BudgetsAssumption` (budgets are distinct, and there is one),
`ProviderAssumption` (the arm64 host is local, the other is of one of the three kinds),
`FaultsAssumption` and `VersionsAssumption` (versions are numbers from 1, each with a workload and
the files reports list):

| Theorem | What it says |
| --- | --- |
| `PipelineInvariant` | `Spec => []Inv` |
| `PayloadsWereReleased` | `PayloadsComeFromReleasedSandboxes` |
| `CapturesAreKept` | `NoCaptureIsLost` |
| `CertificationsRest` | `ReleasesRestOnBothCaptures` |

*The argument.* A certification rests on what happened hours before on two hosts, so `Inv` follows
a capture from its first step to the artifact and has a part for each actor.

*The plan.* The steps of a host are a sequence of symbolic length. `PlanFacts` is all that is
used of it: a local capture starts first, the baseline is taken once and before any
benchmark, and after the last benchmark come one more look at the environment (`CheckedAt`) and,
on a Linux host, one more attestation of the processors (`AttestedAt`).

*The hosts* (`HostHolds`). What disturbs a benchmark leaves a mark, an environment or an allocation
that is no longer the first, unless it is taken back. `DisturbancesShow` says that while nothing was
(`Steady`) a disturbed result implies such a mark until the last looks, and that a capture that is
past them has only undisturbed results. It is inductive with `FirstLooks` (nothing changes before it was looked at first) and
it is why the *last* checks are needed: a benchmark looks at nothing itself. `WheelIsOf` orders
wheel, source and checkout: until the checkout goes back (`Restored`) a local wheel lies between the
version its capture was identified with and the one the checkout has now; a wheel of the sandbox is
of its source whatever the checkout does. `Onward` is what every step owes to these marks: a step
that lowers a version is one that notes it (`NotedIsOnward`).

*The sandbox* (`SandboxHolds`). `NothingEarly` (nothing of a worker is there before it is started,
so both streams are idle and nothing can have broken), `StreamsHold` (a stream that ended was
read to what was written, after the exit), `ExitsHold` (what the controller joined is
what the worker exited with) and `ReleasesHold` (from the read of the payload on, unless the
controller failed, the worker has ended well; kept is only what is terminated and detached). Once
a payload is on the disk all of this is frozen: `Released` does not change any more, because the
process that could change it has ended.

*The certification.* Whatever holds an artifact (the worker's output, the controller, the
finalizer, the disk) holds one that was completed (`PayloadsAreSound`). A rebuild demands that both
archives name the same source, that it is the head and the tree of the checkout, and that
the benchmarks are bound to the archived wheel; with `WheelIsOf`, and a checkout that never went
back, both wheels are then of that very version (`RebuiltRests`). Without the comparison with the tree this fails: a capture identified with
the first version may have built its wheel from the second.

*Only model-checked*: `CountersAgreeWithTable`, which relates a counter to a sum over the part of a
table it stands for (an invariant would need the events that were dropped, and the code does not
keep them);
the token ranges of the binding
(`MediaStandWhereTheMetadataSays`), folds and recursion over texts; the copies of the binding; every liveness
property, that sound benchmarks are reported (`SoundRunsAreReported`), the liveness of the three refinements and of D4
included (fairness and ENABLED are out of the prover's reach).

## 5. Not modelled

- *Left out of operations that are modelled*: on the batch path the videos of
  `build_prepared_sidecar` and their grid and pixel rows (videos have counters of their own,
  which no property is about; what is said of the sidecar is said of images); on the single
  path the refusal of videos that are supplied but not referenced (`processor.rs:2744-2750`);
  in the binding the pixel checks of single frames before the copy (`input.rs:719-746`) and
  the internal errors of `encode_prompt_once` other than a range that is not found
  (`text.rs:719-742`): the call ends there with an error. `VideoSampling` counts in
  exact rationals where `_video.py:255-268` counts in `float32`.
- *Data without control*: resize kernels, codecs, the byte-pair encoder, chat templates
  (wording), profile parsing, floating-point statistics, the vendored serialiser.
- *Modelled only as verdicts*: header probes, geometry, checked `u64` arithmetic, smart resize,
  the counters and shapes of `PreparedBatch`.
- *vLLM integration*: the adapter admits prepared pixels in one synchronous call; it checks
  the mapping, clones it and hands vLLM a hash. The caches, thread pool and engine that make
  this hard are vLLM's, and none of them is in the repository.
- *What a video decoder reads of a path after `stat`* (`_video.py:400`): external; the model
  charges what `stat` said, as the code does.
- *Nested entry into a pool* (`processor.rs:678`): rayon runs a nested `install` on the worker that
  calls it; only a model of rayon itself could say more.
- *D1 profile evidence*: cannot run to its end at this commit (see Findings); a model would
  consist of states the program never reaches.
- *Conformance and oracle generators* (phase B and C, golden, corpus, chat, media, resize,
  video): one pass over fixed data with no state between cases. The D4 modules use the
  result of Phase C.
- *D3 and v1 benchmarks on Modal, the vLLM serving experiment*: one remote call that
  measures and returns an archive; nothing runs beside it and nothing is kept when it fails.
- *Release and verification scripts*: straight lines, stopped by the first failure.
- *Python wrappers*: forwarding.

## 6. Plan

In order; each with its MC module and, where marked (P), theorems.

1. `BindingCall` (P): `PreparedCopiesAreWithinTheLimits`.
2. `CheckedArithmetic`: `u64` operations over a narrow width against unbounded
   integers; `SmartResize` against its bounds.
3. The remaining operations of the binding (`plan_batch`, `execute_plan_into`).
