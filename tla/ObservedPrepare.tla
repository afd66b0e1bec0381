--------------------------- MODULE ObservedPrepare ---------------------------
(* One observed call of the processor, from its entry point to the report.    *)
(* Four entries share the planning stages: plan_batch_observed with the       *)
(* caller's own execute and drop ("plan"), prepare_batch_with_observer        *)
(* ("observer"), the envelope prepare_batch_observed_with_capacity            *)
(* ("envelope") and the Python method prepare_batch_observed ("binding").     *)
(* A recorder serialises the call, so the only choices are its inputs.        *)
(* Beside the recorder the model keeps what the call really owns.             *)
EXTENDS ObservationRecorder, FiniteSetsExt

CONSTANTS
    Calls,      \* the calls to observe: entry, capacity, inputs and faults
    Bytes       \* capacity of each kind of buffer

Buffers == {"owned", "decoded", "destination", "scratch", "video", "output"}

ASSUME BytesAssumption == Bytes \in [Buffers -> Nat \ {0}]

(* What becomes of each part of a call.                                       *)
Turns == [structure : Verdicts, render : Verdicts, text : Verdicts]
AllMedia ==
    [source : {"encoded", "raw", "video"}, plan : Verdicts, decode : Verdicts,
     resize : {"same", "scaled", "scratchless", "kernelFails", "noDestination",
               "noScratch"}]

IsCall(c) ==
    /\ c.entry \in {"plan", "observer", "envelope", "binding"}
    /\ c.requests \in Seq(Turns) /\ c.media \in Seq(AllMedia)
    /\ {c.capacity, c.parsed, c.allocated} \subseteq Nat
    /\ {c.parse, c.preflight, c.limits} \subseteq Verdicts
    /\ c.convert \in {OkVerdict, "python_conversion"}

ASSUME CallsAssumption == \A c \in Calls : IsCall(c)

VARIABLES
    call,       \* inputs and faults of the call, never written
    phase,      \* the stage the call is in
    cursor,     \* element the stage's loop is at
    errors,     \* media failures collected so far
    owned,      \* inputs the binding has copied
    images,     \* occurrences whose prepared pixels exist
    videos,     \* video occurrences whose frames exist
    rec,        \* the recorder
    open,       \* span tokens held by the functions on the stack
    answer      \* Unanswered, Ok or the category of the failure

vars == <<call, phase, cursor, errors, owned, images, videos, rec, open, answer>>

Unanswered == "Pending"

Phases == {"enter", "parse", "open_plan", "validate", "preflight", "traverse",
           "triage", "salvage", "tokenize", "text_limits", "images", "videos",
           "collect", "planned", "allocate", "execute", "drop", "unwind",
           "materialize", "done"}

Media == call.media
Occurrences == DOMAIN Media
ImagesOf(c) == {k \in DOMAIN c.media : c.media[k].source # "video"}
VideosOf(c) == DOMAIN c.media \ ImagesOf(c)

CallScope == <<>>
RequestScope(r) == <<"request", r>>
MediaScope(k) == <<"media", k>>
InputScope(k) == <<"input", k>>

Goto(stage) == phase' = stage /\ cursor' = 1
Stay == phase' = phase /\ cursor' = cursor + 1

-------------------------------------------------------------------------------
(* One image: execute_image_plan_observed and resize_pic_scale_u8             *)

ResizeVerdict(m) ==
    CASE m.resize \in {"same", "scaled", "scratchless"} -> OkVerdict
      [] m.resize = "kernelFails" -> "InternalInvariant"
      [] OTHER -> "ResourceLimit"

ImageVerdict(m) == IF m.decode # OkVerdict THEN m.decode ELSE ResizeVerdict(m)

(* An encoded image of the right size keeps the decoder's buffer.             *)
PreparedBytes(m) ==
    IF m.source = "encoded" /\ m.resize = "same"
    THEN Bytes.decoded ELSE Bytes.destination

NoopCopy(r, scope) ==
    LET copied == RecordTransient(r, "resize.noop.source_copy", scope,
                                  Bytes.destination)
    IN  RenameLiveTransient(
            RecordCopy(copied, "resize.noop.source_copy", scope,
                       Bytes.destination),
            "resize.noop.source_copy", "prepared_rgb", scope)

AddScratch(r, scope) == RecordTransient(r, "scratch", scope, Bytes.scratch)
DropScratch(r, scope) == ReleaseTransient(r, "scratch", scope, Bytes.scratch)
DropDestination(r, scope) ==
    ReleaseTransient(r, "destination", scope, Bytes.destination)

Scale(r, m, scope) ==
    LET placed == RecordTransient(r, "destination", scope, Bytes.destination)
        worked == IF m.resize = "scratchless" THEN placed
                  ELSE DropScratch(AddScratch(placed, scope), scope)
    IN  CASE m.resize = "noDestination" -> r
          [] m.resize = "noScratch" -> DropDestination(placed, scope)
          [] m.resize = "kernelFails" -> DropDestination(worked, scope)
          [] OTHER -> RenameLiveTransient(worked, "destination",
                                          "prepared_rgb", scope)

ResizeImage(r, m, scope) ==
    IF m.resize = "same" THEN NoopCopy(r, scope) ELSE Scale(r, m, scope)

ResizeSpan == "native.media.resize"
DecodeSpan == "native.media.decode_color"

ResizeWithin(r, m, scope) ==
    Finish(ResizeImage(Begin(r, ResizeSpan, scope), m, scope),
           NextToken(r), ResizeVerdict(m))

(* Mutated form: a rejected raw buffer returns with its decode span open.     *)
ExecuteRawLeavingSpan(r, m, scope) ==
    IF m.decode # OkVerdict THEN Begin(r, DecodeSpan, scope)
    ELSE ResizeWithin(Spanned(r, DecodeSpan, scope, OkVerdict), m, scope)

ExecuteRaw(r, m, scope) ==
    LET decoded == Spanned(r, DecodeSpan, scope, m.decode)
    IN  IF m.decode # OkVerdict THEN decoded
        ELSE ResizeWithin(decoded, m, scope)

ExecuteEncoded(r, m, scope) ==
    LET spanned == Spanned(r, DecodeSpan, scope, m.decode)
        decoded == RecordTransient(spanned, "decoded_rgb", scope, Bytes.decoded)
    IN  CASE m.decode # OkVerdict -> spanned
          [] m.decode = OkVerdict /\ m.resize = "same" ->
                RenameLiveTransient(Spanned(decoded, ResizeSpan, scope, OkVerdict),
                                    "decoded_rgb", "prepared_rgb", scope)
          [] OTHER ->
                ReleaseTransient(ResizeWithin(decoded, m, scope),
                                 "decoded_rgb", scope, Bytes.decoded)

ExecuteImage(r, k) ==
    IF Media[k].source = "raw"
    THEN ExecuteRaw(r, Media[k], MediaScope(k))
    ELSE ExecuteEncoded(r, Media[k], MediaScope(k))

ReleaseImage(k) ==
    Event("release", "prepared_rgb", MediaScope(k), PreparedBytes(Media[k]))

ReleaseVideo(k) ==
    Event("release", "prepared_video_rgb", MediaScope(k), Bytes.video)

(* drop_observed and the release loops of plan_batch_internal.                *)
ReleaseAll(r, imageList, videoList) ==
    InTurn(InTurn(r, [i \in DOMAIN imageList |-> ReleaseImage(imageList[i])]),
           [i \in DOMAIN videoList |-> ReleaseVideo(videoList[i])])

DropObserved(r) == ReleaseAll(r, images, videos)

-------------------------------------------------------------------------------
(* Entry                                                                      *)

Init ==
    /\ call \in Calls
    /\ phase = "enter"
    /\ cursor = 1
    /\ errors = <<>>
    /\ owned = <<>>
    /\ images = <<>>
    /\ videos = <<>>
    /\ rec = NewRecorder(call.capacity)
    /\ open = <<>>
    /\ answer = Unanswered

Opened(stage) ==
    /\ rec' = Begin(rec, stage, CallScope)
    /\ open' = Append(open, NextToken(rec))

(* Finishes the innermost span a function on the stack holds.                 *)
Closed(r, verdict) ==
    /\ rec' = Finish(r, Last(open), verdict)
    /\ open' = Front(open)

EnterCall ==
    /\ phase = "enter"
    /\ CASE call.entry = "envelope" ->
                Opened("native.batch.prepare") /\ Goto("open_plan")
         [] call.entry = "binding" ->
                Opened("binding.prepare_batch") /\ Goto("parse")
         [] OTHER -> Goto("open_plan") /\ UNCHANGED <<rec, open>>
    /\ UNCHANGED <<call, errors, owned, images, videos, answer>>

OwnedMedia(does, k) ==
    Event(does, "binding.owned_media", InputScope(k), Bytes.owned)

(* parse_requests_observed: structure first, then every input is copied into  *)
(* owned storage; a failure drops the copies made before it.                  *)
ParseRequests ==
    /\ phase = "parse"
    /\ LET span == NextToken(rec)
           began == Begin(rec, "binding.parse_requests", CallScope)
           copies == [k \in 1..call.parsed |-> k]
           copied == InTurn(began, [k \in 1..call.parsed |-> OwnedMedia("own", k)])
       IN  IF call.parse = OkVerdict
           THEN /\ rec' = Finish(copied, span, OkVerdict)
                /\ owned' = copies
                /\ Goto("open_plan")
                /\ UNCHANGED <<open, answer>>
           ELSE /\ Closed(ReleaseAllTransients(DiscardRetainedOutputs(
                              Finish(copied, span, call.parse))), call.parse)
                /\ answer' = call.parse
                /\ Goto("done")
                /\ UNCHANGED owned
    /\ UNCHANGED <<call, errors, images, videos>>

OpenPlan ==
    /\ phase = "open_plan"
    /\ Opened("native.batch.plan")
    /\ Goto("validate")
    /\ UNCHANGED <<call, errors, owned, images, videos, answer>>

-------------------------------------------------------------------------------
(* Planning: plan_batch_internal with a recorder                              *)

(* Err of plan_batch_internal: Rust drops what the function owned, then       *)
(* plan_batch_observed closes its span.                                       *)
FailPlan(r, category) ==
    /\ Closed(r, category)
    /\ answer' = category
    /\ images' = <<>>
    /\ videos' = <<>>
    /\ Goto("unwind")

RejectEmptyBatch ==
    /\ phase = "validate" /\ call.requests = <<>>
    /\ FailPlan(rec, "InvalidRequest")
    /\ UNCHANGED <<call, errors, owned>>

ValidateAndRender ==
    /\ phase = "validate" /\ cursor \in DOMAIN call.requests
    /\ LET request == call.requests[cursor]
           scope == RequestScope(cursor)
           validated == Spanned(rec, "native.request.validate", scope,
                                request.structure)
           rendered == Spanned(validated, "native.chat.render", scope,
                               request.render)
       IN  CASE request.structure # OkVerdict ->
                    FailPlan(validated, request.structure)
             [] request.structure = OkVerdict /\ request.render # OkVerdict ->
                    FailPlan(rendered, request.render)
             [] OTHER -> /\ rec' = rendered
                         /\ IF cursor < Len(call.requests) THEN Stay
                            ELSE Goto("preflight")
                         /\ UNCHANGED <<images, videos, open, answer>>
    /\ UNCHANGED <<call, errors, owned>>

Preflight ==
    /\ phase = "preflight"
    /\ IF call.preflight # OkVerdict THEN FailPlan(rec, call.preflight)
       ELSE Goto("traverse") /\ UNCHANGED <<rec, open, images, videos, answer>>
    /\ UNCHANGED <<call, errors, owned>>

(* A header that does not decode opens a decode span inside the plan span.    *)
PlanImageSpan(r, k) ==
    LET began == Begin(r, "native.media.plan", MediaScope(k))
        inner == IF Media[k].plan = "MediaDecode"
                 THEN Spanned(began, DecodeSpan, MediaScope(k), "MediaDecode")
                 ELSE began
    IN  Finish(inner, NextToken(r), Media[k].plan)

PlanOccurrence ==
    /\ phase = "traverse" /\ cursor \in Occurrences
    /\ LET counted == CountVisualCall(rec)
       IN  rec' = IF cursor \in VideosOf(call) THEN counted
                  ELSE PlanImageSpan(counted, cursor)
    /\ errors' = IF Media[cursor].plan = OkVerdict THEN errors
                 ELSE Append(errors, Error(Media[cursor].plan, cursor))
    /\ Stay
    /\ UNCHANGED <<call, owned, images, videos, open, answer>>

EndTraversal ==
    /\ phase = "traverse" /\ cursor \notin Occurrences
    /\ Goto("triage")
    /\ UNCHANGED <<call, errors, owned, images, videos, rec, open, answer>>

Triage ==
    /\ phase = "triage"
    /\ CASE PredecodeErrors(errors) # {} ->
                FailPlan(rec, PreferredPredecodeError(errors).category)
         [] PredecodeErrors(errors) = {} /\ errors # <<>> ->
                Goto("salvage") /\ UNCHANGED <<rec, open, images, videos, answer>>
         [] OTHER ->
                Goto("tokenize") /\ UNCHANGED <<rec, open, images, videos, answer>>
    /\ UNCHANGED <<call, errors, owned>>

PendingImages == {k \in ImagesOf(call) : Media[k].plan = OkVerdict}

(* Mutated form: the dropped image is never reported as released.             *)
SalvagedAndForgotten(r, k) == ExecuteImage(r, k)

(* Salvage decodes what planned only to learn its error: a prepared image is  *)
(* dropped at once.                                                           *)
SalvagedImage(r, k) ==
    IF ImageVerdict(Media[k]) = OkVerdict
    THEN Recorded(ExecuteImage(r, k), ReleaseImage(k)) ELSE ExecuteImage(r, k)

WithImageError(k) ==
    IF ImageVerdict(Media[k]) = OkVerdict THEN errors
    ELSE Append(errors, Error(ImageVerdict(Media[k]), k))

SalvageImage ==
    /\ phase = "salvage" /\ cursor \in Occurrences
    /\ IF cursor \in PendingImages
       THEN rec' = SalvagedImage(rec, cursor) /\ errors' = WithImageError(cursor)
       ELSE UNCHANGED <<rec, errors>>
    /\ Stay
    /\ UNCHANGED <<call, owned, images, videos, open, answer>>

FinishSalvage ==
    /\ phase = "salvage" /\ cursor \notin Occurrences
    /\ FailPlan(rec, SelectPreferredError(errors).category)
    /\ UNCHANGED <<call, errors, owned>>

TokenizeRequest ==
    /\ phase = "tokenize"
    /\ LET verdict == call.requests[cursor].text
           tokenized == Spanned(rec, "native.chat.tokenize",
                                RequestScope(cursor), verdict)
       IN  IF verdict # OkVerdict THEN FailPlan(tokenized, verdict)
           ELSE /\ rec' = tokenized
                /\ IF cursor < Len(call.requests) THEN Stay
                   ELSE Goto("text_limits")
                /\ UNCHANGED <<images, videos, open, answer>>
    /\ UNCHANGED <<call, errors, owned>>

CheckTextLimits ==
    /\ phase = "text_limits"
    /\ IF call.limits # OkVerdict THEN FailPlan(rec, call.limits)
       ELSE Goto("images") /\ UNCHANGED <<rec, open, images, videos, answer>>
    /\ UNCHANGED <<call, errors, owned>>

ExecutePlannedImage ==
    /\ phase = "images" /\ cursor \in Occurrences
    /\ IF cursor \in ImagesOf(call)
       THEN /\ rec' = ExecuteImage(rec, cursor)
            /\ errors' = WithImageError(cursor)
            /\ images' = IF ImageVerdict(Media[cursor]) = OkVerdict
                         THEN Append(images, cursor) ELSE images
       ELSE UNCHANGED <<rec, errors, images>>
    /\ Stay
    /\ UNCHANGED <<call, owned, videos, open, answer>>

FinishImages ==
    /\ phase = "images" /\ cursor \notin Occurrences
    /\ IF errors # <<>>
       THEN FailPlan(ReleaseAll(rec, images, <<>>),
                     SelectPreferredError(errors).category)
       ELSE Goto("videos") /\ UNCHANGED <<rec, open, images, videos, answer>>
    /\ UNCHANGED <<call, errors, owned>>

VideoSpan == "native.media.video_resize"

(* Every video runs, even after one has failed.                               *)
ExecuteVideo ==
    /\ phase = "videos" /\ cursor \in Occurrences
    /\ LET began == Begin(rec, VideoSpan, MediaScope(cursor))
           held == RecordTransient(began, "prepared_video_rgb",
                                   MediaScope(cursor), Bytes.video)
           verdict == ResizeVerdict(Media[cursor])
       IN  CASE cursor \notin VideosOf(call) -> UNCHANGED <<rec, errors, videos>>
             [] cursor \in VideosOf(call) /\ verdict = OkVerdict ->
                    /\ rec' = Finish(held, NextToken(rec), OkVerdict)
                    /\ videos' = Append(videos, cursor)
                    /\ UNCHANGED errors
             [] OTHER ->
                    /\ rec' = Finish(began, NextToken(rec), verdict)
                    /\ errors' = Append(errors, Error(verdict, cursor))
                    /\ UNCHANGED videos
    /\ Stay
    /\ UNCHANGED <<call, owned, images, open, answer>>

FinishVideos ==
    /\ phase = "videos" /\ cursor \notin Occurrences
    /\ Goto("collect")
    /\ UNCHANGED <<call, errors, owned, images, videos, rec, open, answer>>

(* The results are collected in order up to the first failure; the images and *)
(* the videos collected so far are released.                                  *)
Collected ==
    SubSeq(videos, 1,
           Cardinality({i \in DOMAIN videos : videos[i] < errors[1].place}))

CollectVideos ==
    /\ phase = "collect"
    /\ IF errors # <<>>
       THEN FailPlan(ReleaseAll(rec, images, Collected), errors[1].category)
       ELSE /\ Closed(rec, OkVerdict)
            /\ Goto(IF call.entry = "plan" THEN "planned" ELSE "allocate")
            /\ UNCHANGED <<images, videos, answer>>
    /\ UNCHANGED <<call, errors, owned>>

-------------------------------------------------------------------------------
(* Destinations and execution                                                 *)

Outputs ==
    <<"input_ids", "attention_mask", "mm_token_type_ids">>
    \o (IF ImagesOf(call) = {} THEN <<>> ELSE <<"pixel_values", "image_grid_thw">>)
    \o (IF VideosOf(call) = {} THEN <<>>
        ELSE <<"pixel_values_videos", "video_grid_thw">>)

(* Mutated form: the name of the Python exception instead of a category.      *)
ExceptionName == "MemoryError"

AllocationCategory ==
    IF call.entry = "binding" THEN "memory_error" ELSE "ResourceLimit"

(* The destinations are allocated one by one; allocation number               *)
(* call.allocated + 1 fails when there is such a destination.                 *)
AllocateFails == call.allocated < Len(Outputs)

AllocateOutputs(r) ==
    InTurn(r, [i \in 1..(IF AllocateFails THEN call.allocated ELSE Len(Outputs)) |->
                Event("retain", Outputs[i], CallScope, Bytes.output)])

(* The plan is dropped; what it owned leaves the books and memory together.   *)
DropPlan(r) == rec' = DropObserved(r) /\ images' = <<>> /\ videos' = <<>>

(* Mutated form: the outputs already allocated are still reported retained.   *)
AbandonPlanOnly(r, category) ==
    /\ DropPlan(r)
    /\ answer' = category
    /\ Goto("unwind")

(* Failure of the closure or match that owns the plan.                        *)
AbandonPlan(r, category) ==
    /\ DropPlan(DiscardRetainedOutputs(r))
    /\ answer' = category
    /\ Goto("unwind")

AllocateDestinations ==
    /\ phase = "allocate"
    /\ LET allocated == AllocateOutputs(Begin(rec, "destination.allocate",
                                              CallScope))
       IN  IF AllocateFails
           THEN AbandonPlan(Finish(allocated, NextToken(rec), AllocationCategory),
                            AllocationCategory)
           ELSE /\ rec' = Finish(allocated, NextToken(rec), OkVerdict)
                /\ Goto("execute")
                /\ UNCHANGED <<images, videos, answer>>
    /\ UNCHANGED <<call, errors, owned, open>>

Patchify(k) ==
    Event("run", "native.media.normalize_patchify_layout", MediaScope(k), 0)

(* execute_plan_into_observed with destinations sized from the plan.          *)
ExecuteInto(r, verdict) ==
    LET began == Begin(r, "native.destination.execute", CallScope)
        shown == images \o videos
        written == IF verdict # OkVerdict THEN began
                   ELSE InTurn(began, [i \in DOMAIN shown |-> Patchify(shown[i])])
    IN  Finish(written, NextToken(r), verdict)

ExecutePlan ==
    /\ phase = "execute"
    /\ rec' = ExecuteInto(rec, OkVerdict)
    /\ Goto("drop")
    /\ UNCHANGED <<call, errors, owned, images, videos, open, answer>>

(* The caller of plan_batch_observed owns the plan: it may execute it into    *)
(* destinations of its own, too short ones included, before it drops it.      *)
CallerExecutes ==
    /\ phase = "planned"
    /\ \E verdict \in {OkVerdict, "DestinationTooSmall"} :
        /\ rec' = ExecuteInto(rec, verdict)
        /\ answer' = verdict
    /\ Goto("drop")
    /\ UNCHANGED <<call, errors, owned, images, videos, open>>

(* Or it drops the plan unused.                                               *)
CallerDrops ==
    /\ phase = "planned"
    /\ answer' = OkVerdict
    /\ Goto("drop")
    /\ UNCHANGED <<call, errors, owned, images, videos, rec, open>>

(* Results that leave the plan are copied before it is dropped.               *)
ReturnAndDropPlan ==
    /\ phase = "drop"
    /\ CASE call.entry = "envelope" ->
                /\ Closed(DropObserved(rec), OkVerdict)
                /\ images' = <<>> /\ videos' = <<>>
                /\ answer' = OkVerdict /\ Goto("done")
         [] call.entry = "binding" ->
                /\ DropPlan(rec) /\ Goto("materialize")
                /\ UNCHANGED <<open, answer>>
         [] call.entry = "observer" ->
                /\ DropPlan(rec) /\ answer' = OkVerdict /\ Goto("done")
                /\ UNCHANGED open
         [] OTHER ->
                DropPlan(rec) /\ Goto("done") /\ UNCHANGED <<open, answer>>
    /\ UNCHANGED <<call, errors, owned>>

-------------------------------------------------------------------------------
(* Return                                                                     *)

(* drop_owned_media and the sweep that follows it.                            *)
DropOwnedMedia(r) ==
    ReleaseAllTransients(
        InTurn(r, [i \in DOMAIN owned |-> OwnedMedia("release", owned[i])]))

Contained(r) == ReleaseAllTransients(DiscardRetainedOutputs(r))

Unwind ==
    /\ phase = "unwind"
    /\ CASE call.entry = "envelope" -> Closed(Contained(rec), answer)
         [] call.entry = "binding" ->
                Closed(Contained(DropOwnedMedia(rec)), answer)
         [] OTHER -> UNCHANGED <<rec, open>>
    /\ owned' = <<>>
    /\ Goto("done")
    /\ UNCHANGED <<call, errors, images, videos, answer>>

Materialize ==
    /\ phase = "materialize"
    /\ LET dropped == DropOwnedMedia(rec)
           spanned == Spanned(dropped, "binding.numpy.materialize", CallScope,
                              call.convert)
       IN  IF call.convert = OkVerdict THEN Closed(spanned, OkVerdict)
           ELSE Closed(Contained(spanned), call.convert)
    /\ owned' = <<>>
    /\ answer' = call.convert
    /\ Goto("done")
    /\ UNCHANGED <<call, errors, images, videos>>

Returned == phase = "done" /\ UNCHANGED vars

Next ==
    \/ EnterCall \/ ParseRequests \/ OpenPlan
    \/ RejectEmptyBatch \/ ValidateAndRender \/ Preflight
    \/ PlanOccurrence \/ EndTraversal \/ Triage \/ SalvageImage \/ FinishSalvage
    \/ TokenizeRequest \/ CheckTextLimits
    \/ ExecutePlannedImage \/ FinishImages
    \/ ExecuteVideo \/ FinishVideos \/ CollectVideos
    \/ AllocateDestinations \/ ExecutePlan \/ CallerExecutes \/ CallerDrops
    \/ ReturnAndDropPlan
    \/ Unwind \/ Materialize \/ Returned

Spec == Init /\ [][Next]_vars

-------------------------------------------------------------------------------
(* Properties                                                                 *)

HeldBytes ==
    TotalOf([i \in DOMAIN owned |-> Bytes.owned])
    + TotalOf([i \in DOMAIN images |-> PreparedBytes(Media[images[i]])])
    + TotalOf([i \in DOMAIN videos |-> Bytes.video])

TypeOK ==
    /\ call.entry \in {"plan", "observer", "envelope", "binding"}
    /\ phase \in Phases
    /\ cursor \in Nat
    /\ errors \in Seq(Errors)
    /\ {Range(images), Range(videos)} \subseteq SUBSET Occurrences
    /\ owned \in Seq(Nat)
    /\ rec.outcome \in {"Success", "Error"}
    /\ {rec.live, rec.peak, rec.retained, rec.dropped, rec.clock} \subseteq Nat
    /\ answer \in Verdicts \cup {Unanswered, "memory_error", "python_conversion"}

(* A video that succeeded after one that had failed: collection stops at the  *)
(* failure and never reaches it.                                              *)
UncollectedVideos ==
    IF phase \in {"unwind", "done"}
    THEN {k \in VideosOf(call) :
            /\ ResizeVerdict(Media[k]) = OkVerdict
            /\ \E e \in ErrorsIn(errors) :
                 /\ e.place \in VideosOf(call) /\ e.place < k
                 /\ Media[e.place].plan = OkVerdict}
    ELSE {}

Swept == phase = "done" /\ call.entry \in {"envelope", "binding"}

(* Between two stages the recorder's live counter is the number of bytes the  *)
(* call really owns: copied inputs, prepared images and prepared videos,      *)
(* whatever failed and however few events the tables keep.  Videos executed   *)
(* after a failed one are the exception until an outer entry sweeps.          *)
LiveIsHeld ==
    IF UncollectedVideos = {} \/ Swept
    THEN rec.live = HeldBytes
    ELSE rec.live > HeldBytes

(* The counters agree with the buffer table: exactly when no event has been   *)
(* dropped, and from above when some have (a lost event still counts).        *)
CountersAgreeWithTable ==
    /\ LiveInTable(rec) <= rec.live
    /\ RetainedInTable(rec) <= rec.retained
    /\ rec.dropped = 0 =>
        LiveInTable(rec) = rec.live /\ RetainedInTable(rec) = rec.retained

(* Every event is kept or counted as dropped, and no table outgrows the       *)
(* capacity the caller asked for, zero included.                              *)
EventsAccounted ==
    /\ Len(rec.spans) + Len(rec.buffers) + Len(rec.copies) + rec.dropped
        = rec.nextSpan + rec.nextBuffer + rec.nextCopy
    /\ \A table \in {"spans", "buffers", "copies"} :
        Len(rec[table]) <= rec.capacity

(* Between two stages the spans on the recorder's stack are exactly those of  *)
(* the functions still running: no early return leaves one open, and none is  *)
(* closed under its owner.  Once the call has returned there is none.         *)
OpenSpansAreTheCallers ==
    /\ rec.active = [i \in DOMAIN open |-> open[i].sequence]
    /\ phase = "done" => open = <<>>

(* A finished span lasted at least as long as its direct children together,   *)
(* so the report's exclusive durations are differences and never saturate.    *)
ChildrenFitInTheirParent ==
    \A i \in DOMAIN rec.spans :
        LET span == rec.spans[i]
        IN  span.sequence \notin Range(rec.active) =>
                ExclusiveDuration(rec, span) + ChildDuration(rec, span)
                    = span.duration

(* The report fails exactly when the call does and names the very category    *)
(* the caller receives, whatever other failures were recorded on the way; the *)
(* outermost span of a failed envelope or binding call says the same.         *)
ReportAnswersTheCall ==
    phase = "done" =>
        IF answer = OkVerdict
        THEN /\ rec.outcome = "Success"
             /\ \A i \in DOMAIN rec.spans : rec.spans[i].outcome = "Success"
        ELSE /\ rec.outcome = "Error" /\ rec.category = answer
             /\ Swept /\ rec.spans # <<>> => rec.spans[1].category = answer

(* A failed call retains no output, in the counter or in the table; one that  *)
(* succeeds retains all of its destinations and nothing else.                 *)
RetainedIsWhatTheCallReturns ==
    phase = "done" =>
        /\ rec.retained = IF answer = OkVerdict /\ call.entry # "plan"
                          THEN Len(Outputs) * Bytes.output ELSE 0
        /\ answer # OkVerdict => RetainedInTable(rec) = 0

(* observability.rs: transient storage is released before the complete        *)
(* operation returns, and the counter is what is live at the snapshot.        *)
TransientsReleasedBeforeReturn == phase = "done" => rec.live = 0
==============================================================================
