---------------------------- MODULE BatchPlanning ----------------------------
(* QwenImageProcessor::plan_batch_internal as a state machine.  One thread    *)
(* validates the requests, plans every media occurrence and the text; image   *)
(* decoding fans out over the processor's worker pool; videos follow one by   *)
(* one.  A batch either becomes a complete plan or fails with one error.      *)
EXTENDS PrepareVerdict

(* A batch comes with the workers of the processor's pool and with whether a  *)
(* recorder is attached, which forces decoding in order.                      *)
CONSTANT Batches    \* the batches a caller may submit

ASSUME PlanningAssumption ==
    \A b \in Batches :
        IsBatch(b) /\ b.workers \in 1..256 /\ b.observed \in BOOLEAN

VARIABLES
    batch,              \* the borrowed requests: never written
    phase,              \* the stage the planning thread is in
    cursor,             \* <<request, item>> under validation or planning
    occurrenceIndex,    \* media occurrences met so far
    mediaErrors,        \* failures collected by traversal and salvage
    imageLayouts,       \* one row record per image that planned
    videoLayouts,       \* one row record per video that planned
    requestLayouts,     \* one record per request traversed
    visuals,            \* per request, the visuals in prompt order
    nextPixelRow,       \* rows assigned to images
    nextVideoPixelRow,  \* rows assigned to videos
    decode,             \* per pending image: waiting, running or decoded
    sidecar,            \* image grid rows in prompt order, with their request
    result

traversalVars ==
    <<cursor, occurrenceIndex, imageLayouts, videoLayouts, requestLayouts,
      visuals, nextPixelRow, nextVideoPixelRow>>

vars == <<batch, phase, mediaErrors, decode, sidecar, result, traversalVars>>

Phases == {"validate", "preflight", "traverse", "triage", "salvage", "text",
           "execute", "videos", "sidecar", "done"}

Request == batch.requests[cursor[1]]
Item == Request.items[cursor[2]]

Init ==
    /\ batch \in Batches
    /\ phase = "validate"
    /\ cursor = <<1, 1>>
    /\ occurrenceIndex = 0
    /\ mediaErrors = <<>>
    /\ imageLayouts = <<>>
    /\ videoLayouts = <<>>
    /\ requestLayouts = <<>>
    /\ visuals = [r \in DOMAIN batch.requests |-> <<>>]
    /\ nextPixelRow = 0
    /\ nextVideoPixelRow = 0
    /\ decode = <<>>
    /\ sidecar = <<>>
    /\ result = Pending

Fail(error) ==
    /\ phase' = "done"
    /\ result' = Failure(error)

MoveTo(stage) == phase' = stage /\ UNCHANGED result

-------------------------------------------------------------------------------
(* Admission: structure and rendering per request, then options and resources *)
(* for the whole batch.                                                       *)

RejectEmptyBatch ==
    /\ phase = "validate" /\ batch.requests = <<>>
    /\ Fail(Error("InvalidRequest", 0))
    /\ UNCHANGED <<batch, mediaErrors, decode, sidecar, traversalVars>>

ValidateAndRender ==
    /\ phase = "validate" /\ cursor[1] \in DOMAIN batch.requests
    /\ IF Rejection(Request) # OkVerdict
       THEN Fail(Error(Rejection(Request), cursor[1])) /\ UNCHANGED cursor
       ELSE IF cursor[1] < Len(batch.requests)
       THEN MoveTo("validate") /\ cursor' = <<cursor[1] + 1, 1>>
       ELSE MoveTo("preflight") /\ cursor' = <<1, 1>>
    /\ UNCHANGED <<batch, occurrenceIndex, mediaErrors, imageLayouts,
                   videoLayouts, requestLayouts, visuals, nextPixelRow,
                   nextVideoPixelRow, decode, sidecar>>

Preflight ==
    /\ phase = "preflight"
    /\ IF UnsupportedOptions(batch) # {}
       THEN LET r == FirstOf(UnsupportedOptions(batch))
            IN  Fail(Error(batch.requests[r].options, r))
       ELSE IF batch.resources # OkVerdict
       THEN Fail(Error(batch.resources, 0))
       ELSE MoveTo("traverse")
    /\ UNCHANGED <<batch, mediaErrors, decode, sidecar, traversalVars>>

-------------------------------------------------------------------------------
(* Traversal: requests, then content items, in source order.                  *)

Layout(index, gridRow, start) ==
    [place |-> index, at |-> cursor, gridRow |-> gridRow,
     start |-> start, end |-> start + Item.rows]

AdvanceItem == cursor' = <<cursor[1], cursor[2] + 1>>

SkipText ==
    /\ phase = "traverse" /\ cursor[1] \in DOMAIN batch.requests
    /\ cursor[2] \in DOMAIN Request.items /\ Item.kind = "text"
    /\ AdvanceItem
    /\ UNCHANGED <<batch, phase, occurrenceIndex, mediaErrors, imageLayouts,
                   videoLayouts, requestLayouts, visuals, nextPixelRow,
                   nextVideoPixelRow, decode, sidecar, result>>

OnMedia(kind) ==
    /\ phase = "traverse" /\ cursor[1] \in DOMAIN batch.requests
    /\ cursor[2] \in DOMAIN Request.items /\ Item.kind = kind

(* The failure of an occurrence is kept; the traversal goes on.               *)
KeepMediaError(kind, verdict) ==
    /\ OnMedia(kind) /\ verdict # OkVerdict
    /\ mediaErrors' = Append(mediaErrors, Error(verdict, occurrenceIndex))
    /\ occurrenceIndex' = occurrenceIndex + 1
    /\ AdvanceItem
    /\ UNCHANGED <<batch, phase, imageLayouts, videoLayouts, requestLayouts,
                   visuals, nextPixelRow, nextVideoPixelRow, decode, sidecar,
                   result>>

(* The planning closure asks for the geometry, so a retained geometry failure *)
(* is collected here and the image is not among those decoded later.          *)
ImagePlanVerdict == PlanningVerdict(Item)

VideoPlanVerdict == Item.plan

ImageFails == KeepMediaError("image", ImagePlanVerdict)
VideoFails == KeepMediaError("video", VideoPlanVerdict)

(* Mutated form: grid rows counted over all occurrences, videos included.     *)
ImageLayoutByOccurrence ==
    Layout(occurrenceIndex, occurrenceIndex, nextPixelRow)

ImageLayout == Layout(occurrenceIndex, Len(imageLayouts), nextPixelRow)

PlanImage ==
    /\ OnMedia("image") /\ ImagePlanVerdict = OkVerdict
    /\ imageLayouts' = Append(imageLayouts, ImageLayout)
    /\ visuals' = [visuals EXCEPT ![cursor[1]] =
                      Append(@, <<"image", Len(imageLayouts)>>)]
    /\ nextPixelRow' = nextPixelRow + Item.rows
    /\ occurrenceIndex' = occurrenceIndex + 1
    /\ AdvanceItem
    /\ UNCHANGED <<batch, phase, mediaErrors, videoLayouts, requestLayouts,
                   nextVideoPixelRow, decode, sidecar, result>>

PlanVideo ==
    /\ OnMedia("video") /\ VideoPlanVerdict = OkVerdict
    /\ videoLayouts' = Append(videoLayouts,
          Layout(occurrenceIndex, Len(videoLayouts), nextVideoPixelRow))
    /\ visuals' = [visuals EXCEPT ![cursor[1]] =
                      Append(@, <<"video", Len(videoLayouts)>>)]
    /\ nextVideoPixelRow' = nextVideoPixelRow + Item.rows
    /\ occurrenceIndex' = occurrenceIndex + 1
    /\ AdvanceItem
    /\ UNCHANGED <<batch, phase, mediaErrors, imageLayouts, requestLayouts,
                   nextPixelRow, decode, sidecar, result>>

(* Where the ranges of the current request begin: the end of the previous.    *)
GridStart ==
    IF requestLayouts = <<>> THEN 0
    ELSE requestLayouts[Len(requestLayouts)].gridEnd

PixelStart ==
    IF requestLayouts = <<>> THEN 0
    ELSE requestLayouts[Len(requestLayouts)].pixelEnd

CloseRequest ==
    /\ phase = "traverse" /\ cursor[1] \in DOMAIN batch.requests
    /\ cursor[2] > Len(Request.items)
    /\ requestLayouts' = Append(requestLayouts,
          [gridStart |-> GridStart, gridEnd |-> Len(imageLayouts),
           pixelStart |-> PixelStart, pixelEnd |-> nextPixelRow])
    /\ IF cursor[1] < Len(batch.requests)
       THEN MoveTo("traverse") /\ cursor' = <<cursor[1] + 1, 1>>
       ELSE MoveTo("triage") /\ UNCHANGED cursor
    /\ UNCHANGED <<batch, occurrenceIndex, mediaErrors, imageLayouts,
                   videoLayouts, visuals, nextPixelRow, nextVideoPixelRow,
                   decode, sidecar>>

-------------------------------------------------------------------------------
(* With the traversal over: overflow and resource failures answer at once,    *)
(* other failures send the clean images to a salvage decode, none to text.    *)

WorkersAtRest == [k \in DOMAIN imageLayouts |-> "waiting"]

(* Mutated form: overflow and resource failures wait for the salvage decode.  *)
TriageWithoutPredecode ==
    /\ phase = "triage"
    /\ IF mediaErrors # <<>>
       THEN MoveTo("salvage") /\ decode' = WorkersAtRest
       ELSE MoveTo("text") /\ UNCHANGED decode
    /\ UNCHANGED <<batch, mediaErrors, sidecar, traversalVars>>

Triage ==
    /\ phase = "triage"
    /\ IF PredecodeErrors(mediaErrors) # {}
       THEN /\ Fail(PreferredPredecodeError(mediaErrors))
            /\ UNCHANGED decode
       ELSE IF mediaErrors # <<>>
       THEN MoveTo("salvage") /\ decode' = WorkersAtRest
       ELSE MoveTo("text") /\ UNCHANGED decode
    /\ UNCHANGED <<batch, mediaErrors, sidecar, traversalVars>>

(* Text planning enforces the token, text-output and host-output limits over  *)
(* the grids just planned.                                                    *)
PlanText ==
    /\ phase = "text"
    /\ IF batch.text # OkVerdict
       THEN Fail(Error(batch.text, 0)) /\ UNCHANGED decode
       ELSE MoveTo("execute") /\ decode' = WorkersAtRest
    /\ UNCHANGED <<batch, mediaErrors, sidecar, traversalVars>>

-------------------------------------------------------------------------------
(* Image decoding: parallel over the pool, or in order on the caller.         *)

Parallel == ~batch.observed /\ batch.workers > 1

Running == {k \in DOMAIN decode : decode[k] = "running"}

Decoding == phase \in {"salvage", "execute"}

MayStart(k) ==
    IF Parallel THEN Cardinality(Running) < batch.workers
    ELSE \A j \in 1..(k - 1) : decode[j] = "decoded"

StartDecode(k) ==
    /\ Decoding /\ decode[k] = "waiting" /\ MayStart(k)
    /\ decode' = [decode EXCEPT ![k] = "running"]
    /\ UNCHANGED <<batch, phase, mediaErrors, sidecar, result, traversalVars>>

FinishDecode(k) ==
    /\ Decoding /\ decode[k] = "running"
    /\ decode' = [decode EXCEPT ![k] = "decoded"]
    /\ UNCHANGED <<batch, phase, mediaErrors, sidecar, result, traversalVars>>

BodyKnown(k) ==
    IF decode[k] = "decoded"
    THEN ItemAt(batch, imageLayouts[k].at).body ELSE OkVerdict

(* Mutated form: an outcome is attributed to its place among the pending.     *)
OutcomeByPendingIndex(k) == Error(BodyKnown(k), k - 1)

(* The outcome of one pending image, kept with the occurrence it belongs to;  *)
(* collect keeps the order of the images, whatever order they finished in.    *)
Outcome(k) == Error(BodyKnown(k), imageLayouts[k].place)

Outcomes == [k \in DOMAIN imageLayouts |-> Outcome(k)]

(* Mutated form: the results of clean images are kept with the failures.      *)
DecodeErrorsUnfiltered == Outcomes

DecodeErrors ==
    Selected(Outcomes, {k \in DOMAIN imageLayouts : BodyKnown(k) # OkVerdict})

(* Mutated form: collection stops at the first failure that is known.         *)
FirstFailureKnown ==
    \/ \A k \in DOMAIN decode : decode[k] = "decoded"
    \/ \E k \in DOMAIN decode : BodyKnown(k) # OkVerdict

AllDecoded == \A k \in DOMAIN decode : decode[k] = "decoded"

(* Mutated form: what the salvage decode found is not considered.            *)
FinishSalvageIgnoringDecodes ==
    /\ phase = "salvage" /\ AllDecoded
    /\ Fail(SelectPreferredError(mediaErrors))
    /\ UNCHANGED <<batch, mediaErrors, decode, sidecar, traversalVars>>

FinishSalvage ==
    /\ phase = "salvage" /\ AllDecoded
    /\ mediaErrors' = mediaErrors \o DecodeErrors
    /\ Fail(SelectPreferredError(mediaErrors'))
    /\ UNCHANGED <<batch, decode, sidecar, traversalVars>>

FinishExecute ==
    /\ phase = "execute" /\ AllDecoded
    /\ IF DecodeErrors # <<>>
       THEN Fail(SelectPreferredError(DecodeErrors))
       ELSE MoveTo("videos")
    /\ UNCHANGED <<batch, mediaErrors, decode, sidecar, traversalVars>>

-------------------------------------------------------------------------------
(* Every video is executed; the first failure in order is the answer.         *)

(* Mutated form: a video that failed to execute is left out of the plan.      *)
FailedVideosForgotten == {}

FailedVideos ==
    {k \in DOMAIN videoLayouts :
        ItemAt(batch, videoLayouts[k].at).body # OkVerdict}

ExecuteVideos ==
    /\ phase = "videos"
    /\ IF FailedVideos # {}
       THEN LET v == videoLayouts[FirstOf(FailedVideos)]
            IN  Fail(Error(ItemAt(batch, v.at).body, v.place))
       ELSE MoveTo("sidecar")
    /\ UNCHANGED <<batch, mediaErrors, decode, sidecar, traversalVars>>

-------------------------------------------------------------------------------
(* The sidecar pairs the k-th image replacement of the prompts with the k-th  *)
(* image layout and refuses a pairing that crosses requests.                  *)

ReplacementRequests ==
    LET images(r) == {k \in DOMAIN visuals[r] : visuals[r][k][1] = "image"}
        upTo[r \in 0..Len(batch.requests)] ==
            IF r = 0 THEN <<>>
            ELSE upTo[r - 1] \o [k \in 1..Cardinality(images(r)) |-> r]
    IN  upTo[Len(batch.requests)]

BuildSidecar ==
    /\ phase = "sidecar"
    /\ LET pairs == [k \in DOMAIN ReplacementRequests |->
                        [request |-> ReplacementRequests[k],
                         gridRow |-> imageLayouts[k].gridRow]]
           agrees == /\ Len(pairs) = Len(imageLayouts)
                     /\ \A k \in DOMAIN pairs :
                            pairs[k].request = imageLayouts[k].at[1]
       IN  IF agrees
           THEN /\ sidecar' = pairs
                /\ phase' = "done"
                /\ result' = Prepared
           ELSE /\ Fail(Error("InternalInvariant", 0))
                /\ UNCHANGED sidecar
    /\ UNCHANGED <<batch, mediaErrors, decode, traversalVars>>

-------------------------------------------------------------------------------
PlanningThread ==
    \/ RejectEmptyBatch \/ ValidateAndRender \/ Preflight
    \/ SkipText \/ ImageFails \/ VideoFails \/ PlanImage \/ PlanVideo
    \/ CloseRequest \/ Triage \/ PlanText
    \/ FinishSalvage \/ FinishExecute \/ ExecuteVideos \/ BuildSidecar

Worker == \E k \in DOMAIN decode : StartDecode(k) \/ FinishDecode(k)

Finished == phase = "done" /\ UNCHANGED vars

Next == PlanningThread \/ Worker \/ Finished

(* The planning thread runs to completion, and the pool runs what it is given.*)
Spec == Init /\ [][Next]_vars /\ WF_vars(PlanningThread) /\ WF_vars(Worker)

-------------------------------------------------------------------------------
TypeOK ==
    /\ \A p \in Positions(batch) : ItemAt(batch, p) \in Items
    /\ phase \in Phases
    /\ cursor \in Nat \X Nat
    /\ occurrenceIndex \in Nat
    /\ ErrorsIn(mediaErrors) \subseteq Errors
    /\ \A k \in DOMAIN imageLayouts : imageLayouts[k].at \in Positions(batch)
    /\ \A k \in DOMAIN videoLayouts : videoLayouts[k].at \in Positions(batch)
    /\ DOMAIN visuals = DOMAIN batch.requests
    /\ \A k \in DOMAIN decode : decode[k] \in {"waiting", "running", "decoded"}
    /\ result \in Results

(* Image rows tile the pixel output: layouts are contiguous from row zero and *)
(* end at the row counter, grid rows count the images, and the ranges of the  *)
(* requests partition both, each image inside its own request's ranges        *)
(* (plan_batch_internal, the layout and request_layouts pushes).              *)
LayoutsTileTheOutput ==
    LET before(k) == IF k = 1 THEN 0 ELSE imageLayouts[k - 1].end
        inRange(k, r) ==
            /\ requestLayouts[r].gridStart < k /\ k <= requestLayouts[r].gridEnd
            /\ requestLayouts[r].pixelStart <= imageLayouts[k].start
            /\ imageLayouts[k].end <= requestLayouts[r].pixelEnd
    IN  /\ \A k \in DOMAIN imageLayouts :
              /\ imageLayouts[k].start = before(k)
              /\ imageLayouts[k].gridRow = k - 1
              /\ imageLayouts[k].place = OccurrenceIndex(batch, imageLayouts[k].at)
              /\ \A r \in DOMAIN requestLayouts :
                    inRange(k, r) <=> imageLayouts[k].at[1] = r
        /\ nextPixelRow = before(Len(imageLayouts) + 1)

(* A key (precedence, occurrence) occurs once in the collected failures, so   *)
(* that select_preferred_error cannot depend on the order they were pushed in *)
(* and never hides one occurrence's failure behind another's index.           *)
CollectedErrorsHaveDistinctPlaces ==
    \A j, k \in DOMAIN mediaErrors :
        mediaErrors[j].place = mediaErrors[k].place => j = k

(* Aggregate resource and capacity failures precede full media decode: when a *)
(* worker has touched an image, the batch was admitted, no occurrence has an  *)
(* overflow or resource failure, and either the text fits its limits or the   *)
(* batch is already known to fail (documentation of plan_batch).              *)
LimitsPrecedeDecoding ==
    (\E k \in DOMAIN decode : decode[k] # "waiting") =>
        LET planning == ErrorsAt(batch, Positions(batch), PlanningVerdict)
        IN  /\ AdmissionFailures(batch) = {}
            /\ Predecode(planning) = {}
            /\ planning # {} \/ TextFailures(batch) = {}

(* A batch that plans has planned and decoded every occurrence, and the k-th  *)
(* image placeholder run of the prompts is the k-th image of the pixel rows,  *)
(* in the request that holds it.                                              *)
PreparedBatchesAreComplete ==
    result = Prepared =>
        LET at == [k \in DOMAIN imageLayouts |-> imageLayouts[k].at]
        IN  /\ \A p \in Positions(batch) :
                  ExecutionVerdict(ItemAt(batch, p)) = OkVerdict
            /\ {at[k] : k \in DOMAIN at} = OfKind(batch, "image")
            /\ \A j, k \in DOMAIN at : j < k => Precedes(at[j], at[k])
            /\ Len(videoLayouts) = Cardinality(OfKind(batch, "video"))
            /\ Len(sidecar) = Len(at)
            /\ \A k \in DOMAIN sidecar :
                  sidecar[k] = [request |-> at[k][1], gridRow |-> k - 1]

(* Whatever the pool does, the batch answers once and with the verdict its    *)
(* requests alone determine (prepare: thread budgets do not change results).  *)
Contract == INSTANCE VerdictContract WITH Verdict <- BatchVerdict

AnswersWithTheVerdictOfTheBatch == Contract!Spec

(* A recognised image that does not decode is reported before any geometry    *)
(* failure (error.rs, ValidationStage::ORDER; media.rs, plan_image_rgb8).     *)
DecodePrecedesGeometry ==
    result.status = "failed" /\ result.error.category = "MediaGeometry" =>
        \A p \in OfKind(batch, "image") :
            ItemAt(batch, p).body # "MediaDecode"
==============================================================================
