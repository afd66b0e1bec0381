---------------------------- MODULE SinglePrepare ----------------------------
(* QwenImageProcessor::prepare_internal: one image request, planned, limited, *)
(* decoded and patchified on the calling thread.  Every image whose header    *)
(* planned is decoded, the ones with a retained geometry failure included,    *)
(* before one failure is chosen.                                              *)
EXTENDS PrepareVerdict

CONSTANT Batches        \* the one-request batches a caller may submit

(* Nothing before the decode fails with a geometry: admission and text use    *)
(* other categories, and plan_image_rgb8 retains what geometry it refuses.    *)
ASSUME RequestsAssumption ==
    \A b \in Batches :
        /\ IsBatch(b) /\ Len(b.requests) = 1
        /\ "MediaGeometry" \notin {b.resources, b.text, b.requests[1].structure,
                                   b.requests[1].render, b.requests[1].options}
        /\ \A p \in OfKind(b, "image") : ItemAt(b, p).plan # "MediaGeometry"

VARIABLES
    batch,          \* the borrowed request, as a batch of one
    phase,
    item,           \* next content item to plan
    occurrence,     \* images met so far
    planned,        \* images whose header planned, in order: [place, at]
    mediaErrors,
    visuals,        \* positions handed to text planning, in order
    textPlanned,    \* text_plan is Some
    nextPixelRow,   \* rows reserved for the output before any decode
    next,           \* next planned image to execute
    processed,      \* executed images, in order: [at, start, end]
    result

vars == <<batch, phase, item, occurrence, planned, mediaErrors, visuals,
          textPlanned, nextPixelRow, next, processed, result>>

Request == batch.requests[1]
Item == Request.items[item]

Init ==
    /\ batch \in Batches
    /\ phase = "admit"
    /\ item = 1
    /\ occurrence = 0
    /\ planned = <<>>
    /\ mediaErrors = <<>>
    /\ visuals = <<>>
    /\ textPlanned = FALSE
    /\ nextPixelRow = 0
    /\ next = 1
    /\ processed = <<>>
    /\ result = Pending

Fail(error) == phase' = "done" /\ result' = Failure(error)

MoveTo(stage) == phase' = stage /\ UNCHANGED result

(* Structure and rendering, options, resources, then the refusal of videos.   *)
Admit ==
    /\ phase = "admit"
    /\ IF Rejection(Request) # OkVerdict
       THEN Fail(Error(Rejection(Request), 1))
       ELSE IF Request.options # OkVerdict THEN Fail(Error(Request.options, 1))
       ELSE IF batch.resources # OkVerdict THEN Fail(Error(batch.resources, 0))
       ELSE IF OfKind(batch, "video") # {}
       THEN Fail(Error("UnsupportedMedia", 0))
       ELSE MoveTo("headers")
    /\ UNCHANGED <<batch, item, occurrence, planned, mediaErrors, visuals,
                   textPlanned, nextPixelRow, next, processed>>

SkipText ==
    /\ phase = "headers" /\ item \in DOMAIN Request.items
    /\ Item.kind = "text"
    /\ item' = item + 1
    /\ UNCHANGED <<batch, phase, occurrence, planned, mediaErrors, visuals,
                   textPlanned, nextPixelRow, next, processed, result>>

(* Mutated form: a result is collected whether or not it is a failure.        *)
HeaderErrorsUnfiltered(it) == <<Error(HeaderVerdict(it), occurrence)>>

HeaderErrors(it) ==
    IF HeaderVerdict(it) = OkVerdict THEN <<>>
    ELSE <<Error(HeaderVerdict(it), occurrence)>>

PlanHeader ==
    /\ phase = "headers" /\ item \in DOMAIN Request.items
    /\ Item.kind = "image"
    /\ mediaErrors' = mediaErrors \o HeaderErrors(Item)
    /\ planned' = IF HeaderVerdict(Item) = OkVerdict
                  THEN Append(planned, [place |-> occurrence, at |-> <<1, item>>])
                  ELSE planned
    /\ occurrence' = occurrence + 1
    /\ item' = item + 1
    /\ UNCHANGED <<batch, phase, visuals, textPlanned, nextPixelRow, next,
                   processed, result>>

WithGeometry ==
    Selected(planned, {k \in DOMAIN planned :
                          ItemAt(batch, planned[k].at).geometry = OkVerdict})

(* Mutated form: one patch row per image.                                     *)
RowsOfOnePerImage(list) == Len(list)

RowsOf(list) ==
    LET upTo[k \in 0..Len(list)] ==
            IF k = 0 THEN 0
            ELSE upTo[k - 1] + ItemAt(batch, list[k].at).rows
    IN  upTo[Len(list)]

AllGeometryValid == mediaErrors = <<>> /\ WithGeometry = planned

(* Rows and output bytes are summed over the images with a geometry; overflow *)
(* and resource failures answer at once; text is planned, and limited, only   *)
(* when every image has a geometry.                                           *)
PlanOutputs ==
    /\ phase = "headers" /\ item > Len(Request.items)
    /\ nextPixelRow' = RowsOf(WithGeometry)
    /\ visuals' = [k \in DOMAIN WithGeometry |-> WithGeometry[k].at]
    /\ IF PredecodeErrors(mediaErrors) # {}
       THEN /\ Fail(PreferredPredecodeError(mediaErrors))
            /\ UNCHANGED textPlanned
       ELSE IF AllGeometryValid /\ batch.text # OkVerdict
       THEN Fail(Error(batch.text, 0)) /\ UNCHANGED textPlanned
       ELSE MoveTo("execute") /\ textPlanned' = AllGeometryValid
    /\ UNCHANGED <<batch, item, occurrence, planned, mediaErrors, next,
                   processed>>

RowEnd ==
    IF processed = <<>> THEN 0 ELSE processed[Len(processed)].end

(* Mutated form: the retained geometry failure is reported without a decode.  *)
GeometryBeforeBody(it) == PlanningVerdict(it)

(* Mutated form: a retained geometry failure is not looked at again.          *)
BodyOnly(it) == it.body

Executed(it) == ExecutionVerdict(it)

ExecuteImage ==
    /\ phase = "execute" /\ next \in DOMAIN planned
    /\ LET it == ItemAt(batch, planned[next].at)
       IN  IF Executed(it) = OkVerdict
           THEN /\ processed' = Append(processed,
                      [at |-> planned[next].at, start |-> RowEnd,
                       end |-> RowEnd + it.rows])
                /\ UNCHANGED mediaErrors
           ELSE /\ mediaErrors' = Append(mediaErrors,
                      Error(Executed(it), planned[next].place))
                /\ UNCHANGED processed
    /\ next' = next + 1
    /\ UNCHANGED <<batch, phase, item, occurrence, planned, visuals,
                   textPlanned, nextPixelRow, result>>

(* The composed result is checked against the text plan: a plan must exist,   *)
(* and replacements, images and the reserved rows must agree.                 *)
Agreement ==
    /\ textPlanned
    /\ Len(visuals) = Len(processed)
    /\ RowEnd = nextPixelRow

Compose ==
    /\ phase = "execute" /\ next > Len(planned)
    /\ IF mediaErrors # <<>> THEN Fail(SelectPreferredError(mediaErrors))
       ELSE IF ~Agreement THEN Fail(Error("InternalInvariant", 0))
       ELSE phase' = "done" /\ result' = Prepared
    /\ UNCHANGED <<batch, item, occurrence, planned, mediaErrors, visuals,
                   textPlanned, nextPixelRow, next, processed>>

Step == Admit \/ SkipText \/ PlanHeader \/ PlanOutputs \/ ExecuteImage \/ Compose

Finished == phase = "done" /\ UNCHANGED vars

Next == Step \/ Finished

Spec == Init /\ [][Next]_vars /\ WF_vars(Step)

-------------------------------------------------------------------------------
TypeOK ==
    /\ phase \in {"admit", "headers", "execute", "done"}
    /\ item \in 1..(Len(Request.items) + 1)
    /\ next \in 1..(Len(planned) + 1)
    /\ occurrence \in Nat /\ nextPixelRow \in Nat
    /\ ErrorsIn(mediaErrors) \subseteq Errors
    /\ \A k \in DOMAIN planned : planned[k].at \in Positions(batch)
    /\ textPlanned \in BOOLEAN
    /\ result \in Results

(* A recognised image that does not decode is reported before any geometry    *)
(* failure of the request (error.rs, ValidationStage::ORDER).                 *)
DecodePrecedesGeometry ==
    result.status = "failed" /\ result.error.category = "MediaGeometry" =>
        \A p \in PlannedCleanly(batch, "image", HeaderVerdict) :
            ItemAt(batch, p).body # "MediaDecode"

(* The checks of the composed result never fire: when every image has been    *)
(* executed and none failed, there is a text plan and it agrees with the rows *)
(* and the images (prepare_internal, the comparisons after the last patch).   *)
CompositionChecksAgree ==
    phase = "execute" /\ next > Len(planned) /\ mediaErrors = <<>> => Agreement

(* The caller's answer is the documented verdict of the request, and comes.   *)
Contract == INSTANCE VerdictContract WITH Verdict <- SingleVerdict

AnswersWithTheVerdictOfTheRequest == Contract!Spec
==============================================================================
