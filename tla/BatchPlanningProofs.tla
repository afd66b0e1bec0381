-------------------------- MODULE BatchPlanningProofs --------------------------
(* Proofs about BatchPlanning: for every batch, of any number of requests and *)
(* items, every pool and every order in which its workers finish.             *)
EXTENDS BatchPlanning, PrepareLemmas

(* What planning appends to its tables.                                       *)
Layouts ==
    [place : Nat, at : (Nat \ {0}) \X (Nat \ {0}), gridRow : Nat,
     start : Nat, end : Nat]

Ranges == [gridStart : Nat, gridEnd : Nat, pixelStart : Nat, pixelEnd : Nat]

DecodeStates == {"waiting", "running", "decoded"}

Visuals == {"image", "video"} \X Nat

Typed ==
    /\ batch \in Batches
    /\ phase \in Phases
    /\ cursor \in (Nat \ {0}) \X (Nat \ {0})
    /\ occurrenceIndex \in Nat
    /\ mediaErrors \in Seq(Errors)
    /\ imageLayouts \in Seq(Layouts)
    /\ videoLayouts \in Seq(Layouts)
    /\ requestLayouts \in Seq(Ranges)
    /\ DOMAIN visuals = DOMAIN batch.requests
    /\ \A r \in DOMAIN visuals : visuals[r] \in Seq(Visuals)
    /\ nextPixelRow \in Nat /\ nextVideoPixelRow \in Nat
    /\ decode = <<>> \/ decode \in [DOMAIN imageLayouts -> DecodeStates]
    /\ result \in Results

(* The phases before the first occurrence is met, and after the last.         *)
Before == {"validate", "preflight"}

After == {"triage", "salvage", "text", "execute", "videos", "sidecar"}

(* The occurrences that traversal has left behind.                            *)
Passed == {p \in Positions(batch) : Precedes(p, cursor)}

(* What each phase may rely on.                                               *)
PhasesHold ==
    /\ phase # "done" <=> result = Pending
    /\ phase \in Before =>
          /\ cursor[2] = 1 /\ occurrenceIndex = 0 /\ mediaErrors = <<>>
          /\ imageLayouts = <<>> /\ videoLayouts = <<>> /\ requestLayouts = <<>>
    /\ phase = "validate" =>
          \A r \in DOMAIN batch.requests :
              r < cursor[1] => Rejection(batch.requests[r]) = OkVerdict
    /\ phase \notin {"validate", "done"} =>
          batch.requests # <<>> /\ Unrendered(batch) = {}
    /\ phase = "preflight" => cursor = <<1, 1>>
    /\ phase \notin Before \cup {"done"} => AdmissionFailures(batch) = {}
    /\ phase = "traverse" =>
          /\ cursor[1] = Len(requestLayouts) + 1
          /\ cursor[1] \in DOMAIN batch.requests
          /\ cursor[2] <= Len(Request.items) + 1
    /\ phase \in After =>
          /\ Len(requestLayouts) = Len(batch.requests)
          /\ Passed = Positions(batch)
    /\ phase \in Before \cup {"traverse", "triage", "text"} => decode = <<>>
    /\ phase \in After \ {"triage", "text"} =>
          decode \in [DOMAIN imageLayouts -> DecodeStates]
    /\ phase \in {"text", "execute", "videos", "sidecar"} => mediaErrors = <<>>
    /\ phase = "salvage" => mediaErrors # <<>>

(* The row at which the k-th image begins.                                    *)
RowBefore(k) == IF k = 1 THEN 0 ELSE imageLayouts[k - 1].end

ImagesInOrder ==
    /\ \A k \in DOMAIN imageLayouts :
          /\ imageLayouts[k].at \in OfKind(batch, "image")
          /\ PlanningVerdict(ItemAt(batch, imageLayouts[k].at)) = OkVerdict
          /\ imageLayouts[k].place = OccurrenceIndex(batch, imageLayouts[k].at)
          /\ imageLayouts[k].gridRow = k - 1
          /\ imageLayouts[k].start = RowBefore(k)
          /\ imageLayouts[k].start <= imageLayouts[k].end
          /\ imageLayouts[k].end <= nextPixelRow
          /\ \A j \in DOMAIN imageLayouts : j < k =>
                /\ Precedes(imageLayouts[j].at, imageLayouts[k].at)
                /\ imageLayouts[j].end <= imageLayouts[k].start
    /\ nextPixelRow = RowBefore(Len(imageLayouts) + 1)

VideosInOrder ==
    \A k \in DOMAIN videoLayouts :
        /\ videoLayouts[k].at \in OfKind(batch, "video")
        /\ PlanningVerdict(ItemAt(batch, videoLayouts[k].at)) = OkVerdict
        /\ videoLayouts[k].place = OccurrenceIndex(batch, videoLayouts[k].at)
        /\ \A j \in DOMAIN videoLayouts :
              j < k => Precedes(videoLayouts[j].at, videoLayouts[k].at)

Traversing == phase \notin Before \cup {"done"}

(* What is behind the cursor is in one of the tables, and nothing else is.    *)
NothingIsMissed ==
    Traversing =>
        /\ occurrenceIndex = OccurrenceIndex(batch, cursor)
        /\ \A k \in DOMAIN imageLayouts : Precedes(imageLayouts[k].at, cursor)
        /\ \A k \in DOMAIN videoLayouts : Precedes(videoLayouts[k].at, cursor)
        /\ \A p \in Passed : PlanningVerdict(ItemAt(batch, p)) = OkVerdict =>
              IF ItemAt(batch, p).kind = "image"
              THEN \E k \in DOMAIN imageLayouts : imageLayouts[k].at = p
              ELSE \E k \in DOMAIN videoLayouts : videoLayouts[k].at = p
        /\ ErrorsIn(mediaErrors) = ErrorsAt(batch, Passed, PlanningVerdict)

FailuresInOrder ==
    Traversing =>
        /\ \A k \in DOMAIN mediaErrors : mediaErrors[k].place < occurrenceIndex
        /\ \A j, k \in DOMAIN mediaErrors :
              j < k => mediaErrors[j].place < mediaErrors[k].place

(* The ranges of the requests that are closed, and where those of the request *)
(* at hand begin.                                                             *)
InRange(k, r) ==
    /\ requestLayouts[r].gridStart < k /\ k <= requestLayouts[r].gridEnd
    /\ requestLayouts[r].pixelStart <= imageLayouts[k].start
    /\ imageLayouts[k].end <= requestLayouts[r].pixelEnd

RangesHold ==
    /\ \A r \in DOMAIN requestLayouts :
          /\ requestLayouts[r].gridEnd <= Len(imageLayouts)
          /\ \A k \in DOMAIN imageLayouts :
                InRange(k, r) <=> imageLayouts[k].at[1] = r
    /\ phase = "traverse" =>
          /\ GridStart <= Len(imageLayouts) /\ PixelStart <= nextPixelRow
          /\ \A k \in DOMAIN imageLayouts :
                /\ k > GridStart <=> imageLayouts[k].at[1] = cursor[1]
                /\ k > GridStart => PixelStart <= imageLayouts[k].start

PlanningFailures == ErrorsAt(batch, Positions(batch), PlanningVerdict)

(* Pixels are looked at only when no limit refuses the batch.                 *)
DecodingIsDue ==
    decode # <<>> \/ phase \in {"salvage", "execute", "videos", "sidecar"} =>
        /\ AdmissionFailures(batch) = {}
        /\ Predecode(PlanningFailures) = {}
        /\ PlanningFailures # {} \/ TextFailures(batch) = {}

(* What the stages passed have established.                                   *)
StagesPassed ==
    /\ phase \in {"execute", "videos", "sidecar"} => TextFailures(batch) = {}
    /\ phase \in {"videos", "sidecar"} =>
          \A k \in DOMAIN imageLayouts :
              ItemAt(batch, imageLayouts[k].at).body = OkVerdict
    /\ phase = "sidecar" =>
          \A k \in DOMAIN videoLayouts :
              ItemAt(batch, videoLayouts[k].at).body = OkVerdict

Inv ==
    /\ Typed /\ PhasesHold /\ ImagesInOrder /\ VideosInOrder
    /\ NothingIsMissed /\ FailuresInOrder /\ RangesHold
    /\ DecodingIsDue /\ StagesPassed

-------------------------------------------------------------------------------
(* The batch under preparation is one that the requests admit.                *)
LEMMA BatchIsABatch ==
    ASSUME Typed
    PROVE  IsBatch(batch)
BY PlanningAssumption DEF Typed

(* The occurrence at hand stands at the cursor.                               *)
LEMMA OccurrenceAtHand ==
    ASSUME Typed, NEW kind \in {"image", "video"}, OnMedia(kind)
    PROVE  /\ cursor \in Positions(batch) /\ cursor \in OfKind(batch, kind)
           /\ cursor = <<cursor[1], cursor[2]>>
           /\ cursor[1] \in DOMAIN visuals
           /\ Item = ItemAt(batch, cursor) /\ Item \in Items
           /\ Item.rows \in Nat /\ Item.kind = kind
<1>1. cursor = <<cursor[1], cursor[2]>>
    BY DEF Typed
<1>2. Item = ItemAt(batch, cursor)
    BY DEF Item, Request, ItemAt
<1>3. <<cursor[1], cursor[2]>> \in Positions(batch)
    BY PositionsOfABatch DEF OnMedia, Item, Request
<1>4. ItemAt(batch, cursor) \in Items /\ ItemAt(batch, cursor).rows \in Nat
    BY <1>1, <1>3, BatchIsABatch, ItemsOfABatch
<1> QED BY <1>1, <1>2, <1>3, <1>4 DEF OfKind, OnMedia, Typed

(* The request at the cursor, while there is one.                             *)
LEMMA RequestAtHand ==
    ASSUME Typed, cursor[1] \in DOMAIN batch.requests
    PROVE  /\ Request \in Requests
           /\ Request.items \in Seq(Items)
           /\ Len(Request.items) \in Nat
           /\ DOMAIN Request.items = 1..Len(Request.items)
           /\ Rejection(Request) \in Verdicts
<1>1. batch.requests[cursor[1]] \in Requests
    BY BatchIsABatch, RequestsOfABatch
<1> QED BY <1>1, BatchIsABatch, RequestsOfABatch DEF Request, Requests, Rejection

(* The outcomes of the pending images, and the failures among them.           *)
LEMMA OutcomesAre ==
    ASSUME Typed, ImagesInOrder
    PROVE  /\ Outcomes \in Seq([category : Verdicts, place : Nat])
           /\ Len(Outcomes) = Len(imageLayouts)
           /\ DOMAIN imageLayouts = 1..Len(imageLayouts)
           /\ \A k \in DOMAIN imageLayouts :
                 /\ Outcomes[k] = Error(BodyKnown(k), imageLayouts[k].place)
                 /\ BodyKnown(k) \in Verdicts /\ imageLayouts[k].place \in Nat
<1>1. DOMAIN imageLayouts = 1..Len(imageLayouts) /\ Len(imageLayouts) \in Nat
    BY DEF Typed
<1>2. ASSUME NEW k \in DOMAIN imageLayouts
      PROVE  BodyKnown(k) \in Verdicts /\ imageLayouts[k].place \in Nat
    <2>1. imageLayouts[k].at \in Positions(batch)
        BY DEF ImagesInOrder, OfKind
    <2>2. ItemAt(batch, imageLayouts[k].at).body \in Verdicts
        BY <2>1, BatchIsABatch, ItemsOfABatch
    <2>3. imageLayouts[k] \in Layouts
        BY DEF Typed
    <2> QED BY <2>2, <2>3 DEF BodyKnown, Verdicts, Layouts
<1>3. \A k \in DOMAIN imageLayouts :
          Outcome(k) \in [category : Verdicts, place : Nat]
    BY <1>2 DEF Outcome, Error
<1> QED BY <1>1, <1>2, <1>3 DEF Outcomes, Outcome

(* The failures of the pool are its outcomes at the images that did not       *)
(* decode, in the order of the images.                                        *)
LEMMA DecodeErrorsAre ==
    ASSUME Typed, ImagesInOrder
    PROVE  /\ DecodeErrors \in Seq(Errors)
           /\ \E f : Lists(f, DecodeErrors, Outcomes,
                           {k \in DOMAIN imageLayouts : BodyKnown(k) # OkVerdict},
                           Len(imageLayouts))
<1> DEFINE Failed == {k \in DOMAIN imageLayouts : BodyKnown(k) # OkVerdict}
<1>1. DecodeErrors = Selected(Outcomes, Failed)
    BY DEF DecodeErrors
<1>2. /\ DecodeErrors \in Seq([category : Verdicts, place : Nat])
      /\ \E f : Lists(f, DecodeErrors, Outcomes, Failed, Len(imageLayouts))
    BY <1>1, OutcomesAre, SelectedListsThePlaces
<1>3. PICK f : Lists(f, DecodeErrors, Outcomes, Failed, Len(imageLayouts))
    BY <1>2
<1>4. ASSUME NEW j \in 1..Len(DecodeErrors) PROVE DecodeErrors[j] \in Errors
    <2>1. f[j] \in Failed /\ DecodeErrors[j] = Outcomes[f[j]]
        BY <1>3 DEF Lists
    <2>2. /\ BodyKnown(f[j]) \in Verdicts /\ BodyKnown(f[j]) # OkVerdict
          /\ imageLayouts[f[j]].place \in Nat
          /\ Outcomes[f[j]] = Error(BodyKnown(f[j]), imageLayouts[f[j]].place)
        BY <2>1, OutcomesAre
    <2> QED BY <2>1, <2>2, FailuresAreResults
<1>5. DecodeErrors \in Seq(Errors)
    BY <1>2, <1>4
<1> QED BY <1>2, <1>5

-------------------------------------------------------------------------------
(* Each stage answers with an error, moves on or prepares the batch.          *)
LEMMA AnswersAreResults ==
    ASSUME Inv, Next
    PROVE  /\ phase' \in Phases /\ result' \in Results
           /\ phase' # "done" <=> result' = Pending
<1> USE DEF Inv
<1>0. phase \in Phases /\ result \in Results /\ (phase # "done" <=> result = Pending)
    BY DEF Typed, PhasesHold
<1> DEFINE Good == /\ phase' \in Phases /\ result' \in Results
                   /\ phase' # "done" <=> result' = Pending
<1>a. ASSUME NEW stage \in Phases \ {"done"}, MoveTo(stage), phase # "done" PROVE Good
    BY <1>0, <1>a DEF MoveTo
<1>b. ASSUME NEW e \in Errors, Fail(e) PROVE Good
    BY <1>b, FailureOfAnError DEF Fail, Phases
<1>c. ASSUME NEW c \in Verdicts, c # OkVerdict, NEW n \in Nat, Fail(Error(c, n))
      PROVE  Good
    BY <1>b, <1>c, FailuresAreResults
<1>d. IsBatch(batch)
    BY BatchIsABatch
<1>1. CASE RejectEmptyBatch
    BY <1>1, <1>c DEF RejectEmptyBatch, Verdicts, Categories, OkVerdict
<1>2. CASE ValidateAndRender
    <2>1. Rejection(Request) \in Verdicts /\ cursor[1] \in Nat /\ phase # "done"
        BY <1>2, RequestAtHand DEF ValidateAndRender, Typed
    <2> QED BY <1>2, <1>a, <1>c, <2>1 DEF ValidateAndRender, Phases
<1>3. CASE Preflight
    <2>1. CASE UnsupportedOptions(batch) # {}
        <3> DEFINE r == FirstOf(UnsupportedOptions(batch))
        <3>1. UnsupportedOptions(batch) \in SUBSET Nat
            BY <1>d, RequestsOfABatch DEF UnsupportedOptions
        <3>2. r \in UnsupportedOptions(batch)
            BY <2>1, <3>1, FirstIsLeast
        <3>3. /\ r \in Nat /\ batch.requests[r].options \in Verdicts
              /\ batch.requests[r].options # OkVerdict
            BY <1>d, <3>1, <3>2, RequestsOfABatch DEF UnsupportedOptions, Requests
        <3>4. Fail(Error(batch.requests[r].options, r))
            BY <1>3, <2>1 DEF Preflight
        <3> QED BY <1>c, <3>3, <3>4
    <2>2. CASE UnsupportedOptions(batch) = {} /\ batch.resources # OkVerdict
        <3>1. Fail(Error(batch.resources, 0)) /\ batch.resources \in Verdicts
            BY <1>3, <1>d, <2>2 DEF Preflight, IsBatch
        <3> QED BY <1>c, <2>2, <3>1
    <2>3. CASE UnsupportedOptions(batch) = {} /\ batch.resources = OkVerdict
        BY <1>3, <1>a, <2>3 DEF Preflight, Phases
    <2> QED BY <2>1, <2>2, <2>3
<1>4. CASE SkipText \/ ImageFails \/ VideoFails \/ PlanImage \/ PlanVideo
    BY <1>0, <1>4 DEF SkipText, ImageFails, VideoFails, KeepMediaError, PlanImage, PlanVideo
<1>5. CASE CloseRequest
    BY <1>5, <1>a DEF CloseRequest, Phases
<1>6. CASE Triage
    <2>1. CASE PredecodeErrors(mediaErrors) # {}
        BY <1>6, <1>b, <2>1, SelectionsAreErrors DEF Triage, Typed
    <2>2. CASE PredecodeErrors(mediaErrors) = {}
        BY <1>6, <1>a, <2>2 DEF Triage, Phases
    <2> QED BY <2>1, <2>2
<1>7. CASE PlanText
    BY <1>7, <1>a, <1>c, <1>d DEF PlanText, Phases, IsBatch
<1>8. CASE FinishSalvage
    <2>1. DecodeErrors \in Seq(Errors) /\ mediaErrors \in Seq(Errors)
        BY DecodeErrorsAre DEF Typed
    <2>2. mediaErrors' \in Seq(Errors) /\ mediaErrors' # <<>>
        BY <1>8, <2>1 DEF FinishSalvage, PhasesHold
    <2> QED BY <1>8, <1>b, <2>2, SelectionsAreErrors DEF FinishSalvage
<1>9. CASE FinishExecute
    <2>1. DecodeErrors \in Seq(Errors)
        BY DecodeErrorsAre
    <2>2. CASE DecodeErrors # <<>>
        BY <1>9, <1>b, <2>1, <2>2, SelectionsAreErrors DEF FinishExecute
    <2>3. CASE DecodeErrors = <<>>
        BY <1>9, <1>a, <2>3 DEF FinishExecute, Phases
    <2> QED BY <2>2, <2>3
<1>10. CASE ExecuteVideos
    <2>1. CASE FailedVideos # {}
        <3> DEFINE k == FirstOf(FailedVideos)
        <3>1. FailedVideos \in SUBSET Nat
            BY DEF FailedVideos, Typed
        <3>2. k \in FailedVideos
            BY <2>1, <3>1, FirstIsLeast
        <3>3. k \in DOMAIN videoLayouts /\ videoLayouts[k] \in Layouts
            BY <3>2 DEF FailedVideos, Typed
        <3>4. videoLayouts[k].at \in Positions(batch)
            BY <3>3 DEF VideosInOrder, OfKind
        <3>5. /\ ItemAt(batch, videoLayouts[k].at).body \in Verdicts
              /\ ItemAt(batch, videoLayouts[k].at).body # OkVerdict
              /\ videoLayouts[k].place \in Nat
            BY <1>d, <3>2, <3>3, <3>4, ItemsOfABatch DEF FailedVideos, Layouts
        <3>6. Fail(Error(ItemAt(batch, videoLayouts[k].at).body,
                         videoLayouts[k].place))
            BY <1>10, <2>1 DEF ExecuteVideos
        <3> QED BY <1>c, <3>5, <3>6
    <2>2. CASE FailedVideos = {}
        BY <1>10, <1>a, <2>2 DEF ExecuteVideos, Phases
    <2> QED BY <2>1, <2>2
<1>11. CASE BuildSidecar
    <2>1. \/ phase' = "done" /\ result' = Prepared
          \/ Fail(Error("InternalInvariant", 0))
        BY <1>11 DEF BuildSidecar
    <2>2. Prepared \in Results /\ Prepared # Pending
        BY DEF Prepared, Results, Pending, NoError, Error, Errors, Categories
    <2> QED BY <1>c, <2>1, <2>2 DEF Phases, Verdicts, Categories, OkVerdict
<1>12. CASE Worker \/ Finished
    BY <1>0, <1>12 DEF Worker, StartDecode, FinishDecode, Finished, vars
<1> QED
    BY <1>1, <1>2, <1>3, <1>4, <1>5, <1>6, <1>7, <1>8, <1>9, <1>10, <1>11,
       <1>12 DEF Next, PlanningThread

-------------------------------------------------------------------------------
(* Every step leaves the batch alone.                                         *)
LEMMA BatchIsNeverWritten ==
    ASSUME Next
    PROVE  batch' = batch
BY DEF Next, PlanningThread, RejectEmptyBatch, ValidateAndRender, Preflight,
       SkipText, ImageFails, VideoFails, KeepMediaError, PlanImage, PlanVideo,
       CloseRequest, Triage, PlanText, FinishSalvage, FinishExecute,
       ExecuteVideos, BuildSidecar, Worker, StartDecode, FinishDecode, Finished,
       vars

(* The steps that meet an occurrence or close a request.                      *)
Traverse ==
    SkipText \/ ImageFails \/ VideoFails \/ PlanImage \/ PlanVideo \/ CloseRequest

(* The other steps find the traversal before its start or after its end and   *)
(* leave its tables alone; validation alone moves the cursor, and the salvage *)
(* alone adds failures.                                                       *)
LEMMA StepsAfterTraversal ==
    ASSUME Next, ~Traverse
    PROVE  /\ UNCHANGED <<batch, occurrenceIndex, imageLayouts, videoLayouts,
                          requestLayouts, visuals, nextPixelRow,
                          nextVideoPixelRow>>
           /\ phase \notin {"validate", "traverse"} => UNCHANGED cursor
           /\ mediaErrors' = mediaErrors \/ FinishSalvage
           /\ phase = "traverse" => FALSE
           /\ phase' = "traverse" => phase = "preflight"
BY Zenon DEF Next, PlanningThread, RejectEmptyBatch, ValidateAndRender, Preflight,
       Traverse, Triage, PlanText, FinishSalvage, FinishExecute,
       ExecuteVideos, BuildSidecar, Worker, StartDecode, FinishDecode, Finished,
       vars, traversalVars, Fail, MoveTo, Decoding

(* The ranges of a request begin at a row.                                    *)
LEMMA StartsAreNumbers ==
    ASSUME Typed
    PROVE  GridStart \in Nat /\ PixelStart \in Nat
<1>1. CASE requestLayouts = <<>>
    BY <1>1 DEF GridStart, PixelStart
<1>2. CASE requestLayouts # <<>>
    <2>1. Len(requestLayouts) \in 1..Len(requestLayouts)
        BY <1>2 DEF Typed
    <2>2. requestLayouts[Len(requestLayouts)] \in Ranges
        BY <2>1 DEF Typed
    <2> QED BY <1>2, <2>2 DEF GridStart, PixelStart, Ranges
<1> QED BY <1>1, <1>2

(* A step leaves every variable in its type.                                  *)
LEMMA TypedIsPreserved ==
    ASSUME Inv, Next
    PROVE  Typed'
<1> USE DEF Inv
<1>0. /\ phase' \in Phases /\ result' \in Results /\ batch' = batch
      /\ batch \in Batches
    BY AnswersAreResults, BatchIsNeverWritten DEF Typed
<1> DEFINE TablesTyped ==
              /\ imageLayouts' \in Seq(Layouts)
              /\ videoLayouts' \in Seq(Layouts)
              /\ requestLayouts' \in Seq(Ranges)
              /\ DOMAIN visuals' = DOMAIN batch.requests
              /\ \A r \in DOMAIN visuals' : visuals'[r] \in Seq(Visuals)
              /\ nextPixelRow' \in Nat /\ nextVideoPixelRow' \in Nat
              /\ occurrenceIndex' \in Nat
           CursorTyped == cursor' \in (Nat \ {0}) \X (Nat \ {0})
           DecodeTyped == \/ decode' = <<>>
                          \/ decode' \in [DOMAIN imageLayouts' -> DecodeStates]
           ErrorsTyped == mediaErrors' \in Seq(Errors)
<1>a. UNCHANGED <<imageLayouts, videoLayouts, requestLayouts, visuals,
                  nextPixelRow, nextVideoPixelRow>>
      /\ occurrenceIndex' \in Nat => TablesTyped
    BY DEF Typed
<1>b. /\ UNCHANGED cursor => CursorTyped
      /\ UNCHANGED <<decode, imageLayouts>> => DecodeTyped
      /\ UNCHANGED mediaErrors => ErrorsTyped
    BY DEF Typed
<1>c. AdvanceItem => CursorTyped
    BY DEF Typed, AdvanceItem
<1>d. ASSUME NEW kind \in {"image", "video"}, OnMedia(kind), NEW g \in Nat,
             NEW n \in Nat
      PROVE  Layout(occurrenceIndex, g, n) \in Layouts
    <2>1. Item.rows \in Nat
        BY <1>d, OccurrenceAtHand
    <2> QED BY <2>1 DEF Layout, Layouts, Typed
<1>e. ASSUME NEW kind \in {"image", "video"}, OnMedia(kind), NEW n \in Nat,
             visuals' = [visuals EXCEPT ![cursor[1]] = Append(@, <<kind, n>>)]
      PROVE  /\ DOMAIN visuals' = DOMAIN batch.requests
             /\ \A r \in DOMAIN visuals' : visuals'[r] \in Seq(Visuals)
    <2>1. <<kind, n>> \in Visuals /\ cursor[1] \in DOMAIN visuals
        BY <1>e, OccurrenceAtHand DEF Visuals
    <2>2. Append(visuals[cursor[1]], <<kind, n>>) \in Seq(Visuals)
        BY <2>1 DEF Typed
    <2> QED BY <1>e, <2>2 DEF Typed
<1>f. ASSUME TablesTyped, CursorTyped, DecodeTyped, ErrorsTyped PROVE Typed'
    BY <1>0, <1>f DEF Typed
<1>1. CASE SkipText
    BY <1>0, <1>1, <1>a, <1>b, <1>c, <1>f DEF SkipText, Typed
<1>2. CASE ImageFails \/ VideoFails
    <2>1. PICK kind \in {"image", "video"}, verdict \in Verdicts :
              KeepMediaError(kind, verdict)
        <3>1. CASE ImageFails
            <4>1. OnMedia("image")
                BY <3>1 DEF ImageFails, KeepMediaError
            <4>2. ImagePlanVerdict \in Verdicts
                BY <4>1, OccurrenceAtHand, PlanningVerdicts DEF ImagePlanVerdict
            <4> QED BY <3>1, <4>2 DEF ImageFails
        <3>2. CASE VideoFails
            <4>1. OnMedia("video")
                BY <3>2 DEF VideoFails, KeepMediaError
            <4>2. VideoPlanVerdict \in Verdicts
                BY <4>1, OccurrenceAtHand, PlanningVerdicts DEF VideoPlanVerdict
            <4> QED BY <3>2, <4>2 DEF VideoFails
        <3> QED BY <1>2, <3>1, <3>2
    <2>2. Error(verdict, occurrenceIndex) \in Errors
        BY <2>1, FailuresAreResults DEF KeepMediaError, Typed
    <2>3. ErrorsTyped /\ occurrenceIndex' \in Nat
        BY <2>1, <2>2 DEF KeepMediaError, Typed
    <2> QED BY <1>0, <1>a, <1>b, <1>c, <1>f, <2>1, <2>3 DEF KeepMediaError, Typed
<1>3. CASE PlanImage
    <2>1. OnMedia("image") /\ phase = "traverse"
        BY <1>3 DEF PlanImage, OnMedia
    <2>2. Len(imageLayouts) \in Nat /\ nextPixelRow \in Nat
        BY DEF Typed
    <2>3. imageLayouts' \in Seq(Layouts)
        BY <1>3, <1>d, <2>1, <2>2 DEF PlanImage, ImageLayout, Typed
    <2>4. /\ DOMAIN visuals' = DOMAIN batch.requests
          /\ \A r \in DOMAIN visuals' : visuals'[r] \in Seq(Visuals)
        BY <1>3, <1>e, <2>1, <2>2 DEF PlanImage
    <2>5. decode' = <<>>
        BY <1>3, <2>1 DEF PlanImage, PhasesHold
    <2>6. nextPixelRow' \in Nat
        BY SMTT(30), <1>3, <2>1, OccurrenceAtHand DEF PlanImage, Typed
    <2>7. occurrenceIndex' \in Nat
        BY <1>3 DEF PlanImage, Typed
    <2>8. TablesTyped
        BY <1>3, <2>3, <2>4, <2>6, <2>7 DEF PlanImage, Typed
    <2>9. CursorTyped /\ ErrorsTyped
        BY <1>3, <1>b, <1>c DEF PlanImage
    <2> QED BY <1>f, <2>5, <2>8, <2>9
<1>4. CASE PlanVideo
    <2>1. OnMedia("video") /\ phase = "traverse"
        BY <1>4 DEF PlanVideo, OnMedia
    <2>2. Len(videoLayouts) \in Nat /\ nextVideoPixelRow \in Nat
        BY DEF Typed
    <2>3. videoLayouts' \in Seq(Layouts)
        BY <1>4, <1>d, <2>1, <2>2 DEF PlanVideo, Typed
    <2>4. /\ DOMAIN visuals' = DOMAIN batch.requests
          /\ \A r \in DOMAIN visuals' : visuals'[r] \in Seq(Visuals)
        BY <1>4, <1>e, <2>1, <2>2 DEF PlanVideo
    <2>5. decode' = <<>>
        BY <1>4, <2>1 DEF PlanVideo, PhasesHold
    <2>6. nextVideoPixelRow' \in Nat
        BY SMTT(30), <1>4, <2>1, OccurrenceAtHand DEF PlanVideo, Typed
    <2>7. occurrenceIndex' \in Nat
        BY <1>4 DEF PlanVideo, Typed
    <2>8. TablesTyped
        BY <1>4, <2>3, <2>4, <2>6, <2>7 DEF PlanVideo, Typed
    <2>9. CursorTyped /\ ErrorsTyped
        BY <1>4, <1>b, <1>c DEF PlanVideo
    <2> QED BY <1>f, <2>5, <2>8, <2>9
<1>5. CASE CloseRequest
    <2>1. GridStart \in Nat /\ PixelStart \in Nat
        BY StartsAreNumbers
    <2>2. requestLayouts' \in Seq(Ranges)
        BY <1>5, <2>1 DEF CloseRequest, Ranges, Typed
    <2>3. CursorTyped
        BY SMTT(30), <1>5 DEF CloseRequest, Typed
    <2> QED BY <1>0, <1>5, <1>b, <1>f, <2>2, <2>3 DEF CloseRequest, Typed
<1>6. CASE ~Traverse
    <2>1. TablesTyped
        BY <1>6, <1>a, StepsAfterTraversal DEF Typed
    <2>2. ErrorsTyped
        <3>1. CASE FinishSalvage
            BY <3>1, DecodeErrorsAre DEF FinishSalvage, Typed
        <3>2. CASE mediaErrors' = mediaErrors
            BY <3>2 DEF Typed
        <3> QED BY <1>6, <3>1, <3>2, StepsAfterTraversal
    <2>3. CursorTyped
        <3>1. cursor' = cursor \/ cursor' = <<cursor[1] + 1, 1>> \/ cursor' = <<1, 1>>
            BY <1>6 DEF Next, PlanningThread, RejectEmptyBatch, ValidateAndRender,
                Preflight, Traverse, Triage, PlanText, FinishSalvage,
                FinishExecute, ExecuteVideos, BuildSidecar, Worker, StartDecode,
                FinishDecode, Finished, vars, traversalVars, MoveTo
        <3> QED BY <3>1 DEF Typed
    <2>4. DecodeTyped
        <3>1. imageLayouts' = imageLayouts
            BY <1>6, StepsAfterTraversal
        <3>2. \/ decode' = decode
              \/ decode' = WorkersAtRest
              \/ \E k \in DOMAIN decode, s \in DecodeStates :
                    decode' = [decode EXCEPT ![k] = s]
            BY <1>6 DEF Next, PlanningThread, RejectEmptyBatch, ValidateAndRender,
                Preflight, Traverse, Triage, PlanText, FinishSalvage,
                FinishExecute, ExecuteVideos, BuildSidecar, Worker, StartDecode,
                FinishDecode, Finished, vars, traversalVars, MoveTo, DecodeStates
        <3>3. WorkersAtRest \in [DOMAIN imageLayouts -> DecodeStates]
            BY DEF WorkersAtRest, DecodeStates
        <3>4. ASSUME NEW k \in DOMAIN decode, NEW s \in DecodeStates
              PROVE  [decode EXCEPT ![k] = s]
                         \in [DOMAIN imageLayouts -> DecodeStates]
            <4>1. decode # <<>>
                BY <3>4
            <4>2. decode \in [DOMAIN imageLayouts -> DecodeStates]
                BY <4>1 DEF Typed
            <4> QED BY <4>2
        <3> QED BY <3>1, <3>2, <3>3, <3>4 DEF Typed
    <2> QED BY <1>f, <2>1, <2>2, <2>3, <2>4
<1> QED BY <1>1, <1>2, <1>3, <1>4, <1>5, <1>6 DEF Traverse

-------------------------------------------------------------------------------
(* The cursor leaves the last item of the last request behind.                *)
LEMMA LastRequestClosed ==
    ASSUME Typed, cursor[1] = Len(batch.requests), cursor[1] \in DOMAIN batch.requests,
           cursor[2] > Len(Request.items)
    PROVE  Passed = Positions(batch)
<1> SUFFICES ASSUME NEW p \in Positions(batch) PROVE Precedes(p, cursor)
    BY DEF Passed
<1>1. /\ p[1] \in DOMAIN batch.requests
      /\ p[2] \in DOMAIN batch.requests[p[1]].items
      /\ p[1] \in Nat /\ p[1] <= Len(batch.requests)
    BY PositionsOfABatch, BatchIsABatch, RequestsOfABatch
<1>2. CASE p[1] = cursor[1]
    <2>1. p[2] \in 1..Len(Request.items)
        BY <1>1, <1>2, RequestAtHand DEF Request
    <2>2. p[2] < cursor[2]
        BY <2>1, RequestAtHand DEF Typed
    <2> QED BY <1>2, <2>2 DEF Precedes
<1>3. CASE p[1] # cursor[1]
    BY <1>1, <1>3, BatchIsABatch, RequestsOfABatch DEF Precedes, Typed
<1> QED BY <1>2, <1>3

(* Each step leaves a phase for one that may rely on what is established.     *)
LEMMA PhasesArePreserved ==
    ASSUME Inv, Next
    PROVE  PhasesHold'
<1> USE DEF Inv
<1>0. /\ Typed /\ phase' \in Phases /\ (phase' # "done" <=> result' = Pending)
      /\ batch' = batch
    BY AnswersAreResults, BatchIsNeverWritten
<1>d. ASSUME phase' = "done" PROVE PhasesHold'
    BY <1>0, <1>d DEF PhasesHold, Before, After
<1>1. CASE RejectEmptyBatch
    BY <1>1, <1>d DEF RejectEmptyBatch, Fail
<1>2. CASE ValidateAndRender
    <2>1. /\ cursor[1] \in DOMAIN batch.requests /\ phase = "validate"
          /\ cursor[1] \in Nat /\ Len(batch.requests) \in Nat
          /\ DOMAIN batch.requests = 1..Len(batch.requests)
        BY <1>2, BatchIsABatch, RequestsOfABatch DEF ValidateAndRender, Typed
    <2>2. CASE Rejection(Request) # OkVerdict
        BY <1>2, <1>d, <2>2 DEF ValidateAndRender, Fail
    <2>3. CASE Rejection(Request) = OkVerdict /\ cursor[1] < Len(batch.requests)
        <3>1. phase' = "validate" /\ cursor' = <<cursor[1] + 1, 1>>
            BY <1>2, <2>3 DEF ValidateAndRender, MoveTo
        <3>2. \A r \in DOMAIN batch.requests :
                  r < cursor[1] + 1 => Rejection(batch.requests[r]) = OkVerdict
            <4> SUFFICES ASSUME NEW r \in DOMAIN batch.requests, r < cursor[1] + 1
                         PROVE  Rejection(batch.requests[r]) = OkVerdict
                OBVIOUS
            <4>1. r < cursor[1] \/ r = cursor[1]
                BY <2>1
            <4> QED BY <2>1, <2>3, <4>1 DEF PhasesHold, Request
        <3>3. /\ cursor'[1] = cursor[1] + 1 /\ cursor'[2] = 1
            BY <3>1
        <3>4. UNCHANGED <<occurrenceIndex, mediaErrors, imageLayouts,
                          videoLayouts, requestLayouts, decode>>
            BY <1>2 DEF ValidateAndRender
        <3> QED BY <1>0, <2>1, <3>1, <3>2, <3>3, <3>4 DEF PhasesHold, Before, After
    <2>4. CASE Rejection(Request) = OkVerdict /\ ~(cursor[1] < Len(batch.requests))
        <3>1. phase' = "preflight" /\ cursor' = <<1, 1>>
            BY <1>2, <2>4 DEF ValidateAndRender, MoveTo
        <3>2. batch.requests # <<>> /\ Unrendered(batch) = {}
            <4>1. cursor[1] = Len(batch.requests)
                BY <2>1, <2>4
            <4>2. ASSUME NEW r \in DOMAIN batch.requests
                  PROVE  Rejection(batch.requests[r]) = OkVerdict
                <5>1. r < cursor[1] \/ r = cursor[1]
                    BY <2>1, <4>1
                <5> QED BY <2>1, <2>4, <5>1 DEF PhasesHold, Request
            <4> QED BY <2>1, <4>2 DEF Unrendered, Rejection
        <3>3. UNCHANGED <<occurrenceIndex, mediaErrors, imageLayouts,
                          videoLayouts, requestLayouts, decode>>
            BY <1>2 DEF ValidateAndRender
        <3> QED BY <1>0, <2>1, <3>1, <3>2, <3>3 DEF PhasesHold, Before, After
    <2> QED BY <2>2, <2>3, <2>4
<1>3. CASE Preflight
    <2>1. CASE phase' = "done"
        BY <1>d, <2>1
    <2>2. CASE phase' # "done"
        <3>1. /\ UnsupportedOptions(batch) = {} /\ batch.resources = OkVerdict
              /\ phase' = "traverse" /\ phase = "preflight"
              /\ UNCHANGED traversalVars /\ UNCHANGED decode
            BY <1>3, <2>2 DEF Preflight, Fail, MoveTo
        <3>2. batch.requests # <<>> /\ Unrendered(batch) = {}
            BY <3>1 DEF PhasesHold
        <3>3. AdmissionFailures(batch) = {}
            BY <3>1, <3>2 DEF AdmissionFailures
        <3>4. /\ cursor = <<1, 1>> /\ requestLayouts = <<>>
              /\ decode = <<>>
            BY <3>1 DEF PhasesHold, Before
        <3>5. 1 \in DOMAIN batch.requests
            BY <3>2, BatchIsABatch, RequestsOfABatch
        <3>6. /\ cursor'[1] = 1 /\ cursor'[2] = 1 /\ Len(requestLayouts') = 0
              /\ decode' = <<>>
            BY <3>1, <3>4 DEF traversalVars
        <3>7. Request' = batch.requests[1] /\ Len(batch.requests[1].items) \in Nat
            BY <1>0, <3>5, <3>6, BatchIsABatch, RequestsOfABatch DEF Request
        <3> QED BY <1>0, <3>1, <3>2, <3>3, <3>5, <3>6, <3>7
                DEF PhasesHold, Before, After
    <2> QED BY <2>1, <2>2
<1>4. CASE SkipText \/ ImageFails \/ VideoFails \/ PlanImage \/ PlanVideo
    <2>1. /\ phase = "traverse" /\ phase' = "traverse" /\ decode' = decode
          /\ UNCHANGED requestLayouts /\ cursor[1] \in DOMAIN batch.requests
          /\ cursor[2] \in DOMAIN Request.items
          /\ cursor' = <<cursor[1], cursor[2] + 1>>
        BY <1>4 DEF SkipText, ImageFails, VideoFails, KeepMediaError, PlanImage,
            PlanVideo, OnMedia, AdvanceItem
    <2>2. cursor'[1] = cursor[1] /\ cursor'[2] = cursor[2] + 1
        BY <2>1
    <2>3. Request' = Request
        BY <1>0, <2>2 DEF Request
    <2>4. cursor[2] <= Len(Request.items) /\ Len(Request.items) \in Nat
          /\ cursor[2] \in Nat
        BY <2>1, RequestAtHand
    <2>5. cursor'[2] <= Len(Request'.items) + 1
        BY <2>2, <2>3, <2>4
    <2> QED BY <1>0, <2>1, <2>2, <2>5 DEF PhasesHold, Before, After
<1>5. CASE CloseRequest
    <2>1. /\ phase = "traverse" /\ cursor[1] \in DOMAIN batch.requests
          /\ cursor[2] > Len(Request.items) /\ decode' = decode
          /\ Len(requestLayouts') = Len(requestLayouts) + 1
          /\ cursor[1] = Len(requestLayouts) + 1
        BY <1>5 DEF CloseRequest, PhasesHold, Typed
    <2>2. /\ DOMAIN batch.requests = 1..Len(batch.requests)
          /\ Len(batch.requests) \in Nat /\ cursor[1] \in Nat
        BY BatchIsABatch, RequestsOfABatch DEF Typed
    <2>3. CASE cursor[1] < Len(batch.requests)
        <3>1. phase' = "traverse" /\ cursor' = <<cursor[1] + 1, 1>>
            BY <1>5, <2>3 DEF CloseRequest, MoveTo
        <3>2. cursor'[1] = cursor[1] + 1 /\ cursor'[2] = 1
            BY <3>1
        <3>3. cursor'[1] \in DOMAIN batch.requests
            BY <2>2, <2>3, <3>2
        <3>4. Len(Request'.items) \in Nat
            BY <1>0, <3>3, BatchIsABatch, RequestsOfABatch DEF Request
        <3> QED BY <1>0, <2>1, <3>1, <3>2, <3>3, <3>4 DEF PhasesHold, Before, After
    <2>4. CASE ~(cursor[1] < Len(batch.requests))
        <3>1. phase' = "triage" /\ cursor' = cursor
            BY <1>5, <2>4 DEF CloseRequest, MoveTo
        <3>2. cursor[1] = Len(batch.requests)
            BY <2>1, <2>2, <2>4
        <3>3. Passed' = Positions(batch)
            BY <1>0, <2>1, <3>1, <3>2, LastRequestClosed DEF Passed
        <3> QED BY <1>0, <2>1, <3>1, <3>2, <3>3 DEF PhasesHold, Before, After
    <2> QED BY <2>3, <2>4
<1>6. CASE ~Traverse /\ phase \in After /\ phase' # "done"
    <2>1. /\ UNCHANGED <<requestLayouts, imageLayouts, cursor>>
          /\ phase' # "traverse" /\ Passed' = Passed
        BY <1>0, <1>6, StepsAfterTraversal DEF After, Passed
    <2>2. /\ Len(requestLayouts) = Len(batch.requests) /\ Passed = Positions(batch)
          /\ batch.requests # <<>> /\ Unrendered(batch) = {}
          /\ AdmissionFailures(batch) = {}
        BY <1>6 DEF PhasesHold, Before, After
    <2>3. WorkersAtRest \in [DOMAIN imageLayouts -> DecodeStates]
        BY DEF WorkersAtRest, DecodeStates
    <2>4. /\ phase' \in After
          /\ phase' \in {"triage", "text"} => decode' = <<>>
          /\ phase' \in After \ {"triage", "text"} =>
                decode' \in [DOMAIN imageLayouts -> DecodeStates]
          /\ phase' \in {"text", "execute", "videos", "sidecar"} =>
                mediaErrors' = <<>>
          /\ phase' = "salvage" => mediaErrors' # <<>>
        <3>1. CASE Triage
            BY <1>6, <2>3, <3>1 DEF Triage, Fail, MoveTo, PhasesHold, Before, After
        <3>2. CASE PlanText
            BY <1>6, <2>3, <3>2 DEF PlanText, Fail, MoveTo, PhasesHold, Before, After
        <3>3. CASE FinishExecute \/ ExecuteVideos
            BY <1>6, <3>3 DEF FinishExecute, ExecuteVideos, Fail, MoveTo,
                PhasesHold, Before, After
        <3>4. CASE Worker
            <4>1. /\ phase' = phase /\ mediaErrors' = mediaErrors
                  /\ phase \in {"salvage", "execute"}
                  /\ \E k \in DOMAIN decode, s \in DecodeStates :
                        decode' = [decode EXCEPT ![k] = s]
                BY <3>4 DEF Worker, StartDecode, FinishDecode, Decoding, DecodeStates
            <4>2. decode \in [DOMAIN imageLayouts -> DecodeStates]
                BY <4>1 DEF PhasesHold, After
            <4>3. decode' \in [DOMAIN imageLayouts -> DecodeStates]
                BY <4>1, <4>2
            <4> QED BY <4>1, <4>3 DEF PhasesHold, After
        <3> QED BY <1>6, <3>1, <3>2, <3>3, <3>4 DEF Next, PlanningThread, Traverse,
                RejectEmptyBatch, ValidateAndRender, Preflight, FinishSalvage,
                BuildSidecar, Finished, Fail, After
    <2> QED BY <1>0, <2>1, <2>2, <2>4 DEF PhasesHold, Before, After
<1>7. CASE ~Traverse /\ phase = "done"
    <2>1. phase' = "done"
        BY <1>7 DEF Next, PlanningThread, Traverse, RejectEmptyBatch,
            ValidateAndRender, Preflight, Triage, PlanText, FinishSalvage,
            FinishExecute, ExecuteVideos, BuildSidecar, Worker, StartDecode,
            FinishDecode, Decoding, Finished, vars
    <2> QED BY <1>d, <2>1
<1>8. CASE ~Traverse /\ phase \in Before
    BY <1>1, <1>2, <1>3, <1>8 DEF Next, PlanningThread, Traverse, Triage,
        PlanText, FinishSalvage, FinishExecute, ExecuteVideos, BuildSidecar,
        Worker, StartDecode, FinishDecode, Decoding, Finished, Before
<1>9. phase \in Phases
    BY DEF Typed
<1>10. CASE ~Traverse /\ phase = "traverse"
    BY <1>10, StepsAfterTraversal
<1> QED
    BY <1>4, <1>5, <1>6, <1>7, <1>8, <1>9, <1>10, <1>d
        DEF Traverse, Phases, Before, After

(* The other tables stay as they are while an image is planned, and the table *)
(* of images while anything else happens.                                     *)
LEMMA TablesGrowAlone ==
    ASSUME Next
    PROVE  /\ ~PlanImage => UNCHANGED <<batch, imageLayouts, nextPixelRow>>
           /\ ~PlanVideo => UNCHANGED <<batch, videoLayouts, nextVideoPixelRow>>
           /\ ~CloseRequest => UNCHANGED <<batch, requestLayouts>>
BY Zenon DEF Next, PlanningThread, RejectEmptyBatch, ValidateAndRender, Preflight,
       SkipText, ImageFails, VideoFails, KeepMediaError, PlanImage, PlanVideo,
       CloseRequest, Triage, PlanText, FinishSalvage, FinishExecute,
       ExecuteVideos, BuildSidecar, Worker, StartDecode, FinishDecode, Finished,
       vars, traversalVars

(* The layouts stay in order: an image that plans comes after all of them.    *)
LEMMA ImagesStayInOrder ==
    ASSUME Inv, Next
    PROVE  ImagesInOrder'
<1> USE DEF Inv
<1>1. CASE ~PlanImage
    BY <1>1, TablesGrowAlone DEF ImagesInOrder, RowBefore
<1>2. CASE PlanImage
    <2>0. PICK n \in Nat : n = Len(imageLayouts)
        BY DEF Typed
    <2>1. /\ OnMedia("image") /\ phase = "traverse" /\ batch' = batch
          /\ PlanningVerdict(Item) = OkVerdict
          /\ imageLayouts' = Append(imageLayouts, ImageLayout)
          /\ nextPixelRow' = nextPixelRow + Item.rows
        BY <1>2 DEF PlanImage, OnMedia, ImagePlanVerdict
    <2>2. /\ cursor \in OfKind(batch, "image") /\ Item = ItemAt(batch, cursor)
          /\ Item.rows \in Nat
        BY <2>1, OccurrenceAtHand
    <2>3. /\ ImageLayout.place = occurrenceIndex /\ ImageLayout.at = cursor
          /\ ImageLayout.gridRow = n /\ ImageLayout.start = nextPixelRow
          /\ ImageLayout.end = nextPixelRow + Item.rows
        BY <2>0 DEF ImageLayout, Layout
    <2>a. \A k \in 1..n : imageLayouts[k] \in Layouts
        BY <2>0 DEF Typed
    <2>b. \A k \in 1..n : imageLayouts[k].end \in Nat
        BY <2>a DEF Layouts
    <2>4. /\ nextPixelRow \in Nat
          /\ DOMAIN imageLayouts = 1..n /\ DOMAIN imageLayouts' = 1..(n + 1)
          /\ \A k \in 1..n : imageLayouts'[k] = imageLayouts[k]
          /\ imageLayouts'[n + 1] = ImageLayout /\ Len(imageLayouts') = n + 1
          /\ \A k \in 1..n : imageLayouts[k].end \in Nat
        BY <2>0, <2>1, <2>b DEF Typed
    <2>5. /\ occurrenceIndex = OccurrenceIndex(batch, cursor)
          /\ \A k \in DOMAIN imageLayouts : Precedes(imageLayouts[k].at, cursor)
        BY <2>1 DEF NothingIsMissed, Traversing, Before
    <2>6. ASSUME NEW k \in 1..(n + 1)
          PROVE  /\ k \in 1..n => RowBefore(k)' = RowBefore(k)
                 /\ k = n + 1 => RowBefore(k)' = nextPixelRow
        <3>1. k # 1 => k - 1 \in 1..n
            BY <2>4
        <3>2. k # 1 => imageLayouts'[k - 1] = imageLayouts[k - 1]
            BY <2>4, <3>1
        <3>3. RowBefore(k)' = RowBefore(k)
            BY <3>2 DEF RowBefore
        <3>4. nextPixelRow = RowBefore(n + 1)
            BY <2>0 DEF ImagesInOrder
        <3> QED BY <3>3, <3>4
    <2>7. ASSUME NEW k \in 1..n
          PROVE  /\ imageLayouts'[k].start = RowBefore(k)'
                 /\ imageLayouts'[k].start <= imageLayouts'[k].end
                 /\ imageLayouts'[k].end <= nextPixelRow'
                 /\ \A j \in 1..(n + 1) : j < k =>
                       /\ Precedes(imageLayouts'[j].at, imageLayouts'[k].at)
                       /\ imageLayouts'[j].end <= imageLayouts'[k].start
        <3>1. k \in 1..(n + 1) /\ k \in DOMAIN imageLayouts
            BY <2>4
        <3>2. RowBefore(k)' = RowBefore(k)
            BY <2>6, <3>1
        <3>3. /\ imageLayouts[k].start = RowBefore(k)
              /\ imageLayouts[k].start <= imageLayouts[k].end
              /\ imageLayouts[k].end <= nextPixelRow
            BY <3>1 DEF ImagesInOrder
        <3>4. imageLayouts[k].end <= nextPixelRow'
            BY <2>1, <2>2, <2>4, <3>3
        <3>5. ASSUME NEW j \in 1..(n + 1), j < k
              PROVE  /\ Precedes(imageLayouts'[j].at, imageLayouts'[k].at)
                     /\ imageLayouts'[j].end <= imageLayouts'[k].start
            <4>1. j \in 1..n /\ j \in DOMAIN imageLayouts
                BY <2>4, <3>5
            <4> QED BY <2>4, <3>1, <3>5, <4>1 DEF ImagesInOrder
        <3> QED BY <2>4, <3>2, <3>3, <3>4, <3>5
    <2>8. /\ ImageLayout.start = RowBefore(n + 1)'
          /\ ImageLayout.start <= ImageLayout.end
          /\ ImageLayout.end <= nextPixelRow'
          /\ \A j \in 1..(n + 1) : j < n + 1 =>
                /\ Precedes(imageLayouts'[j].at, ImageLayout.at)
                /\ imageLayouts'[j].end <= ImageLayout.start
        <3>1. n + 1 \in 1..(n + 1)
            BY <2>4
        <3>2. ASSUME NEW j \in 1..(n + 1), j < n + 1
              PROVE  /\ Precedes(imageLayouts'[j].at, ImageLayout.at)
                     /\ imageLayouts'[j].end <= ImageLayout.start
            <4>1. j \in 1..n /\ j \in DOMAIN imageLayouts
                BY <2>4, <3>2
            <4> QED BY <2>3, <2>4, <2>5, <4>1 DEF ImagesInOrder
        <3>3. ImageLayout.start = RowBefore(n + 1)'
            BY <2>3, <2>6, <3>1
        <3>4. ImageLayout.start <= ImageLayout.end /\ ImageLayout.end <= nextPixelRow'
            BY <2>1, <2>2, <2>3, <2>4
        <3> QED BY <3>2, <3>3, <3>4
    <2>9. ASSUME NEW k \in 1..(n + 1)
          PROVE  /\ imageLayouts'[k].at \in OfKind(batch, "image")
                 /\ PlanningVerdict(ItemAt(batch, imageLayouts'[k].at)) = OkVerdict
                 /\ imageLayouts'[k].place
                        = OccurrenceIndex(batch, imageLayouts'[k].at)
                 /\ imageLayouts'[k].gridRow = k - 1
        <3>1. CASE k \in 1..n
            BY <2>4, <3>1 DEF ImagesInOrder
        <3>2. CASE k = n + 1
            BY <2>1, <2>2, <2>3, <2>4, <2>5, <3>2
        <3> QED BY <2>4, <3>1, <3>2
    <2>10. nextPixelRow' = RowBefore(Len(imageLayouts) + 1)'
        BY <2>1, <2>3, <2>4 DEF RowBefore
    <2>11. \A k \in 1..(n + 1) : k \in 1..n \/ k = n + 1
        BY <2>4
    <2>12. ASSUME NEW k \in 1..(n + 1)
           PROVE
              /\ imageLayouts'[k].start = RowBefore(k)'
              /\ imageLayouts'[k].start <= imageLayouts'[k].end
              /\ imageLayouts'[k].end <= nextPixelRow'
              /\ \A j \in 1..(n + 1) : j < k =>
                    /\ Precedes(imageLayouts'[j].at, imageLayouts'[k].at)
                    /\ imageLayouts'[j].end <= imageLayouts'[k].start
        <3>1. CASE k \in 1..n
            BY <2>7, <3>1
        <3>2. CASE k = n + 1
            BY <2>4, <2>8, <3>2
        <3> QED BY <2>11, <3>1, <3>2
    <2> QED BY <2>1, <2>4, <2>9, <2>10, <2>12 DEF ImagesInOrder
<1> QED BY <1>1, <1>2

(* So do those of the videos.                                                 *)
LEMMA VideosStayInOrder ==
    ASSUME Inv, Next
    PROVE  VideosInOrder'
<1> USE DEF Inv
<1>1. CASE ~PlanVideo
    BY <1>1, TablesGrowAlone DEF VideosInOrder
<1>2. CASE PlanVideo
    <2> DEFINE n == Len(videoLayouts)
               v == Layout(occurrenceIndex, Len(videoLayouts), nextVideoPixelRow)
    <2>1. /\ OnMedia("video") /\ phase = "traverse" /\ batch' = batch
          /\ Item.plan = OkVerdict /\ videoLayouts' = Append(videoLayouts, v)
        BY <1>2 DEF PlanVideo, OnMedia, VideoPlanVerdict
    <2>2. /\ cursor \in OfKind(batch, "video") /\ cursor \in Positions(batch)
          /\ Item = ItemAt(batch, cursor) /\ Item.kind = "video"
        BY <2>1, OccurrenceAtHand
    <2>3. v.place = occurrenceIndex /\ v.at = cursor
        BY DEF Layout
    <2>4. PlanningVerdict(ItemAt(batch, cursor)) = OkVerdict
        BY <2>1, <2>2, BatchIsABatch, ItemsOfABatch DEF PlanningVerdict
    <2>5. /\ occurrenceIndex = OccurrenceIndex(batch, cursor)
          /\ \A k \in DOMAIN videoLayouts : Precedes(videoLayouts[k].at, cursor)
        BY <2>1 DEF NothingIsMissed, Traversing, Before
    <2> HIDE DEF v
    <2>6. /\ n \in Nat
          /\ DOMAIN videoLayouts = 1..n /\ DOMAIN videoLayouts' = 1..(n + 1)
          /\ \A k \in 1..n : videoLayouts'[k] = videoLayouts[k]
          /\ videoLayouts'[n + 1] = v
        BY <2>1 DEF Typed
    <2> HIDE DEF n
    <2>7. \A k \in 1..(n + 1) : k \in 1..n \/ k = n + 1
        BY <2>6
    <2>8. ASSUME NEW k \in 1..(n + 1), NEW j \in 1..(n + 1), j < k
          PROVE  Precedes(videoLayouts'[j].at, videoLayouts'[k].at)
        <3>1. j \in 1..n
            BY <2>6, <2>8
        <3> QED BY <2>3, <2>5, <2>6, <2>7, <2>8, <3>1 DEF VideosInOrder
    <2>9. ASSUME NEW k \in 1..(n + 1)
          PROVE  /\ videoLayouts'[k].at \in OfKind(batch, "video")
                 /\ PlanningVerdict(ItemAt(batch, videoLayouts'[k].at)) = OkVerdict
                 /\ videoLayouts'[k].place
                        = OccurrenceIndex(batch, videoLayouts'[k].at)
        BY <2>2, <2>3, <2>4, <2>5, <2>6, <2>7 DEF VideosInOrder
    <2> QED BY <2>1, <2>6, <2>8, <2>9 DEF VideosInOrder
<1> QED BY <1>1, <1>2

-------------------------------------------------------------------------------
(* Where the cursor advances, an occurrence at hand is left behind, and no    *)
(* other.                                                                     *)
LEMMA AdvancingPasses ==
    ASSUME Typed, batch' = batch, AdvanceItem, cursor[1] \in DOMAIN batch.requests,
           cursor[2] \in DOMAIN Request.items
    PROVE  /\ Item.kind = "text" => Passed' = Passed
           /\ Item.kind # "text" => Passed' = Passed \cup {cursor}
           /\ cursor \notin Passed
<1>1. /\ cursor = <<cursor[1], cursor[2]>> /\ cursor[1] \in Nat /\ cursor[2] \in Nat
      /\ cursor'[1] = cursor[1] /\ cursor'[2] = cursor[2] + 1
    BY DEF Typed, AdvanceItem
<1>2. ASSUME NEW p \in Positions(batch)
      PROVE  Precedes(p, cursor') <=> Precedes(p, cursor) \/ p = cursor
    <2>1. p = <<p[1], p[2]>> /\ p[1] \in Nat /\ p[2] \in Nat
        BY PositionsOfABatch, BatchIsABatch, ItemsOfABatch
    <2> QED BY <1>1, <2>1 DEF Precedes
<1>3. Item.kind = "text" <=> cursor \notin Positions(batch)
    BY <1>1, PositionsOfABatch DEF Item, Request, ItemAt
<1>4. ~Precedes(cursor, cursor)
    BY <1>1 DEF Precedes
<1> QED BY <1>2, <1>3, <1>4 DEF Passed

(* The occurrences passed are finitely many, and counted by the index.        *)
LEMMA PassedIsCounted ==
    ASSUME Typed
    PROVE  /\ IsFiniteSet(Passed)
           /\ OccurrenceIndex(batch, cursor) = Cardinality(Passed)
           /\ Cardinality(Passed) \in Nat
<1>1. Passed \in SUBSET Positions(batch)
    BY DEF Passed
<1>2. IsFiniteSet(Passed)
    BY <1>1, PositionsAreFinite, BatchIsABatch, FS_Subset
<1> QED BY <1>2, FS_CardinalityType DEF OccurrenceIndex, Passed

(* What holds of the occurrences passed holds while those are the same.       *)
LEMMA NothingNewIsMissed ==
    ASSUME Inv, Traversing, Passed' = Passed,
           UNCHANGED <<batch, occurrenceIndex, imageLayouts, videoLayouts,
                       mediaErrors>>
    PROVE  NothingIsMissed'
<1>1. /\ occurrenceIndex = Cardinality(Passed)
      /\ ErrorsIn(mediaErrors) = ErrorsAt(batch, Passed, PlanningVerdict)
      /\ \A p \in Passed : PlanningVerdict(ItemAt(batch, p)) = OkVerdict =>
              IF ItemAt(batch, p).kind = "image"
              THEN \E k \in DOMAIN imageLayouts : imageLayouts[k].at = p
              ELSE \E k \in DOMAIN videoLayouts : videoLayouts[k].at = p
    BY PassedIsCounted DEF Inv, NothingIsMissed
<1>2. OccurrenceIndex(batch, cursor)' = Cardinality(Passed)'
    BY DEF OccurrenceIndex, Passed
<1>3. \A k \in DOMAIN imageLayouts : imageLayouts[k].at \in Passed
    BY DEF Inv, NothingIsMissed, ImagesInOrder, OfKind, Passed
<1>4. \A k \in DOMAIN videoLayouts : videoLayouts[k].at \in Passed
    BY DEF Inv, NothingIsMissed, VideosInOrder, OfKind, Passed
<1>5. \A p \in Passed : Precedes(p, cursor')
    BY DEF Passed
<1>6. ErrorsIn(mediaErrors)' = ErrorsAt(batch, Passed, PlanningVerdict)'
    BY <1>1 DEF ErrorsIn
<1>7. \A k \in DOMAIN imageLayouts : Precedes(imageLayouts[k].at, cursor')
    BY <1>3, <1>5
<1>8. \A k \in DOMAIN videoLayouts : Precedes(videoLayouts[k].at, cursor')
    BY <1>4, <1>5
<1> QED BY <1>1, <1>2, <1>6, <1>7, <1>8 DEF NothingIsMissed

(* An occurrence that is passed enters one table, the others none.            *)
LEMMA NothingIsMissedIsPreserved ==
    ASSUME Inv, Next
    PROVE  NothingIsMissed'
<1> USE DEF Inv
<1>0. Typed /\ batch' = batch /\ Typed'
    BY TypedIsPreserved, BatchIsNeverWritten
<1> SUFFICES ASSUME Traversing' PROVE NothingIsMissed'
    BY DEF NothingIsMissed
<1>1. CASE Preflight
    <2>1. /\ cursor' = <<1, 1>> /\ occurrenceIndex' = 0 /\ mediaErrors' = <<>>
          /\ imageLayouts' = <<>> /\ videoLayouts' = <<>>
        BY <1>1 DEF Preflight, PhasesHold, Before, traversalVars
    <2>2. Passed' = {}
        <3>1. ASSUME NEW p \in Positions(batch) PROVE ~Precedes(p, cursor')
            <4>1. p[1] \in Nat \ {0} /\ p[2] \in Nat \ {0}
                BY BatchIsABatch, ItemsOfABatch
            <4> QED BY <2>1, <4>1 DEF Precedes
        <3> QED BY <1>0, <3>1 DEF Passed
    <2>3. OccurrenceIndex(batch, cursor)' = 0
        <3>1. OccurrenceIndex(batch, cursor)' = Cardinality(Passed')
            BY DEF OccurrenceIndex, Passed
        <3> QED BY <2>2, <3>1, FS_EmptySet
    <2>4. ErrorsIn(mediaErrors)' = {} /\ ErrorsAt(batch, Passed, PlanningVerdict)' = {}
        BY <2>1, <2>2 DEF ErrorsIn, ErrorsAt
    <2>5. DOMAIN imageLayouts' = {} /\ DOMAIN videoLayouts' = {}
        BY <2>1
    <2>6. occurrenceIndex' = OccurrenceIndex(batch, cursor)'
        BY <2>1, <2>3
    <2>7. ErrorsIn(mediaErrors)' = ErrorsAt(batch, Passed, PlanningVerdict)'
        BY <2>4
    <2> QED BY <2>2, <2>5, <2>6, <2>7, Zenon DEF NothingIsMissed
<1>2. CASE SkipText
    <2>1. Passed' = Passed
        BY <1>0, <1>2, AdvancingPasses DEF SkipText
    <2>2. Traversing
        BY <1>2 DEF SkipText, Traversing, Before
    <2> QED BY <1>2, <2>1, <2>2, NothingNewIsMissed DEF SkipText
<1>3. CASE CloseRequest
    <2>1. Traversing
        BY <1>3 DEF CloseRequest, Traversing, Before
    <2>2. Passed' = Passed
        <3>1. CASE cursor' = cursor
            BY <1>0, <3>1 DEF Passed
        <3>2. CASE cursor' # cursor
            <4>1. cursor' = <<cursor[1] + 1, 1>> /\ cursor[1] \in DOMAIN batch.requests
                  /\ cursor[2] > Len(Request.items)
                BY <1>3, <3>2 DEF CloseRequest
            <4>2. cursor'[1] = cursor[1] + 1 /\ cursor'[2] = 1
                  /\ cursor[1] \in Nat /\ cursor[2] \in Nat
                BY <4>1 DEF Typed
            <4>3. ASSUME NEW p \in Positions(batch)
                  PROVE  Precedes(p, cursor') <=> Precedes(p, cursor)
                <5>1. p[1] \in Nat /\ p[2] \in Nat \ {0}
                    BY BatchIsABatch, ItemsOfABatch
                <5>2. p[1] = cursor[1] => p[2] <= Len(Request.items)
                    BY <4>1, PositionsOfABatch, RequestAtHand DEF Request
                <5>3. Len(Request.items) \in Nat
                    BY <4>1, RequestAtHand
                <5> QED BY <4>1, <4>2, <5>1, <5>2, <5>3 DEF Precedes
            <4> QED BY <1>0, <4>3 DEF Passed
        <3> QED BY <3>1, <3>2
    <2> QED BY <1>3, <2>1, <2>2, NothingNewIsMissed DEF CloseRequest
<1>4. CASE ImageFails \/ VideoFails \/ PlanImage \/ PlanVideo
    <2>1. PICK kind \in {"image", "video"} : OnMedia(kind)
        BY <1>4 DEF ImageFails, VideoFails, PlanImage, PlanVideo, KeepMediaError
    <2>2. /\ AdvanceItem /\ occurrenceIndex' = occurrenceIndex + 1
          /\ phase = "traverse" /\ Traversing
        BY <1>4, <2>1 DEF ImageFails, VideoFails, PlanImage, PlanVideo,
            KeepMediaError, OnMedia, Traversing, Before
    <2>3. /\ cursor \in Positions(batch) /\ cursor \in OfKind(batch, kind)
          /\ Item = ItemAt(batch, cursor) /\ Item.kind = kind
        BY <2>1, OccurrenceAtHand
    <2>4. Passed' = Passed \cup {cursor} /\ cursor \notin Passed
        BY <1>0, <2>1, <2>2, <2>3, AdvancingPasses DEF OnMedia
    <2>5. occurrenceIndex = OccurrenceIndex(batch, cursor)
          /\ ErrorsIn(mediaErrors) = ErrorsAt(batch, Passed, PlanningVerdict)
        BY <2>2 DEF NothingIsMissed
    <2>6. occurrenceIndex' = OccurrenceIndex(batch, cursor)'
        <3>1. OccurrenceIndex(batch, cursor)' = Cardinality(Passed')
            BY DEF OccurrenceIndex, Passed
        <3>2. Cardinality(Passed') = Cardinality(Passed) + 1
            BY <2>4, PassedIsCounted, FS_AddElement
        <3> QED BY <2>2, <2>5, <3>1, <3>2, PassedIsCounted
    <2>7. \A p \in Passed' : Precedes(p, cursor')
        BY DEF Passed
    <2>8. /\ \A k \in DOMAIN imageLayouts : imageLayouts[k].at \in Passed
          /\ \A k \in DOMAIN videoLayouts : videoLayouts[k].at \in Passed
        BY <2>2 DEF NothingIsMissed, ImagesInOrder, VideosInOrder, OfKind, Passed
    <2>9. \A p \in Passed : PlanningVerdict(ItemAt(batch, p)) = OkVerdict =>
              IF ItemAt(batch, p).kind = "image"
              THEN \E k \in DOMAIN imageLayouts : imageLayouts[k].at = p
              ELSE \E k \in DOMAIN videoLayouts : videoLayouts[k].at = p
        BY <2>2 DEF NothingIsMissed
    <2>10. ErrorsAt(batch, Passed, PlanningVerdict)' =
              ErrorsAt(batch, Passed, PlanningVerdict) \cup
                  (IF PlanningVerdict(Item) = OkVerdict THEN {}
                   ELSE {Error(PlanningVerdict(Item), occurrenceIndex)})
        <3>1. ErrorsAt(batch, Passed, PlanningVerdict)' =
                  ErrorsAt(batch, Passed \cup {cursor}, PlanningVerdict)
            BY <1>0, <2>4 DEF ErrorsAt
        <3> QED BY <2>3, <2>5, <3>1, OneMoreFailure
    <2>11. CASE ImageFails \/ VideoFails
        <3>1. /\ PlanningVerdict(Item) # OkVerdict
              /\ mediaErrors' = Append(mediaErrors,
                     Error(PlanningVerdict(Item), occurrenceIndex))
              /\ UNCHANGED <<imageLayouts, videoLayouts>>
            <4>1. CASE ImageFails
                BY <4>1 DEF ImageFails, KeepMediaError, ImagePlanVerdict
            <4>2. CASE VideoFails
                <5>1. Item.plan # OkVerdict
                    BY <4>2 DEF VideoFails, KeepMediaError, VideoPlanVerdict
                <5>2. PlanningVerdict(Item) = Item.plan
                    BY <5>1 DEF PlanningVerdict
                <5> QED BY <4>2, <5>1, <5>2
                        DEF VideoFails, KeepMediaError, VideoPlanVerdict
            <4> QED BY <2>11, <4>1, <4>2
        <3>2. Error(PlanningVerdict(Item), occurrenceIndex) \in Errors
            BY <2>1, <3>1, OccurrenceAtHand, PlanningVerdicts, FailuresAreResults
                DEF Typed
        <3>3. ErrorsIn(mediaErrors)' = ErrorsAt(batch, Passed, PlanningVerdict)'
            <4>1. ErrorsIn(mediaErrors)' = ErrorsIn(mediaErrors')
                BY DEF ErrorsIn
            <4>2. mediaErrors \in Seq(Errors)
                BY DEF Typed
            <4>3. ErrorsIn(mediaErrors') = ErrorsIn(mediaErrors) \cup
                      {Error(PlanningVerdict(Item), occurrenceIndex)}
                BY <3>1, <3>2, <4>2, OneMoreListed
            <4>4. ErrorsAt(batch, Passed, PlanningVerdict)' =
                      ErrorsAt(batch, Passed, PlanningVerdict) \cup
                          {Error(PlanningVerdict(Item), occurrenceIndex)}
                BY <2>10, <3>1, Zenon
            <4> QED BY <2>5, <4>1, <4>3, <4>4, Zenon
        <3>4. \A p \in Passed' : PlanningVerdict(ItemAt(batch, p)) = OkVerdict =>
                  p \in Passed
            BY <2>3, <2>4, <3>1
        <3>5. /\ \A k \in DOMAIN imageLayouts' : Precedes(imageLayouts'[k].at, cursor')
              /\ \A k \in DOMAIN videoLayouts' : Precedes(videoLayouts'[k].at, cursor')
            BY <2>4, <2>7, <2>8, <3>1
        <3> QED BY <1>0, <2>6, <2>9, <3>1, <3>3, <3>4, <3>5 DEF NothingIsMissed
    <2>12. CASE PlanImage
        <3>1. /\ PlanningVerdict(Item) = OkVerdict /\ kind = "image"
              /\ imageLayouts' = Append(imageLayouts, ImageLayout)
              /\ UNCHANGED <<videoLayouts, mediaErrors>> /\ ImageLayout.at = cursor
            BY <2>1, <2>12 DEF PlanImage, ImagePlanVerdict, ImageLayout, Layout, OnMedia
        <3>2. /\ DOMAIN imageLayouts \subseteq DOMAIN imageLayouts'
              /\ \A k \in DOMAIN imageLayouts : imageLayouts'[k] = imageLayouts[k]
              /\ Len(imageLayouts) + 1 \in DOMAIN imageLayouts'
              /\ imageLayouts'[Len(imageLayouts) + 1] = ImageLayout
              /\ \A k \in DOMAIN imageLayouts' :
                    k \in DOMAIN imageLayouts \/ k = Len(imageLayouts) + 1
            BY <3>1 DEF Typed
        <3>3. ErrorsIn(mediaErrors)' = ErrorsAt(batch, Passed, PlanningVerdict)'
            BY <2>5, <2>10, <3>1 DEF ErrorsIn
        <3>4. /\ \A k \in DOMAIN imageLayouts' : Precedes(imageLayouts'[k].at, cursor')
              /\ \A k \in DOMAIN videoLayouts' : Precedes(videoLayouts'[k].at, cursor')
            BY <2>4, <2>7, <2>8, <3>1, <3>2
        <3>5. ASSUME NEW p \in Passed', PlanningVerdict(ItemAt(batch, p)) = OkVerdict
              PROVE  IF ItemAt(batch, p).kind = "image"
                     THEN \E k \in DOMAIN imageLayouts' : imageLayouts'[k].at = p
                     ELSE \E k \in DOMAIN videoLayouts' : videoLayouts'[k].at = p
            <4>1. CASE p = cursor
                BY <2>3, <3>1, <3>2, <4>1
            <4>2. CASE p \in Passed
                BY <2>9, <3>1, <3>2, <3>5, <4>2
            <4> QED BY <2>4, <4>1, <4>2
        <3> QED BY <1>0, <2>6, <3>3, <3>4, <3>5 DEF NothingIsMissed
    <2>13. CASE PlanVideo
        <3> DEFINE v == Layout(occurrenceIndex, Len(videoLayouts), nextVideoPixelRow)
        <3>1. /\ Item.plan = OkVerdict /\ kind = "video"
              /\ videoLayouts' = Append(videoLayouts, v)
              /\ UNCHANGED <<imageLayouts, mediaErrors>> /\ v.at = cursor
            BY <2>1, <2>13 DEF PlanVideo, VideoPlanVerdict, Layout, OnMedia
        <3>a. PlanningVerdict(Item) = OkVerdict
            BY <2>3, <3>1, BatchIsABatch, ItemsOfABatch DEF PlanningVerdict
        <3> HIDE DEF v
        <3>2. /\ DOMAIN videoLayouts \subseteq DOMAIN videoLayouts'
              /\ \A k \in DOMAIN videoLayouts : videoLayouts'[k] = videoLayouts[k]
              /\ Len(videoLayouts) + 1 \in DOMAIN videoLayouts'
              /\ videoLayouts'[Len(videoLayouts) + 1] = v
              /\ \A k \in DOMAIN videoLayouts' :
                    k \in DOMAIN videoLayouts \/ k = Len(videoLayouts) + 1
            BY <3>1 DEF Typed
        <3>3. ErrorsIn(mediaErrors)' = ErrorsAt(batch, Passed, PlanningVerdict)'
            BY <2>5, <2>10, <3>1, <3>a DEF ErrorsIn
        <3>4. /\ \A k \in DOMAIN imageLayouts' : Precedes(imageLayouts'[k].at, cursor')
              /\ \A k \in DOMAIN videoLayouts' : Precedes(videoLayouts'[k].at, cursor')
            BY <2>4, <2>7, <2>8, <3>1, <3>2
        <3>5. ASSUME NEW p \in Passed', PlanningVerdict(ItemAt(batch, p)) = OkVerdict
              PROVE  IF ItemAt(batch, p).kind = "image"
                     THEN \E k \in DOMAIN imageLayouts' : imageLayouts'[k].at = p
                     ELSE \E k \in DOMAIN videoLayouts' : videoLayouts'[k].at = p
            <4>1. CASE p = cursor
                BY <2>3, <3>1, <3>2, <4>1
            <4>2. CASE p \in Passed
                BY <2>9, <3>1, <3>2, <3>5, <4>2
            <4> QED BY <2>4, <4>1, <4>2
        <3> QED BY <1>0, <2>6, <3>3, <3>4, <3>5 DEF NothingIsMissed
    <2> QED BY <1>4, <2>11, <2>12, <2>13
<1>5. CASE ~Traverse /\ ~Preflight
    <2>1. Traversing
        BY <1>5 DEF Next, PlanningThread, Traverse, RejectEmptyBatch,
            ValidateAndRender, Triage, PlanText, FinishSalvage,
            FinishExecute, ExecuteVideos, BuildSidecar, Worker, StartDecode,
            FinishDecode, Decoding, Finished, vars, Traversing, Before, Fail, MoveTo
    <2>2. phase \notin {"validate", "traverse"}
        BY <1>5, <2>1, StepsAfterTraversal DEF Traversing, Before
    <2>3. mediaErrors' = mediaErrors
        <3>1. ~FinishSalvage
            BY DEF FinishSalvage, Fail, Traversing, Before
        <3> QED BY <1>5, <3>1, StepsAfterTraversal
    <2>4. UNCHANGED <<batch, cursor, occurrenceIndex, imageLayouts, videoLayouts>>
        BY <1>5, <2>2, StepsAfterTraversal
    <2>5. Passed' = Passed
        BY <2>4 DEF Passed
    <2> QED BY <2>1, <2>3, <2>4, <2>5, NothingNewIsMissed
<1> QED BY <1>1, <1>2, <1>3, <1>4, <1>5 DEF Traverse

-------------------------------------------------------------------------------
(* A failure is collected with the index of the occurrence at hand.           *)
LEMMA FailuresStayInOrder ==
    ASSUME Inv, Next
    PROVE  FailuresInOrder'
<1> USE DEF Inv
<1> SUFFICES ASSUME Traversing' PROVE FailuresInOrder'
    BY DEF FailuresInOrder
<1>0. Typed /\ mediaErrors \in Seq(Errors) /\ occurrenceIndex \in Nat
    BY DEF Typed
<1>1. CASE Preflight
    <2>1. mediaErrors' = <<>>
        BY <1>1 DEF Preflight, PhasesHold, Before
    <2> QED BY <2>1 DEF FailuresInOrder
<1>2. CASE ImageFails \/ VideoFails
    <2>1. /\ occurrenceIndex' = occurrenceIndex + 1 /\ Traversing
          /\ \E c : mediaErrors' = Append(mediaErrors, Error(c, occurrenceIndex))
        BY <1>2 DEF ImageFails, VideoFails, KeepMediaError, OnMedia, Traversing, Before
    <2>2. PICK c : mediaErrors' = Append(mediaErrors, Error(c, occurrenceIndex))
        BY <2>1
    <2> DEFINE n == Len(mediaErrors)
    <2>3. /\ n \in Nat /\ DOMAIN mediaErrors' = 1..(n + 1) /\ DOMAIN mediaErrors = 1..n
          /\ \A k \in 1..n : mediaErrors'[k] = mediaErrors[k]
          /\ mediaErrors'[n + 1] = Error(c, occurrenceIndex)
        BY <1>0, <2>2
    <2>4. mediaErrors'[n + 1].place = occurrenceIndex
        BY <2>3 DEF Error
    <2>a. \A k \in 1..n : mediaErrors[k] \in Errors
        BY <1>0
    <2>5. \A k \in 1..n : mediaErrors[k].place \in Nat
        BY <2>a DEF Errors
    <2>6. /\ \A k \in 1..n : mediaErrors[k].place < occurrenceIndex
          /\ \A j, k \in 1..n : j < k => mediaErrors[j].place < mediaErrors[k].place
        BY <2>1, <2>3 DEF FailuresInOrder
    <2> HIDE DEF n
    <2>7. \A k \in 1..(n + 1) : k \in 1..n \/ k = n + 1
        BY <2>3
    <2>8. \A k \in 1..(n + 1) : mediaErrors'[k].place < occurrenceIndex'
        BY <1>0, <2>1, <2>3, <2>4, <2>5, <2>6, <2>7
    <2>9. ASSUME NEW j \in 1..(n + 1), NEW k \in 1..(n + 1), j < k
          PROVE  mediaErrors'[j].place < mediaErrors'[k].place
        <3>1. j \in 1..n
            BY <2>3, <2>9
        <3> QED BY <2>3, <2>4, <2>6, <2>7, <2>9, <3>1
    <2> QED BY <2>3, <2>8, <2>9 DEF FailuresInOrder
<1>3. CASE SkipText \/ PlanImage \/ PlanVideo \/ CloseRequest
    <2>1. /\ occurrenceIndex <= occurrenceIndex' /\ occurrenceIndex' \in Nat
          /\ Traversing /\ mediaErrors' = mediaErrors
        BY <1>0, <1>3 DEF SkipText, PlanImage, PlanVideo, CloseRequest, OnMedia,
            Traversing, Before
    <2>a. \A k \in DOMAIN mediaErrors : mediaErrors[k] \in Errors
        BY <1>0
    <2>2. \A k \in DOMAIN mediaErrors : mediaErrors[k].place \in Nat
        BY <2>a DEF Errors
    <2> QED BY <1>0, <2>1, <2>2 DEF FailuresInOrder
<1>4. CASE ~Traverse /\ ~Preflight
    <2>1. Traversing
        BY <1>4 DEF Next, PlanningThread, Traverse, RejectEmptyBatch,
            ValidateAndRender, Triage, PlanText, FinishSalvage,
            FinishExecute, ExecuteVideos, BuildSidecar, Worker, StartDecode,
            FinishDecode, Decoding, Finished, vars, Traversing, Before, Fail, MoveTo
    <2>2. ~FinishSalvage
        BY DEF FinishSalvage, Fail, Traversing, Before
    <2>3. UNCHANGED <<mediaErrors, occurrenceIndex>>
        BY <1>4, <2>2, StepsAfterTraversal
    <2> QED BY <2>1, <2>3 DEF FailuresInOrder
<1> QED BY <1>1, <1>2, <1>3, <1>4 DEF Traverse

(* The ranges of a request hold the images planned while it was at hand.      *)
LEMMA RangesArePreserved ==
    ASSUME Inv, Next
    PROVE  RangesHold'
<1> USE DEF Inv
<1>0. /\ Typed /\ batch' = batch /\ Len(imageLayouts) \in Nat /\ nextPixelRow \in Nat
      /\ DOMAIN imageLayouts = 1..Len(imageLayouts)
      /\ Len(requestLayouts) \in Nat /\ cursor[1] \in Nat /\ cursor[2] \in Nat
      /\ DOMAIN requestLayouts = 1..Len(requestLayouts)
    BY BatchIsNeverWritten DEF Typed
<1>1. CASE PlanImage
    <2>1. PICK n \in Nat : n = Len(imageLayouts)
        BY <1>0
    <2>2. /\ OnMedia("image") /\ phase = "traverse" /\ AdvanceItem
          /\ imageLayouts' = Append(imageLayouts, ImageLayout)
          /\ nextPixelRow' = nextPixelRow + Item.rows
          /\ requestLayouts' = requestLayouts /\ phase' = phase
        BY <1>1 DEF PlanImage, OnMedia
    <2>3. Item.rows \in Nat /\ cursor'[1] = cursor[1]
        BY <2>2, OccurrenceAtHand DEF AdvanceItem
    <2>4. /\ DOMAIN imageLayouts = 1..n /\ DOMAIN imageLayouts' = 1..(n + 1)
          /\ \A k \in 1..n : imageLayouts'[k] = imageLayouts[k]
          /\ imageLayouts'[n + 1] = ImageLayout
          /\ ImageLayout.at = cursor /\ ImageLayout.start = nextPixelRow
          /\ Len(imageLayouts') = n + 1
        BY <1>0, <2>1, <2>2 DEF Typed, ImageLayout, Layout
    <2>5. \A k \in 1..(n + 1) : k \in 1..n \/ k = n + 1
        OBVIOUS
    <2>6. /\ cursor[1] = Len(requestLayouts) + 1
          /\ GridStart <= n /\ PixelStart <= nextPixelRow
          /\ \A k \in 1..n : /\ k > GridStart <=> imageLayouts[k].at[1] = cursor[1]
                             /\ k > GridStart => PixelStart <= imageLayouts[k].start
        BY <2>1, <2>2, <2>4 DEF PhasesHold, RangesHold
    <2>7. /\ GridStart' = GridStart /\ PixelStart' = PixelStart
          /\ GridStart \in Nat /\ PixelStart \in Nat
        BY <2>2, StartsAreNumbers DEF GridStart, PixelStart
    <2>8. ASSUME NEW r \in DOMAIN requestLayouts
          PROVE  /\ requestLayouts[r].gridEnd <= n + 1
                 /\ \A k \in 1..(n + 1) :
                        InRange(k, r)' <=> imageLayouts'[k].at[1] = r
        <3>1. requestLayouts[r] \in Ranges /\ r <= Len(requestLayouts) /\ r \in Nat
            BY <1>0 DEF Typed
        <3>2. requestLayouts[r].gridEnd <= n /\ requestLayouts[r].gridEnd \in Nat
            BY <2>1, <3>1 DEF RangesHold, Ranges
        <3>3. ASSUME NEW k \in 1..n
              PROVE  InRange(k, r)' <=> imageLayouts'[k].at[1] = r
            BY <2>2, <2>4 DEF RangesHold, InRange
        <3>4. ~(n + 1 <= requestLayouts[r].gridEnd) /\ cursor[1] # r
            BY <1>0, <2>6, <3>1, <3>2
        <3>5. ASSUME NEW k \in 1..(n + 1), k = n + 1
              PROVE  InRange(k, r)' <=> imageLayouts'[k].at[1] = r
            BY <2>2, <2>4, <3>4, <3>5 DEF InRange
        <3>6. requestLayouts[r].gridEnd <= n + 1
            BY <3>2
        <3> QED BY <2>5, <3>3, <3>5, <3>6
    <2>9. ASSUME NEW k \in 1..(n + 1)
          PROVE  /\ k > GridStart <=> imageLayouts'[k].at[1] = cursor[1]
                 /\ k > GridStart => PixelStart <= imageLayouts'[k].start
        <3>1. CASE k \in 1..n
            BY <2>4, <2>6, <3>1
        <3>2. CASE k = n + 1
            BY <2>4, <2>6, <2>7, <3>2
        <3> QED BY <2>5, <3>1, <3>2
    <2>10. GridStart <= n + 1 /\ PixelStart <= nextPixelRow'
        BY <1>0, <2>2, <2>3, <2>6, <2>7
    <2> QED BY <2>2, <2>3, <2>4, <2>7, <2>8, <2>9, <2>10 DEF RangesHold
<1>2. CASE SkipText \/ ImageFails \/ VideoFails \/ PlanVideo
    <2>1. /\ phase = "traverse" /\ cursor'[1] = cursor[1]
          /\ UNCHANGED <<imageLayouts, requestLayouts, nextPixelRow>>
        BY <1>2 DEF SkipText, ImageFails, VideoFails, PlanVideo, KeepMediaError,
            OnMedia, AdvanceItem
    <2>2. GridStart' = GridStart /\ PixelStart' = PixelStart
        BY <2>1 DEF GridStart, PixelStart
    <2> QED BY <2>1, <2>2 DEF RangesHold, InRange
<1>3. CASE CloseRequest
    <2>1. PICK m \in Nat : m = Len(requestLayouts)
        BY <1>0
    <2> DEFINE new == [gridStart |-> GridStart, gridEnd |-> Len(imageLayouts),
                       pixelStart |-> PixelStart, pixelEnd |-> nextPixelRow]
    <2>2. /\ phase = "traverse" /\ UNCHANGED <<imageLayouts, nextPixelRow>>
          /\ requestLayouts' = Append(requestLayouts, new)
          /\ phase' = "traverse" => cursor' = <<cursor[1] + 1, 1>>
        BY <1>3 DEF CloseRequest, MoveTo
    <2>3. /\ new.gridStart = GridStart /\ new.gridEnd = Len(imageLayouts)
          /\ new.pixelStart = PixelStart /\ new.pixelEnd = nextPixelRow
        OBVIOUS
    <2> HIDE DEF new
    <2>4. /\ DOMAIN requestLayouts = 1..m /\ DOMAIN requestLayouts' = 1..(m + 1)
          /\ \A r \in 1..m : requestLayouts'[r] = requestLayouts[r]
          /\ requestLayouts'[m + 1] = new /\ Len(requestLayouts') = m + 1
          /\ requestLayouts' # <<>>
        <3>1. requestLayouts \in Seq(Ranges)
            BY DEF Typed
        <3>2. /\ DOMAIN Append(requestLayouts, new) = 1..(m + 1)
              /\ \A r \in 1..m : Append(requestLayouts, new)[r] = requestLayouts[r]
              /\ Append(requestLayouts, new)[m + 1] = new
              /\ Len(Append(requestLayouts, new)) = m + 1
            BY <2>1, <3>1
        <3>3. m + 1 # 0
            BY <2>1
        <3> QED BY <1>0, <2>1, <2>2, <3>2, <3>3
    <2>5. /\ cursor[1] = m + 1
          /\ \A k \in DOMAIN imageLayouts :
                /\ k > GridStart <=> imageLayouts[k].at[1] = cursor[1]
                /\ k > GridStart => PixelStart <= imageLayouts[k].start
        BY <2>1, <2>2 DEF PhasesHold, RangesHold
    <2>6. ASSUME NEW k \in DOMAIN imageLayouts
          PROVE  /\ k \in Nat /\ k <= Len(imageLayouts)
                 /\ imageLayouts[k].end <= nextPixelRow
                 /\ imageLayouts[k].at[1] <= cursor[1]
                 /\ imageLayouts[k].at[1] \in Nat
        <3>1. imageLayouts[k].end <= nextPixelRow
            BY DEF ImagesInOrder
        <3>2. Precedes(imageLayouts[k].at, cursor)
            BY <2>2 DEF NothingIsMissed, Traversing, Before
        <3>3. imageLayouts[k] \in Layouts
            BY DEF Typed
        <3>4. imageLayouts[k].at[1] \in Nat
            BY <3>3 DEF Layouts
        <3> QED BY <1>0, <3>1, <3>2, <3>4 DEF Precedes
    <2>7. ASSUME NEW r \in 1..(m + 1)
          PROVE  /\ requestLayouts'[r].gridEnd <= Len(imageLayouts)
                 /\ \A k \in DOMAIN imageLayouts :
                        InRange(k, r)' <=> imageLayouts[k].at[1] = r
        <3>1. CASE r \in 1..m
            BY <2>2, <2>4, <3>1 DEF RangesHold, InRange
        <3>2. CASE r = m + 1
            <4>1. requestLayouts'[r].gridEnd <= Len(imageLayouts)
                BY <1>0, <2>3, <2>4, <3>2
            <4>2. ASSUME NEW k \in DOMAIN imageLayouts
                  PROVE  InRange(k, r)' <=> imageLayouts[k].at[1] = r
                <5>1. InRange(k, r)' <=>
                          /\ GridStart < k /\ k <= Len(imageLayouts)
                          /\ PixelStart <= imageLayouts[k].start
                          /\ imageLayouts[k].end <= nextPixelRow
                    BY <2>2, <2>3, <2>4, <3>2 DEF InRange
                <5> QED BY <2>5, <2>6, <3>2, <5>1
            <4> QED BY <4>1, <4>2
        <3> QED BY <3>1, <3>2
    <2>8. /\ GridStart' = Len(imageLayouts) /\ PixelStart' = nextPixelRow
        BY <2>3, <2>4 DEF GridStart, PixelStart
    <2>9. ASSUME phase' = "traverse", NEW k \in DOMAIN imageLayouts
          PROVE  ~(k > GridStart') /\ imageLayouts[k].at[1] # cursor'[1]
        <3>1. cursor'[1] = cursor[1] + 1
            BY <2>2, <2>9
        <3> QED BY <1>0, <2>6, <2>8, <3>1
    <2> QED BY <1>0, <2>2, <2>4, <2>7, <2>8, <2>9 DEF RangesHold
<1>4. CASE ~Traverse
    <2>1. UNCHANGED <<imageLayouts, requestLayouts, nextPixelRow>>
        BY <1>4, StepsAfterTraversal
    <2>2. phase' = "traverse" =>
              /\ imageLayouts = <<>> /\ requestLayouts = <<>>
        BY <1>4, StepsAfterTraversal DEF PhasesHold, Before
    <2>3. \A r \in DOMAIN requestLayouts' :
              /\ requestLayouts'[r].gridEnd <= Len(imageLayouts')
              /\ \A k \in DOMAIN imageLayouts' :
                    InRange(k, r)' <=> imageLayouts'[k].at[1] = r
        BY <2>1 DEF RangesHold, InRange
    <2>4. ASSUME phase' = "traverse"
          PROVE  /\ GridStart' <= Len(imageLayouts') /\ PixelStart' <= nextPixelRow'
                 /\ DOMAIN imageLayouts' = {}
        BY <1>0, <2>1, <2>2, <2>4 DEF GridStart, PixelStart
    <2> QED BY <2>3, <2>4 DEF RangesHold
<1> QED BY <1>1, <1>2, <1>3, <1>4 DEF Traverse

-------------------------------------------------------------------------------
(* When the traversal is over, the failures collected are those of planning.  *)
LEMMA AllFailuresAreCollected ==
    ASSUME Inv, phase \in After
    PROVE  /\ ErrorsIn(mediaErrors) = PlanningFailures
           /\ PredecodeErrors(mediaErrors) = Predecode(PlanningFailures)
           /\ mediaErrors = <<>> <=> PlanningFailures = {}
<1>1. ErrorsIn(mediaErrors) = PlanningFailures
    <2>1. ErrorsIn(mediaErrors) = ErrorsAt(batch, Passed, PlanningVerdict)
        BY DEF Inv, NothingIsMissed, Traversing, Before, After
    <2>2. Passed = Positions(batch)
        BY DEF Inv, PhasesHold
    <2> QED BY <2>1, <2>2, Zenon DEF PlanningFailures
<1>2. mediaErrors \in Seq(Errors)
    BY DEF Inv, Typed
<1>3. mediaErrors = <<>> <=> ErrorsIn(mediaErrors) = {}
    <2>1. mediaErrors # <<>> => 1 \in DOMAIN mediaErrors
        BY <1>2
    <2> QED BY <2>1 DEF ErrorsIn
<1> QED BY <1>1, <1>3 DEF PredecodeErrors, Predecode

(* Workers are given images only when every limit has been looked at.         *)
LEMMA DecodingStaysDue ==
    ASSUME Inv, Next
    PROVE  DecodingIsDue'
<1> USE DEF Inv
<1>0. batch' = batch /\ UNCHANGED PlanningFailures
    BY BatchIsNeverWritten DEF PlanningFailures
<1> DEFINE Due == /\ AdmissionFailures(batch) = {}
                  /\ Predecode(PlanningFailures) = {}
                  /\ PlanningFailures # {} \/ TextFailures(batch) = {}
           Late == {"salvage", "execute", "videos", "sidecar"}
<1> SUFFICES ASSUME decode' # <<>> \/ phase' \in Late PROVE Due
    BY <1>0 DEF DecodingIsDue
<1>1. CASE decode # <<>> \/ phase \in Late
    BY <1>1 DEF DecodingIsDue
<1>2. CASE decode = <<>> /\ phase \notin Late
    <2>1. CASE Triage
        <3>1. /\ phase = "triage" /\ phase \in After
              /\ PredecodeErrors(mediaErrors) = {} /\ mediaErrors # <<>>
            BY <1>2, <2>1 DEF Triage, After, Fail, MoveTo
        <3> QED BY <3>1, AllFailuresAreCollected DEF PhasesHold, Before
    <2>2. CASE PlanText
        <3>1. /\ phase = "text" /\ phase \in After /\ batch.text = OkVerdict
            BY <1>2, <2>2 DEF PlanText, After, Fail, MoveTo
        <3>2. mediaErrors = <<>> /\ AdmissionFailures(batch) = {}
            BY <3>1 DEF PhasesHold, Before
        <3>3. PlanningFailures = {}
            BY <3>1, <3>2, AllFailuresAreCollected
        <3> QED BY <3>1, <3>2, <3>3 DEF TextFailures, Predecode
    <2>3. ~Worker
        BY <1>2 DEF Worker
    <2> QED BY <1>2, <2>1, <2>2, <2>3 DEF Next, PlanningThread, RejectEmptyBatch,
            ValidateAndRender, Preflight, SkipText, ImageFails, VideoFails,
            KeepMediaError, PlanImage, PlanVideo, CloseRequest, FinishSalvage,
            FinishExecute, ExecuteVideos, BuildSidecar, Finished, vars, Fail,
            MoveTo, OnMedia
<1> QED BY <1>1, <1>2

(* With every image decoded and no failure among them, every image is sound.  *)
LEMMA NoDecodeErrorsMeansSound ==
    ASSUME Typed, ImagesInOrder, AllDecoded,
           DOMAIN decode = DOMAIN imageLayouts, DecodeErrors = <<>>
    PROVE  \A k \in DOMAIN imageLayouts :
               ItemAt(batch, imageLayouts[k].at).body = OkVerdict
<1> DEFINE Failed == {k \in DOMAIN imageLayouts : BodyKnown(k) # OkVerdict}
<1>1. PICK f : Lists(f, <<>>, Outcomes, Failed, Len(imageLayouts))
    BY DecodeErrorsAre
<1>2. \A k \in Failed : k \in 1..Len(imageLayouts) => FALSE
    BY <1>1 DEF Lists
<1>3. Failed = {}
    BY <1>2, OutcomesAre
<1> QED BY <1>3 DEF AllDecoded, BodyKnown

(* A stage that is passed has found nothing.                                  *)
LEMMA StagesStayPassed ==
    ASSUME Inv, Next
    PROVE  StagesPassed'
<1> USE DEF Inv
<1>0. batch' = batch
    BY BatchIsNeverWritten
<1>1. CASE Traverse
    <2>1. phase' \in {"traverse", "triage"}
        BY <1>1 DEF Traverse, SkipText, ImageFails, VideoFails, KeepMediaError,
            PlanImage, PlanVideo, CloseRequest, OnMedia, MoveTo
    <2> QED BY <2>1 DEF StagesPassed
<1>2. CASE ~Traverse
    <2>0. UNCHANGED <<imageLayouts, videoLayouts>>
        BY <1>2, StepsAfterTraversal
    <2>1. CASE phase' = phase
        BY <1>0, <2>0, <2>1 DEF StagesPassed
    <2>2. CASE phase' # phase
        <3>1. CASE PlanText
            <4>1. phase' \in {"text", "execute", "done"}
                     /\ (phase' = "execute" => batch.text = OkVerdict)
                BY <3>1 DEF PlanText, Fail, MoveTo
            <4> QED BY <1>0, <4>1 DEF StagesPassed, TextFailures
        <3>2. CASE FinishExecute
            <4>1. /\ phase = "execute" /\ AllDecoded
                  /\ phase' = "done" \/ (phase' = "videos" /\ DecodeErrors = <<>>)
                BY <3>2 DEF FinishExecute, Fail, MoveTo
            <4>2. DOMAIN decode = DOMAIN imageLayouts
                BY <4>1 DEF PhasesHold, After
            <4>3. phase' = "videos" =>
                      \A k \in DOMAIN imageLayouts :
                          ItemAt(batch, imageLayouts[k].at).body = OkVerdict
                BY <4>1, <4>2, NoDecodeErrorsMeansSound
            <4>4. TextFailures(batch) = {}
                BY <4>1 DEF StagesPassed
            <4> QED BY <1>0, <2>0, <4>1, <4>3, <4>4 DEF StagesPassed
        <3>3. CASE ExecuteVideos
            <4>1. /\ phase = "videos"
                  /\ phase' = "done" \/ (phase' = "sidecar" /\ FailedVideos = {})
                BY <3>3 DEF ExecuteVideos, Fail, MoveTo
            <4>2. phase' = "sidecar" =>
                      \A k \in DOMAIN videoLayouts :
                          ItemAt(batch, videoLayouts[k].at).body = OkVerdict
                BY <4>1 DEF FailedVideos
            <4>3. /\ TextFailures(batch) = {}
                  /\ \A k \in DOMAIN imageLayouts :
                        ItemAt(batch, imageLayouts[k].at).body = OkVerdict
                BY <4>1 DEF StagesPassed
            <4> QED BY <1>0, <2>0, <4>1, <4>2, <4>3 DEF StagesPassed
        <3>4. phase' \in {"validate", "preflight", "traverse", "salvage", "text", "done"}
                 \/ PlanText \/ FinishExecute \/ ExecuteVideos
            BY <1>2, <2>2 DEF Next, PlanningThread, Traverse, RejectEmptyBatch,
                ValidateAndRender, Preflight, Triage, FinishSalvage,
                BuildSidecar, Worker, StartDecode, FinishDecode, Finished, vars,
                Fail, MoveTo
        <3>5. CASE phase' \in
                  {"validate", "preflight", "traverse", "salvage", "text", "done"}
            BY <3>5 DEF StagesPassed
        <3> QED BY <3>1, <3>2, <3>3, <3>4, <3>5
    <2> QED BY <2>1, <2>2
<1> QED BY <1>1, <1>2

-------------------------------------------------------------------------------
(* Nothing is planned before the first request is looked at.                  *)
LEMMA InvHoldsInitially ==
    ASSUME Init
    PROVE  Inv
<1> USE DEF Init
<1>1. IsBatch(batch)
    BY PlanningAssumption
<1>2. Typed
    <2>1. result \in Results
        BY DEF Results, Pending, NoError, Error, Errors, Categories
    <2>2. \A r \in DOMAIN visuals : visuals[r] \in Seq(Visuals)
        OBVIOUS
    <2>3. /\ mediaErrors \in Seq(Errors) /\ imageLayouts \in Seq(Layouts)
          /\ videoLayouts \in Seq(Layouts) /\ requestLayouts \in Seq(Ranges)
        OBVIOUS
    <2> QED BY <2>1, <2>2, <2>3 DEF Typed, Phases
<1>3. PhasesHold
    <2>1. \A r \in DOMAIN batch.requests : ~(r < 1)
        BY <1>1, RequestsOfABatch
    <2> QED BY <2>1 DEF PhasesHold, Before, After, Pending
<1>4. ImagesInOrder /\ VideosInOrder /\ RangesHold
    <2>1. DOMAIN imageLayouts = {} /\ DOMAIN videoLayouts = {}
          /\ DOMAIN requestLayouts = {} /\ Len(imageLayouts) = 0
        OBVIOUS
    <2> QED BY <2>1 DEF ImagesInOrder, VideosInOrder, RangesHold, RowBefore
<1>5. /\ NothingIsMissed /\ FailuresInOrder /\ DecodingIsDue /\ StagesPassed
    BY DEF NothingIsMissed, FailuresInOrder, Traversing, Before, DecodingIsDue,
           StagesPassed
<1> QED BY <1>2, <1>3, <1>4, <1>5 DEF Inv

(* Each part of the invariant is preserved because of the others.             *)
LEMMA InvIsPreserved ==
    ASSUME Inv, [Next]_vars
    PROVE  Inv'
<1>1. CASE Next
    BY <1>1, TypedIsPreserved, PhasesArePreserved, ImagesStayInOrder,
       VideosStayInOrder, NothingIsMissedIsPreserved, FailuresStayInOrder,
       RangesArePreserved, DecodingStaysDue, StagesStayPassed DEF Inv
<1>2. CASE UNCHANGED vars
    <2> USE <1>2 DEF vars, traversalVars, Inv
    <2>1. Typed' /\ PhasesHold'
        BY DEF Typed, PhasesHold, Passed, Request
    <2>2. ImagesInOrder' /\ VideosInOrder' /\ RangesHold'
        BY DEF ImagesInOrder, VideosInOrder, RangesHold, RowBefore, InRange,
            GridStart, PixelStart
    <2>3. NothingIsMissed' /\ FailuresInOrder'
        BY DEF NothingIsMissed, FailuresInOrder, Traversing, Passed
    <2>4. DecodingIsDue' /\ StagesPassed'
        BY DEF DecodingIsDue, StagesPassed, PlanningFailures
    <2> QED BY <2>1, <2>2, <2>3, <2>4
<1> QED BY <1>1, <1>2

-------------------------------------------------------------------------------
(* The invariant is what its parts say, in every state a run reaches.         *)
LEMMA InvAlwaysHolds ==
    Spec => []Inv
<1>1. Init => Inv
    BY InvHoldsInitially
<1>2. Inv /\ [Next]_vars => Inv'
    BY InvIsPreserved
<1> QED BY <1>1, <1>2, PTL DEF Spec

(* Every variable stays in its type, and the layouts stand at occurrences of  *)
(* the batch.                                                                 *)
THEOREM TypesAreCorrect ==
    Spec => []TypeOK
<1>1. ASSUME Inv PROVE TypeOK
    <2> USE <1>1 DEF Inv
    <2>1. \A p \in Positions(batch) : ItemAt(batch, p) \in Items
        BY BatchIsABatch, ItemsOfABatch
    <2>2. ErrorsIn(mediaErrors) \subseteq Errors
        BY DEF ErrorsIn, Typed
    <2>3. /\ \A k \in DOMAIN imageLayouts : imageLayouts[k].at \in Positions(batch)
          /\ \A k \in DOMAIN videoLayouts : videoLayouts[k].at \in Positions(batch)
        BY DEF ImagesInOrder, VideosInOrder, OfKind
    <2>4. \A k \in DOMAIN decode : decode[k] \in {"waiting", "running", "decoded"}
        <3>1. CASE decode = <<>>
            <4>1. DOMAIN decode = {}
                BY <3>1
            <4> QED BY <4>1
        <3>2. CASE decode \in [DOMAIN imageLayouts -> DecodeStates]
            BY <3>2 DEF DecodeStates
        <3> QED BY <3>1, <3>2 DEF Typed
    <2>5. cursor \in Nat \X Nat
        BY DEF Typed
    <2> QED BY <2>1, <2>2, <2>3, <2>4, <2>5 DEF TypeOK, Typed
<1> QED BY <1>1, InvAlwaysHolds, PTL

(* Image rows tile the pixel output and the ranges of the requests partition  *)
(* it (plan_batch_internal, the layout and request_layouts pushes).           *)
THEOREM OutputIsTiled ==
    Spec => []LayoutsTileTheOutput
<1>1. ASSUME Inv PROVE LayoutsTileTheOutput
    BY <1>1 DEF Inv, ImagesInOrder, RangesHold, RowBefore, InRange,
        LayoutsTileTheOutput
<1> QED BY <1>1, InvAlwaysHolds, PTL

(* No pixel is decoded for a batch that a limit refuses (plan_batch).         *)
THEOREM LimitsComeFirst ==
    Spec => []LimitsPrecedeDecoding
<1>1. ASSUME Inv PROVE LimitsPrecedeDecoding
    <2>1. (\E k \in DOMAIN decode : decode[k] # "waiting") => decode # <<>>
        OBVIOUS
    <2> QED BY <1>1, <2>1 DEF Inv, DecodingIsDue, LimitsPrecedeDecoding,
            PlanningFailures
<1> QED BY <1>1, InvAlwaysHolds, PTL

-------------------------------------------------------------------------------
(* A failure found while decoding belongs to an image that planned cleanly,   *)
(* and no two of them to the same.                                            *)
LEMMA DecodeErrorsStandApart ==
    ASSUME Inv
    PROVE  /\ \A j \in DOMAIN DecodeErrors : \E p \in OfKind(batch, "image") :
                 /\ PlanningVerdict(ItemAt(batch, p)) = OkVerdict
                 /\ DecodeErrors[j].place = OccurrenceIndex(batch, p)
           /\ \A i, j \in DOMAIN DecodeErrors :
                 i < j => DecodeErrors[i].place < DecodeErrors[j].place
<1> DEFINE Failed == {k \in DOMAIN imageLayouts : BodyKnown(k) # OkVerdict}
           At(k) == imageLayouts[k].at
<1>0. Typed /\ ImagesInOrder
    BY DEF Inv
<1>1. PICK f : Lists(f, DecodeErrors, Outcomes, Failed, Len(imageLayouts))
    BY <1>0, DecodeErrorsAre
<1>2. DOMAIN DecodeErrors = 1..Len(DecodeErrors)
    <2>1. DecodeErrors \in Seq(Errors)
        BY <1>0, DecodeErrorsAre
    <2> QED BY <2>1
<1>3. ASSUME NEW j \in DOMAIN DecodeErrors
      PROVE  /\ f[j] \in DOMAIN imageLayouts
             /\ DecodeErrors[j].place = imageLayouts[f[j]].place
    <2>1. f[j] \in Failed /\ DecodeErrors[j] = Outcomes[f[j]]
        BY <1>1, <1>2 DEF Lists
    <2>2. Outcomes[f[j]] = Error(BodyKnown(f[j]), imageLayouts[f[j]].place)
        BY <1>0, <2>1, OutcomesAre
    <2> QED BY <2>1, <2>2 DEF Error
<1>4. \A k \in DOMAIN imageLayouts :
          /\ At(k) \in OfKind(batch, "image") /\ At(k) \in Positions(batch)
          /\ PlanningVerdict(ItemAt(batch, At(k))) = OkVerdict
          /\ imageLayouts[k].place = OccurrenceIndex(batch, At(k))
    BY <1>0 DEF ImagesInOrder, OfKind
<1>5. ASSUME NEW i \in DOMAIN DecodeErrors, NEW j \in DOMAIN DecodeErrors, i < j
      PROVE  DecodeErrors[i].place < DecodeErrors[j].place
    <2>1. f[i] < f[j]
        BY <1>1, <1>2, <1>5 DEF Lists
    <2>2. Precedes(At(f[i]), At(f[j]))
        BY <1>0, <1>3, <2>1 DEF ImagesInOrder
    <2> QED BY <1>0, <1>3, <1>4, <2>2, BatchIsABatch, OccurrenceIndexGrows
<1>6. \A j \in DOMAIN DecodeErrors :
          /\ At(f[j]) \in OfKind(batch, "image")
          /\ PlanningVerdict(ItemAt(batch, At(f[j]))) = OkVerdict
          /\ DecodeErrors[j].place = OccurrenceIndex(batch, At(f[j]))
    BY <1>3, <1>4
<1> QED BY <1>5, <1>6

(* The failures of planning and of the salvage decode are of different        *)
(* occurrences.                                                               *)
LEMMA SalvageKeepsPlacesDistinct ==
    ASSUME Inv, FinishSalvage
    PROVE  CollectedErrorsHaveDistinctPlaces'
<1> DEFINE M == mediaErrors
           D == DecodeErrors
<1>0. /\ Typed /\ phase = "salvage" /\ phase \in After
      /\ mediaErrors' = M \o D /\ M \in Seq(Errors) /\ D \in Seq(Errors)
    BY DecodeErrorsAre DEF FinishSalvage, Inv, Typed, After
<1>1. /\ \A j, k \in DOMAIN M : j < k => M[j].place < M[k].place
      /\ \A j, k \in DOMAIN D : j < k => D[j].place < D[k].place
    BY <1>0, DecodeErrorsStandApart DEF Inv, FailuresInOrder, Traversing, Before
<1>2. ASSUME NEW j \in DOMAIN M, NEW k \in DOMAIN D PROVE M[j].place # D[k].place
    <2>1. M[j] \in PlanningFailures
        BY <1>0, AllFailuresAreCollected DEF ErrorsIn
    <2>2. PICK p \in Positions(batch) :
              /\ PlanningVerdict(ItemAt(batch, p)) # OkVerdict
              /\ M[j].place = OccurrenceIndex(batch, p)
        BY <2>1 DEF PlanningFailures, ErrorsAt, Error
    <2>3. PICK q \in OfKind(batch, "image") :
              /\ PlanningVerdict(ItemAt(batch, q)) = OkVerdict
              /\ D[k].place = OccurrenceIndex(batch, q)
        BY DecodeErrorsStandApart
    <2>4. q \in Positions(batch) /\ p # q
        BY <2>2, <2>3 DEF OfKind
    <2> QED BY <1>0, <2>2, <2>3, <2>4, BatchIsABatch, OccurrenceIndexesDiffer
<1>3. /\ \A j \in DOMAIN M : M[j].place \in Nat /\ j \in Nat
      /\ \A j \in DOMAIN D : D[j].place \in Nat /\ j \in Nat
    <2>1. /\ \A j \in DOMAIN M : M[j] \in Errors /\ j \in Nat
          /\ \A j \in DOMAIN D : D[j] \in Errors /\ j \in Nat
        BY <1>0
    <2> QED BY <2>1 DEF Errors
<1>4. PICK m \in Nat, n \in Nat :
          /\ DOMAIN M = 1..m /\ DOMAIN D = 1..n /\ DOMAIN (M \o D) = 1..(m + n)
          /\ \A k \in 1..m : (M \o D)[k] = M[k]
          /\ \A k \in 1..(m + n) : k > m => (M \o D)[k] = D[k - m]
    <2>1. Len(M) \in Nat /\ Len(D) \in Nat
        BY <1>0
    <2> QED BY <1>0, <2>1
<1> HIDE DEF M, D
<1>5. ASSUME NEW j \in 1..(m + n), NEW k \in 1..(m + n), j < k
      PROVE  (M \o D)[j].place # (M \o D)[k].place
    <2>1. CASE k <= m
        <3>1. j \in DOMAIN M /\ k \in DOMAIN M
            BY <1>4, <1>5, <2>1
        <3> QED BY <1>1, <1>3, <1>4, <1>5, <3>1
    <2>2. CASE j <= m /\ k > m
        <3>1. j \in DOMAIN M /\ k - m \in DOMAIN D
            BY <1>4, <2>2
        <3> QED BY <1>2, <1>4, <2>2, <3>1
    <2>3. CASE j > m
        <3>1. j - m \in DOMAIN D /\ k - m \in DOMAIN D /\ j - m < k - m /\ k > m
            BY <1>4, <1>5, <2>3
        <3>2. (M \o D)[j] = D[j - m] /\ (M \o D)[k] = D[k - m]
            BY <1>4, <2>3, <3>1
        <3>3. D[j - m].place < D[k - m].place
            BY <1>1, <3>1
        <3>4. D[j - m].place \in Nat /\ D[k - m].place \in Nat
            BY <1>3, <3>1
        <3> QED BY <3>2, <3>3, <3>4
    <2> QED BY <1>4, <1>5, <2>1, <2>2, <2>3
<1>6. \A j, k \in 1..(m + n) : j = k \/ j < k \/ k < j
    OBVIOUS
<1>7. mediaErrors' = M \o D
    BY <1>0 DEF M, D
<1>8. SUFFICES ASSUME NEW j \in DOMAIN mediaErrors', NEW k \in DOMAIN mediaErrors',
                      mediaErrors'[j].place = mediaErrors'[k].place
               PROVE  j = k
    BY DEF CollectedErrorsHaveDistinctPlaces
<1>9. j \in 1..(m + n) /\ k \in 1..(m + n)
    BY <1>4, <1>7
<1>10. (M \o D)[j].place = (M \o D)[k].place
    BY <1>7, <1>8
<1> QED BY <1>5, <1>6, <1>9, <1>10

(* A key (precedence, occurrence) occurs once among the collected failures,   *)
(* so select_preferred_error does not depend on their order.                  *)
THEOREM PlacesAreDistinct ==
    Spec => []CollectedErrorsHaveDistinctPlaces
<1>1. Init => CollectedErrorsHaveDistinctPlaces
    BY DEF Init, CollectedErrorsHaveDistinctPlaces
<1>2. ASSUME Inv, Inv', CollectedErrorsHaveDistinctPlaces, [Next]_vars
      PROVE  CollectedErrorsHaveDistinctPlaces'
    <2>1. CASE mediaErrors' = mediaErrors
        BY <1>2, <2>1 DEF CollectedErrorsHaveDistinctPlaces
    <2>2. CASE FinishSalvage
        BY <1>2, <2>2, SalvageKeepsPlacesDistinct
    <2>3. CASE Traversing'
        <3>1. /\ mediaErrors' \in Seq(Errors)
              /\ \A j, k \in DOMAIN mediaErrors' :
                    j < k => mediaErrors'[j].place < mediaErrors'[k].place
            BY <1>2, <2>3 DEF Inv, Typed, FailuresInOrder
        <3>2. \A j \in DOMAIN mediaErrors' : j \in Nat /\ mediaErrors'[j] \in Errors
            BY <3>1
        <3>3. \A j \in DOMAIN mediaErrors' : mediaErrors'[j].place \in Nat
            BY <3>2 DEF Errors
        <3>4. \A j, k \in DOMAIN mediaErrors' : j = k \/ j < k \/ k < j
            BY <3>2
        <3> QED BY <3>1, <3>3, <3>4 DEF CollectedErrorsHaveDistinctPlaces
    <2>4. CASE Next /\ Traverse
        <3>1. Traversing'
            BY <2>4 DEF Traverse, SkipText, ImageFails, VideoFails, KeepMediaError,
                PlanImage, PlanVideo, CloseRequest, OnMedia, MoveTo, Traversing,
                Before
        <3> QED BY <2>3, <3>1
    <2>5. CASE Next /\ ~Traverse
        BY <2>1, <2>2, <2>5, StepsAfterTraversal
    <2>6. CASE UNCHANGED vars
        BY <2>1, <2>6 DEF vars
    <2> QED BY <1>2, <2>4, <2>5, <2>6
<1> QED BY <1>1, <1>2, InvAlwaysHolds, PTL DEF Spec

-------------------------------------------------------------------------------
(* The images among the visuals of a request.                                 *)
Images(r) == {k \in DOMAIN visuals[r] : visuals[r][k][1] = "image"}

(* The grid ranges follow each other, each as long as its request has images. *)
PromptsHoldTheImages ==
    /\ \A r \in DOMAIN requestLayouts :
          /\ requestLayouts[r].gridStart
                 = IF r = 1 THEN 0 ELSE requestLayouts[r - 1].gridEnd
          /\ requestLayouts[r].gridEnd
                 = requestLayouts[r].gridStart + Cardinality(Images(r))
          /\ \A k \in DOMAIN imageLayouts :
                requestLayouts[r].gridStart < k /\ k <= requestLayouts[r].gridEnd
                    => imageLayouts[k].at[1] = r
    /\ phase \in Before => \A r \in DOMAIN visuals : visuals[r] = <<>>
    /\ phase = "traverse" =>
          /\ Len(imageLayouts) = GridStart + Cardinality(Images(cursor[1]))
          /\ \A r \in DOMAIN visuals : r > cursor[1] => visuals[r] = <<>>
    /\ phase \in After => GridStart = Len(imageLayouts)

(* A request has finitely many images, and none before it has visuals.        *)
LEMMA ImagesAreFinite ==
    ASSUME Typed, NEW r \in DOMAIN visuals
    PROVE  /\ IsFiniteSet(Images(r)) /\ Cardinality(Images(r)) \in Nat
           /\ visuals[r] = <<>> => Cardinality(Images(r)) = 0
<1>1. visuals[r] \in Seq(Visuals)
    BY DEF Typed
<1>2. Images(r) \in SUBSET (1..Len(visuals[r])) /\ Len(visuals[r]) \in Nat
    BY <1>1 DEF Images
<1>3. IsFiniteSet(1..Len(visuals[r]))
    BY <1>2, FS_Interval
<1>4. visuals[r] = <<>> => Images(r) = {}
    BY DEF Images
<1> QED BY <1>2, <1>3, <1>4, FS_Subset, FS_CardinalityType, FS_EmptySet

(* A visual is noted in the prompt of the request at hand, and no other.      *)
LEMMA VisualIsNoted ==
    ASSUME Typed, NEW kind \in {"image", "video"}, NEW n, cursor[1] \in DOMAIN visuals,
           visuals' = [visuals EXCEPT ![cursor[1]] = Append(@, <<kind, n>>)]
    PROVE  /\ \A r \in DOMAIN visuals : r # cursor[1] => visuals'[r] = visuals[r]
           /\ \A r \in DOMAIN visuals : r # cursor[1] => Images(r)' = Images(r)
           /\ DOMAIN visuals' = DOMAIN visuals
           /\ Cardinality({k \in DOMAIN visuals'[cursor[1]] :
                               visuals'[cursor[1]][k][1] = "image"})
                  = Cardinality(Images(cursor[1]))
                    + (IF kind = "image" THEN 1 ELSE 0)
<1> DEFINE v == visuals[cursor[1]]
           L == Len(v)
           new == {k \in DOMAIN visuals'[cursor[1]] :
                      visuals'[cursor[1]][k][1] = "image"}
<1>1. v \in Seq(Visuals)
    BY DEF Typed
<1>2. /\ visuals'[cursor[1]] = Append(v, <<kind, n>>)
      /\ \A r \in DOMAIN visuals : r # cursor[1] => visuals'[r] = visuals[r]
      /\ DOMAIN visuals' = DOMAIN visuals
    OBVIOUS
<1>3. /\ L \in Nat /\ DOMAIN v = 1..L /\ DOMAIN Append(v, <<kind, n>>) = 1..(L + 1)
      /\ \A k \in 1..L : Append(v, <<kind, n>>)[k] = v[k]
      /\ Append(v, <<kind, n>>)[L + 1] = <<kind, n>>
    BY <1>1
<1>4. \A r \in DOMAIN visuals : r # cursor[1] => Images(r)' = Images(r)
    BY <1>2 DEF Images
<1>5. /\ \A k \in new : (k \in Images(cursor[1])) \/ (k = L + 1 /\ kind = "image")
      /\ \A k \in Images(cursor[1]) : k \in new /\ k # L + 1
      /\ kind = "image" => L + 1 \in new
      /\ kind # "image" => L + 1 \notin new
    <2> HIDE DEF v, L
    <2>1. Images(cursor[1]) = {k \in 1..L : v[k][1] = "image"}
        BY <1>3 DEF Images, v
    <2>2. new = {k \in 1..(L + 1) : Append(v, <<kind, n>>)[k][1] = "image"}
        BY <1>2, <1>3
    <2>3. \A k \in 1..(L + 1) : k \in 1..L \/ k = L + 1
        BY <1>3
    <2>4. \A k \in 1..L : k \in 1..(L + 1) /\ k # L + 1
        BY <1>3
    <2>5. L + 1 \in 1..(L + 1) /\ <<kind, n>>[1] = kind
        BY <1>3
    <2> HIDE DEF new
    <2> QED BY <1>3, <2>1, <2>2, <2>3, <2>4, <2>5
<1> HIDE DEF new, L
<1>6. CASE kind = "image"
    <2>1. new = Images(cursor[1]) \cup {L + 1} /\ L + 1 \notin Images(cursor[1])
        BY <1>5, <1>6
    <2>2. Cardinality(new) = Cardinality(Images(cursor[1])) + 1
        BY <2>1, ImagesAreFinite, FS_AddElement
    <2> QED BY <1>2, <1>4, <1>6, <2>2 DEF new
<1>7. CASE kind = "video"
    <2>1. new = Images(cursor[1])
        BY <1>5, <1>7
    <2>2. Cardinality(new) = Cardinality(Images(cursor[1])) + 0
        BY <2>1, ImagesAreFinite
    <2> QED BY <1>2, <1>4, <1>7, <2>2 DEF new
<1> QED BY <1>6, <1>7

(* A step keeps the grid ranges as long as the prompts.                       *)
LEMMA PromptsArePreserved ==
    ASSUME Inv, PromptsHoldTheImages, Next
    PROVE  PromptsHoldTheImages'
<1> USE DEF Inv
<1>0. /\ Typed /\ batch' = batch /\ Len(imageLayouts) \in Nat
      /\ DOMAIN imageLayouts = 1..Len(imageLayouts)
      /\ Len(requestLayouts) \in Nat /\ cursor[1] \in Nat \ {0}
      /\ DOMAIN requestLayouts = 1..Len(requestLayouts)
      /\ DOMAIN visuals = DOMAIN batch.requests
      /\ DOMAIN batch.requests = 1..Len(batch.requests) /\ Len(batch.requests) \in Nat
    BY BatchIsNeverWritten, BatchIsABatch, RequestsOfABatch DEF Typed
<1>1. CASE PlanImage \/ PlanVideo
    <2>1. PICK kind \in {"image", "video"}, n \in Nat :
              /\ OnMedia(kind)
              /\ visuals' = [visuals EXCEPT ![cursor[1]] = Append(@, <<kind, n>>)]
              /\ kind = "image" =>
                    /\ Len(imageLayouts') = Len(imageLayouts) + 1
                    /\ DOMAIN imageLayouts' = 1..(Len(imageLayouts) + 1)
                    /\ \A k \in 1..Len(imageLayouts) :
                          imageLayouts'[k] = imageLayouts[k]
              /\ kind = "video" => imageLayouts' = imageLayouts
        <3>1. CASE PlanImage
            <4>1. /\ imageLayouts' = Append(imageLayouts, ImageLayout)
                  /\ OnMedia("image")
                  /\ visuals' = [visuals EXCEPT ![cursor[1]] =
                                    Append(@, <<"image", Len(imageLayouts)>>)]
                BY <3>1 DEF PlanImage
            <4>2. /\ Len(imageLayouts') = Len(imageLayouts) + 1
                  /\ DOMAIN imageLayouts' = 1..(Len(imageLayouts) + 1)
                  /\ \A k \in 1..Len(imageLayouts) :
                        imageLayouts'[k] = imageLayouts[k]
                BY <4>1 DEF Typed
            <4> QED BY <1>0, <4>1, <4>2
        <3>2. CASE PlanVideo
            <4>1. /\ imageLayouts' = imageLayouts /\ OnMedia("video")
                  /\ visuals' = [visuals EXCEPT ![cursor[1]] =
                                    Append(@, <<"video", Len(videoLayouts)>>)]
                BY <3>2 DEF PlanVideo
            <4>2. Len(videoLayouts) \in Nat
                BY DEF Typed
            <4> QED BY <4>1, <4>2
        <3> QED BY <1>1, <3>1, <3>2
    <2>2. /\ phase = "traverse" /\ phase' = "traverse" /\ cursor'[1] = cursor[1]
          /\ requestLayouts' = requestLayouts
        BY <1>1 DEF PlanImage, PlanVideo, OnMedia, AdvanceItem
    <2>3. cursor[1] = Len(requestLayouts) + 1 /\ cursor[1] \in DOMAIN visuals
        BY <1>0, <2>2 DEF PhasesHold
    <2>4. /\ \A r \in DOMAIN visuals : r # cursor[1] => visuals'[r] = visuals[r]
          /\ \A r \in DOMAIN visuals : r # cursor[1] => Images(r)' = Images(r)
          /\ DOMAIN visuals' = DOMAIN visuals
        BY <2>1, <2>3, VisualIsNoted
    <2>5. Cardinality(Images(cursor[1]))'
              = Cardinality(Images(cursor[1])) + (IF kind = "image" THEN 1 ELSE 0)
        BY <2>1, <2>2, <2>3, VisualIsNoted DEF Images
    <2>6. Len(imageLayouts') = Len(imageLayouts) + (IF kind = "image" THEN 1 ELSE 0)
        BY <1>0, <2>1
    <2>7. GridStart' = GridStart /\ GridStart \in Nat
        BY <2>2, StartsAreNumbers DEF GridStart
    <2>8. Len(imageLayouts') = GridStart' + Cardinality(Images(cursor[1]))'
        <3>1. Len(imageLayouts) = GridStart + Cardinality(Images(cursor[1]))
            BY <2>2 DEF PromptsHoldTheImages
        <3>2. Cardinality(Images(cursor[1])) \in Nat
            BY <2>3, ImagesAreFinite
        <3> QED BY <2>5, <2>6, <2>7, <3>1, <3>2
    <2>9. ASSUME NEW r \in DOMAIN requestLayouts
          PROVE  /\ requestLayouts'[r].gridEnd
                        = requestLayouts'[r].gridStart + Cardinality(Images(r))'
                 /\ \A k \in DOMAIN imageLayouts' :
                        requestLayouts'[r].gridStart < k
                        /\ k <= requestLayouts'[r].gridEnd
                            => imageLayouts'[k].at[1] = r
        <3>1. r # cursor[1] /\ r \in DOMAIN visuals
            BY <1>0, <2>3
        <3>2. Images(r)' = Images(r)
            BY <2>4, <3>1
        <3>3. requestLayouts[r] \in Ranges /\ requestLayouts[r].gridEnd \in Nat
            <4>1. requestLayouts[r] \in Ranges
                BY DEF Typed
            <4> QED BY <4>1 DEF Ranges
        <3>4. requestLayouts[r].gridEnd <= Len(imageLayouts)
            BY DEF RangesHold
        <3>5. ASSUME NEW k \in DOMAIN imageLayouts', k <= requestLayouts[r].gridEnd
              PROVE  k \in DOMAIN imageLayouts /\ imageLayouts'[k] = imageLayouts[k]
            <4>1. CASE kind = "image"
                BY <1>0, <2>1, <3>3, <3>4, <3>5, <4>1
            <4>2. CASE kind = "video"
                BY <2>1, <3>5, <4>2
            <4> QED BY <4>1, <4>2
        <3> QED BY <2>2, <3>2, <3>5 DEF PromptsHoldTheImages
    <2>10. \A r \in DOMAIN visuals' : r > cursor'[1] => visuals'[r] = <<>>
        <3>1. \A r \in DOMAIN visuals : r > cursor[1] =>
                  r # cursor[1] /\ visuals[r] = <<>>
            BY <1>0, <2>2 DEF PromptsHoldTheImages
        <3> QED BY <2>2, <2>4, <3>1
    <2>11. \A r \in DOMAIN requestLayouts' :
              requestLayouts'[r].gridStart
                 = IF r = 1 THEN 0 ELSE requestLayouts'[r - 1].gridEnd
        BY <2>2 DEF PromptsHoldTheImages
    <2> QED BY <2>2, <2>8, <2>9, <2>10, <2>11 DEF PromptsHoldTheImages, Before, After
<1>2. CASE SkipText \/ ImageFails \/ VideoFails
    <2>1. /\ phase = "traverse" /\ phase' = "traverse" /\ cursor'[1] = cursor[1]
          /\ UNCHANGED <<visuals, imageLayouts, requestLayouts>>
        BY <1>2 DEF SkipText, ImageFails, VideoFails, KeepMediaError, OnMedia,
            AdvanceItem
    <2>2. GridStart' = GridStart /\ \A r : Images(r)' = Images(r)
        BY <2>1 DEF GridStart, Images
    <2>3. Images(cursor[1])' = Images(cursor[1])
        BY <2>1 DEF Images
    <2> QED BY <2>1, <2>2, <2>3 DEF PromptsHoldTheImages, Before, After
<1>3. CASE CloseRequest
    <2>1. PICK m \in Nat : m = Len(requestLayouts)
        BY <1>0
    <2> DEFINE new == [gridStart |-> GridStart, gridEnd |-> Len(imageLayouts),
                       pixelStart |-> PixelStart, pixelEnd |-> nextPixelRow]
    <2>2. /\ phase = "traverse" /\ UNCHANGED <<imageLayouts, visuals>>
          /\ requestLayouts' = Append(requestLayouts, new)
          /\ \/ phase' = "traverse" /\ cursor' = <<cursor[1] + 1, 1>>
                                    /\ cursor[1] < Len(batch.requests)
             \/ phase' = "triage"
          /\ cursor[1] = m + 1
        BY <1>3, <2>1 DEF CloseRequest, MoveTo, PhasesHold
    <2>3. new.gridStart = GridStart /\ new.gridEnd = Len(imageLayouts)
        OBVIOUS
    <2> HIDE DEF new
    <2>4. /\ DOMAIN requestLayouts = 1..m /\ DOMAIN requestLayouts' = 1..(m + 1)
          /\ \A r \in 1..m : requestLayouts'[r] = requestLayouts[r]
          /\ requestLayouts'[m + 1] = new /\ Len(requestLayouts') = m + 1
          /\ requestLayouts' # <<>>
        <3>1. requestLayouts \in Seq(Ranges)
            BY DEF Typed
        <3>2. /\ DOMAIN Append(requestLayouts, new) = 1..(m + 1)
              /\ \A r \in 1..m : Append(requestLayouts, new)[r] = requestLayouts[r]
              /\ Append(requestLayouts, new)[m + 1] = new
              /\ Len(Append(requestLayouts, new)) = m + 1
            BY <2>1, <3>1
        <3>3. m + 1 # 0
            BY <2>1
        <3> QED BY <1>0, <2>1, <2>2, <3>2, <3>3
    <2>5. /\ Len(imageLayouts) = GridStart + Cardinality(Images(cursor[1]))
          /\ \A r \in DOMAIN visuals : r > cursor[1] => visuals[r] = <<>>
          /\ \A k \in DOMAIN imageLayouts :
                k > GridStart => imageLayouts[k].at[1] = cursor[1]
        BY <2>2 DEF PromptsHoldTheImages, RangesHold
    <2>6. \A r : Images(r)' = Images(r)
        BY <2>2 DEF Images
    <2>7. GridStart = IF m + 1 = 1 THEN 0 ELSE requestLayouts[m].gridEnd
        BY <1>0, <2>1 DEF GridStart
    <2>8. GridStart' = Len(imageLayouts)
        BY <2>3, <2>4 DEF GridStart
    <2>9. ASSUME NEW r \in 1..(m + 1)
          PROVE  /\ requestLayouts'[r].gridStart
                       = IF r = 1 THEN 0 ELSE requestLayouts'[r - 1].gridEnd
                 /\ requestLayouts'[r].gridEnd
                       = requestLayouts'[r].gridStart + Cardinality(Images(r))'
                 /\ \A k \in DOMAIN imageLayouts :
                       requestLayouts'[r].gridStart < k
                       /\ k <= requestLayouts'[r].gridEnd
                           => imageLayouts[k].at[1] = r
        <3>1. CASE r \in 1..m
            <4>1. requestLayouts'[r] = requestLayouts[r]
                BY <2>4, <3>1
            <4>2. r # 1 => requestLayouts'[r - 1] = requestLayouts[r - 1]
                BY <2>4, <3>1
            <4> QED BY <2>4, <2>6, <3>1, <4>1, <4>2 DEF PromptsHoldTheImages
        <3>2. CASE r = m + 1
            <4>1. requestLayouts'[r] = new
                BY <2>4, <3>2
            <4>2. r # 1 => m \in 1..m /\ r - 1 = m
                BY <2>1, <3>2
            <4>3. r # 1 => requestLayouts'[r - 1] = requestLayouts[m]
                BY <2>4, <4>2
            <4> QED BY <2>2, <2>3, <2>5, <2>6, <2>7, <3>2, <4>1, <4>3
        <3> QED BY <3>1, <3>2
    <2>10. phase' = "traverse" =>
              /\ Len(imageLayouts') = GridStart' + Cardinality(Images(cursor[1]))'
              /\ \A r \in DOMAIN visuals' : r > cursor'[1] => visuals'[r] = <<>>
        <3> SUFFICES ASSUME phase' = "traverse"
                     PROVE  /\ Len(imageLayouts') =
                                   GridStart' + Cardinality(Images(cursor[1]))'
                            /\ \A r \in DOMAIN visuals' :
                                   r > cursor'[1] => visuals'[r] = <<>>
            OBVIOUS
        <3>1. /\ cursor'[1] = cursor[1] + 1 /\ cursor'[1] \in DOMAIN visuals
              /\ cursor'[1] > cursor[1]
            BY <1>0, <2>2
        <3>2. visuals[cursor'[1]] = <<>>
            BY <2>5, <3>1
        <3>3. Cardinality(Images(cursor'[1])) = 0
            BY <3>1, <3>2, ImagesAreFinite
        <3>4. Images(cursor[1])' = Images(cursor'[1])
            BY <2>2 DEF Images
        <3>5. Cardinality(Images(cursor[1]))' = 0
            BY <3>3, <3>4
        <3>6. \A r \in DOMAIN visuals : r > cursor'[1] => r > cursor[1]
            BY <1>0, <3>1
        <3>7. \A r \in DOMAIN visuals' : r > cursor'[1] => visuals'[r] = <<>>
            BY <2>2, <2>5, <3>6
        <3> QED BY <1>0, <2>2, <2>8, <3>5, <3>7
    <2> QED BY <2>2, <2>4, <2>8, <2>9, <2>10 DEF PromptsHoldTheImages, Before, After
<1>4. CASE ~Traverse
    <2>1. UNCHANGED <<imageLayouts, requestLayouts, visuals>>
        BY <1>4, StepsAfterTraversal
    <2>2. /\ phase' \in Before => phase \in Before
          /\ phase' = "traverse" => Preflight
          /\ phase' \in After => phase \in After
        BY <1>4 DEF Next, PlanningThread, Traverse, RejectEmptyBatch,
            ValidateAndRender, Preflight, Triage, PlanText, FinishSalvage,
            FinishExecute, ExecuteVideos, BuildSidecar, Worker, StartDecode,
            FinishDecode, Decoding, Finished, vars, Before, After, Fail, MoveTo
    <2>3. \A r : Images(r)' = Images(r)
        BY <2>1 DEF Images
    <2>4. CASE phase' = "traverse"
        <3>1. /\ phase = "preflight" /\ cursor' = cursor /\ cursor[1] = 1
              /\ imageLayouts = <<>> /\ requestLayouts = <<>>
            BY <2>2, <2>4 DEF Preflight, PhasesHold, Before, traversalVars
        <3>2. \A r \in DOMAIN visuals : visuals[r] = <<>>
            BY <3>1 DEF PromptsHoldTheImages, Before
        <3>3. 1 \in DOMAIN visuals
            BY <1>0, <3>1 DEF PhasesHold
        <3>4. Images(cursor[1])' = Images(1)
            BY <2>1, <3>1 DEF Images
        <3>5. Cardinality(Images(1)) = 0
            BY <3>2, <3>3, ImagesAreFinite
        <3>6. GridStart' = 0 /\ Len(imageLayouts') = 0 /\ DOMAIN requestLayouts' = {}
            BY <2>1, <3>1 DEF GridStart
        <3>7. Len(imageLayouts') = GridStart' + Cardinality(Images(cursor[1]))'
            BY <3>4, <3>5, <3>6
        <3>8. \A r \in DOMAIN visuals' : visuals'[r] = <<>>
            BY <2>1, <3>2
        <3> QED BY <2>4, <3>6, <3>7, <3>8 DEF PromptsHoldTheImages, Before, After
    <2>5. CASE phase' # "traverse"
        <3>1. GridStart' = GridStart
            BY <2>1 DEF GridStart
        <3> QED BY <2>1, <2>2, <2>3, <2>5, <3>1 DEF PromptsHoldTheImages
    <2> QED BY <2>4, <2>5
<1> QED BY <1>1, <1>2, <1>3, <1>4 DEF Traverse

(* The walk of ReplacementRequests over the requests of the batch.            *)
PromptWalk(upTo) ==
    upTo = [r \in 0..Len(batch.requests) |->
               IF r = 0 THEN <<>>
               ELSE upTo[r - 1] \o [k \in 1..Cardinality(Images(r)) |-> r]]

(* When every request is closed, the replacements of the prompts are those of *)
(* the image layouts, in order: the k-th is the request of the k-th image.    *)
LEMMA ReplacementsAreTheImages ==
    ASSUME Inv, PromptsHoldTheImages, phase \in After
    PROVE  ReplacementRequests = [k \in DOMAIN imageLayouts |-> imageLayouts[k].at[1]]
<1> DEFINE R == Len(batch.requests)
           Rows(r) == IF r = 0 THEN 0 ELSE requestLayouts[r].gridEnd
           g == [r \in 0..R |-> [k \in 1..Rows(r) |-> imageLayouts[k].at[1]]]
<1>0. /\ R \in Nat \ {0} /\ DOMAIN visuals = 1..R /\ DOMAIN requestLayouts = 1..R
      /\ DOMAIN imageLayouts = 1..Len(imageLayouts) /\ Len(imageLayouts) \in Nat
      /\ Len(requestLayouts) = R /\ requestLayouts # <<>>
    <2>1. /\ batch.requests # <<>> /\ Len(requestLayouts) = R
        BY DEF Inv, PhasesHold, After
    <2>2. R \in Nat /\ DOMAIN batch.requests = 1..R /\ batch.requests \in Seq(Requests)
        BY BatchIsABatch, RequestsOfABatch DEF Inv
    <2>3. R # 0
        BY <2>1, <2>2
    <2>4. requestLayouts # <<>>
        BY <2>1, <2>3
    <2> QED BY <2>1, <2>2, <2>3, <2>4 DEF Inv, Typed
<1>1. ASSUME NEW r \in 1..R
      PROVE  /\ requestLayouts[r].gridStart = Rows(r - 1)
             /\ Rows(r) = Rows(r - 1) + Cardinality(Images(r))
             /\ Rows(r) \in Nat /\ Rows(r) <= Len(imageLayouts)
             /\ Rows(r - 1) \in Nat /\ Cardinality(Images(r)) \in Nat
             /\ \A k \in 1..Len(imageLayouts) :
                   Rows(r - 1) < k /\ k <= Rows(r) => imageLayouts[k].at[1] = r
    <2>1. requestLayouts[r] \in Ranges /\ r # 0 /\ (r - 1 = 0 <=> r = 1)
        BY <1>0 DEF Inv, Typed
    <2>2. /\ requestLayouts[r].gridStart = Rows(r - 1)
          /\ requestLayouts[r].gridEnd
                 = requestLayouts[r].gridStart + Cardinality(Images(r))
          /\ \A k \in DOMAIN imageLayouts :
                requestLayouts[r].gridStart < k /\ k <= requestLayouts[r].gridEnd
                    => imageLayouts[k].at[1] = r
        BY <1>0, <2>1 DEF PromptsHoldTheImages
    <2>3. requestLayouts[r].gridEnd <= Len(imageLayouts)
        BY <1>0 DEF Inv, RangesHold
    <2>4. /\ requestLayouts[r].gridEnd \in Nat /\ requestLayouts[r].gridStart \in Nat
        BY <2>1 DEF Ranges
    <2>5. Cardinality(Images(r)) \in Nat
        BY <1>0, ImagesAreFinite DEF Inv
    <2>6. Rows(r) = requestLayouts[r].gridEnd
        BY <2>1
    <2> QED BY <1>0, <2>2, <2>3, <2>4, <2>5, <2>6
<1> HIDE DEF Rows, R
<1>2. ASSUME NEW r \in 1..R
      PROVE  [k \in 1..Rows(r) |-> imageLayouts[k].at[1]] =
                 [k \in 1..Rows(r - 1) |-> imageLayouts[k].at[1]]
                     \o [k \in 1..Cardinality(Images(r)) |-> r]
    <2>1. PICK M \in Nat, N \in Nat :
              /\ M = Rows(r - 1) /\ N = Cardinality(Images(r))
              /\ Rows(r) = M + N /\ M + N <= Len(imageLayouts)
        BY <1>1
    <2> DEFINE a == [k \in 1..M |-> imageLayouts[k].at[1]]
               b == [k \in 1..N |-> r]
               c == [k \in 1..(M + N) |-> imageLayouts[k].at[1]]
    <2>2. \A k \in 1..Len(imageLayouts) : imageLayouts[k].at[1] \in Nat
        <3>1. \A k \in 1..Len(imageLayouts) : imageLayouts[k] \in Layouts
            BY <1>0 DEF Inv, Typed
        <3> QED BY <3>1 DEF Layouts
    <2>3. /\ \A k \in 1..M : k \in 1..Len(imageLayouts)
          /\ \A k \in 1..(M + N) : k \in 1..Len(imageLayouts)
        BY <1>0, <2>1
    <2>4. a \in [1..M -> Nat] /\ b \in [1..N -> Nat] /\ c \in [1..(M + N) -> Nat]
        BY <2>2, <2>3
    <2>5. \A k \in 1..M : a[k] = imageLayouts[k].at[1]
        OBVIOUS
    <2>6. \A k \in 1..N : b[k] = r
        OBVIOUS
    <2>7. \A k \in 1..(M + N) : c[k] = imageLayouts[k].at[1]
        OBVIOUS
    <2> HIDE DEF a, b, c
    <2>8. /\ a \in Seq(Nat) /\ b \in Seq(Nat) /\ c \in Seq(Nat)
          /\ Len(a) = M /\ Len(b) = N /\ Len(c) = M + N
        <3>1. a \in Seq(Nat) /\ Len(a) = M
            BY <2>1, <2>4, LengthOfAFunction
        <3>2. b \in Seq(Nat) /\ Len(b) = N
            BY <2>1, <2>4, LengthOfAFunction
        <3>3. M + N \in Nat
            BY <2>1
        <3>4. c \in Seq(Nat) /\ Len(c) = M + N
            BY <2>4, <3>3, LengthOfAFunction
        <3> QED BY <3>1, <3>2, <3>4
    <2>9. /\ a \o b \in Seq(Nat) /\ Len(a \o b) = M + N
          /\ \A k \in 1..(M + N) :
                (a \o b)[k] = IF k <= M THEN a[k] ELSE b[k - M]
        BY <2>8, ConcatProperties
    <2>10. ASSUME NEW k \in 1..(M + N) PROVE c[k] = (a \o b)[k]
        <3>1. CASE k <= M
            <4>1. k \in 1..M
                BY <2>1, <3>1
            <4> QED BY <2>5, <2>7, <2>9, <3>1, <4>1
        <3>2. CASE ~(k <= M)
            <4>1. k - M \in 1..N /\ k \in 1..Len(imageLayouts) /\ M < k /\ k <= Rows(r)
                BY <1>0, <2>1, <3>2
            <4>2. imageLayouts[k].at[1] = r
                BY <1>1, <2>1, <4>1
            <4> QED BY <2>6, <2>7, <2>9, <3>2, <4>1, <4>2
        <3> QED BY <3>1, <3>2
    <2>11. c = a \o b
        BY <2>8, <2>9, <2>10, SeqEqual
    <2> QED BY <2>1, <2>11 DEF a, b, c
<1>3. PromptWalk(g)
    <2>1. R = Len(batch.requests)
        BY DEF R
    <2>2. ASSUME NEW r \in 0..R
          PROVE  g[r] = IF r = 0 THEN <<>>
                        ELSE g[r - 1] \o [k \in 1..Cardinality(Images(r)) |-> r]
        <3>1. CASE r = 0
            <4>1. Rows(0) = 0
                BY DEF Rows
            <4> QED BY <3>1, <4>1
        <3>2. CASE r # 0
            <4>1. r \in 1..R /\ r - 1 \in 0..R
                BY <1>0, <3>2
            <4> QED BY <1>2, <3>2, <4>1
        <3> QED BY <3>1, <3>2
    <2>3. g = [r \in 0..R |-> g[r]]
        OBVIOUS
    <2> HIDE DEF g
    <2> QED BY <2>1, <2>2, <2>3 DEF PromptWalk
<1>4. PICK f : PromptWalk(f) /\ ReplacementRequests = f[R]
    <2>1. ReplacementRequests = (CHOOSE f : PromptWalk(f))[R]
        BY Zenon DEF ReplacementRequests, PromptWalk, Images, R
    <2> QED BY <1>3, <2>1
<1> DEFINE Same == {r \in Nat : r <= R => f[r] = g[r]}
<1>5. Nat \subseteq Same
    <2>0. R = Len(batch.requests)
        BY DEF R
    <2>1. 0 \in Same
        <3>1. 0 \in 0..R
            BY <1>0
        <3>2. f[0] = <<>> /\ g[0] = <<>>
            BY <1>3, <1>4, <2>0, <3>1 DEF PromptWalk
        <3> QED BY <3>2
    <2>2. ASSUME NEW r \in Nat, r \in Same PROVE r + 1 \in Same
        <3> SUFFICES ASSUME r + 1 <= R PROVE f[r + 1] = g[r + 1]
            OBVIOUS
        <3>1. /\ r + 1 \in 0..R /\ r + 1 # 0 /\ (r + 1) - 1 = r /\ f[r] = g[r]
            BY <1>0, <2>2
        <3> HIDE DEF g
        <3>2. /\ f[r + 1] = f[r] \o [k \in 1..Cardinality(Images(r + 1)) |-> r + 1]
              /\ g[r + 1] = g[r] \o [k \in 1..Cardinality(Images(r + 1)) |-> r + 1]
            BY <1>3, <1>4, <2>0, <3>1 DEF PromptWalk
        <3> QED BY <3>1, <3>2
    <2> HIDE DEF Same
    <2> QED BY <2>1, <2>2, NaturalsByInduction
<1>6. f[R] = g[R]
    <2> HIDE DEF g
    <2> QED BY <1>0, <1>5
<1>7. Rows(R) = Len(imageLayouts)
    <2>1. GridStart = Len(imageLayouts)
        BY DEF PromptsHoldTheImages
    <2> QED BY <1>0, <2>1 DEF GridStart, Rows
<1>8. g[R] = [k \in DOMAIN imageLayouts |-> imageLayouts[k].at[1]]
    <2>1. R \in 0..R
        BY <1>0
    <2>2. g[R] = [k \in 1..Rows(R) |-> imageLayouts[k].at[1]]
        BY <2>1
    <2> QED BY <1>0, <1>7, <2>2
<1> QED BY <1>4, <1>6, <1>8

(* The ranges and the prompts agree in every state a run reaches.             *)
LEMMA PromptsAlwaysHold ==
    Spec => [](Inv /\ PromptsHoldTheImages)
<1>1. Init => PromptsHoldTheImages
    <2> SUFFICES ASSUME Init PROVE PromptsHoldTheImages
        OBVIOUS
    <2>1. DOMAIN requestLayouts = {} /\ \A r \in DOMAIN visuals : visuals[r] = <<>>
        BY DEF Init
    <2> QED BY <2>1 DEF Init, PromptsHoldTheImages, After
<1>2. ASSUME Inv, PromptsHoldTheImages, [Next]_vars PROVE PromptsHoldTheImages'
    <2>1. CASE Next
        BY <1>2, <2>1, PromptsArePreserved
    <2>2. CASE UNCHANGED vars
        <3>1. GridStart' = GridStart /\ \A r : Images(r)' = Images(r)
            BY <2>2 DEF vars, traversalVars, GridStart, Images
        <3>2. Images(cursor[1])' = Images(cursor[1])
            BY <2>2 DEF vars, traversalVars, Images
        <3> QED BY <1>2, <2>2, <3>1, <3>2
                DEF vars, traversalVars, PromptsHoldTheImages, Before, After
    <2> QED BY <1>2, <2>1, <2>2
<1>3. Init /\ [][Next]_vars /\ []Inv => []PromptsHoldTheImages
    BY <1>1, <1>2, PTL
<1> QED BY <1>3, InvAlwaysHolds, PTL DEF Spec

(* The sidecar pairs every replacement with the image of its request: the     *)
(* refusal of a pairing that crosses requests is never due.                   *)
LEMMA SidecarIsBuilt ==
    ASSUME Inv, PromptsHoldTheImages, BuildSidecar
    PROVE  /\ result' = Prepared
           /\ Len(sidecar') = Len(imageLayouts)
           /\ DOMAIN sidecar' = DOMAIN imageLayouts
           /\ \A k \in DOMAIN imageLayouts :
                 sidecar'[k] = [request |-> imageLayouts[k].at[1], gridRow |-> k - 1]
<1>0. /\ phase = "sidecar" /\ phase \in After
    BY DEF BuildSidecar, After
<1>1. PICK n \in Nat : n = Len(imageLayouts) /\ DOMAIN imageLayouts = 1..n
    BY DEF Inv, Typed
<1>2. /\ DOMAIN ReplacementRequests = 1..n
      /\ \A k \in 1..n : ReplacementRequests[k] = imageLayouts[k].at[1]
    BY <1>0, <1>1, ReplacementsAreTheImages
<1> DEFINE pairs == [k \in DOMAIN ReplacementRequests |->
                        [request |-> ReplacementRequests[k],
                         gridRow |-> imageLayouts[k].gridRow]]
           agrees == /\ Len(pairs) = Len(imageLayouts)
                     /\ \A k \in DOMAIN pairs :
                            pairs[k].request = imageLayouts[k].at[1]
<1>3. \A k \in 1..n : /\ imageLayouts[k].gridRow = k - 1
                      /\ imageLayouts[k].at[1] \in Nat
    <2>1. \A k \in 1..n : imageLayouts[k] \in Layouts
        BY <1>1 DEF Inv, Typed
    <2>2. \A k \in 1..n : imageLayouts[k].at[1] \in Nat
        BY <2>1 DEF Layouts
    <2> QED BY <1>1, <2>2 DEF Inv, ImagesInOrder
<1>4. \A k \in 1..n :
          pairs[k] = [request |-> imageLayouts[k].at[1], gridRow |-> k - 1]
    BY <1>2, <1>3
<1>5. pairs \in [1..n -> [request : Nat, gridRow : Int]]
    BY SMTT(30), <1>2, <1>3
<1>6. Len(pairs) = n /\ DOMAIN pairs = 1..n
    BY <1>5, LengthOfAFunction
<1>7. agrees
    <2> HIDE DEF pairs
    <2> QED BY <1>1, <1>4, <1>6
<1>8. sidecar' = pairs /\ result' = Prepared
    <2>1. IF agrees THEN sidecar' = pairs /\ phase' = "done" /\ result' = Prepared
                    ELSE Fail(Error("InternalInvariant", 0)) /\ UNCHANGED sidecar
        BY DEF BuildSidecar
    <2> HIDE DEF agrees, pairs
    <2> QED BY <1>7, <2>1
<1> HIDE DEF pairs
<1> QED BY <1>1, <1>4, <1>6, <1>8

(* With no failure left, every occurrence is in the table of its kind.        *)
LEMMA EveryOccurrenceIsPlanned ==
    ASSUME Inv, phase = "sidecar"
    PROVE  /\ PlanningFailures = {}
           /\ \A p \in Positions(batch) : PlanningVerdict(ItemAt(batch, p)) = OkVerdict
           /\ \A p \in OfKind(batch, "image") :
                 \E k \in DOMAIN imageLayouts : imageLayouts[k].at = p
           /\ \A p \in OfKind(batch, "video") :
                 \E k \in DOMAIN videoLayouts : videoLayouts[k].at = p
           /\ \A p \in Positions(batch) : ExecutionVerdict(ItemAt(batch, p)) = OkVerdict
<1> USE DEF Inv
<1>1. /\ phase \in After /\ Passed = Positions(batch) /\ mediaErrors = <<>> /\ Traversing
    BY DEF After, PhasesHold, Traversing, Before
<1>2. PlanningFailures = {}
    BY <1>1, AllFailuresAreCollected
<1>3. \A p \in Positions(batch) : PlanningVerdict(ItemAt(batch, p)) = OkVerdict
    BY <1>2, Zenon DEF PlanningFailures, ErrorsAt
<1>4. \A p \in OfKind(batch, "image") :
          \E k \in DOMAIN imageLayouts : imageLayouts[k].at = p
    BY <1>1, <1>3 DEF NothingIsMissed, OfKind
<1>5. \A p \in OfKind(batch, "video") :
          \E k \in DOMAIN videoLayouts : videoLayouts[k].at = p
    BY <1>1, <1>3 DEF NothingIsMissed, OfKind
<1>6. ASSUME NEW p \in Positions(batch)
      PROVE  ExecutionVerdict(ItemAt(batch, p)) = OkVerdict
    <2>1. ItemAt(batch, p).body = OkVerdict
        <3>1. CASE p \in OfKind(batch, "image")
            BY <1>4, <3>1 DEF StagesPassed
        <3>2. CASE p \in OfKind(batch, "video")
            BY <1>5, <3>2 DEF StagesPassed
        <3> QED BY <3>1, <3>2, BatchIsABatch, ItemsOfABatch DEF OfKind
    <2>2. ItemAt(batch, p).geometry = OkVerdict
        BY <1>3 DEF PlanningVerdict
    <2> QED BY <2>1, <2>2 DEF ExecutionVerdict
<1> QED BY <1>2, <1>3, <1>4, <1>5, <1>6

(* The videos planned are as many as the batch has.                           *)
LEMMA VideosAreCounted ==
    ASSUME Inv, phase = "sidecar"
    PROVE  Len(videoLayouts) = Cardinality(OfKind(batch, "video"))
<1> DEFINE V == OfKind(batch, "video")
           at == [k \in 1..Len(videoLayouts) |-> videoLayouts[k].at]
<1>1. Len(videoLayouts) \in Nat /\ DOMAIN videoLayouts = 1..Len(videoLayouts)
    BY DEF Inv, Typed
<1>2. at \in [1..Len(videoLayouts) -> V]
    BY <1>1 DEF Inv, VideosInOrder
<1>3. \A p \in V : \E k \in 1..Len(videoLayouts) : at[k] = p
    BY <1>1, EveryOccurrenceIsPlanned
<1>4. ASSUME NEW j \in 1..Len(videoLayouts), NEW k \in 1..Len(videoLayouts),
             at[j] = at[k]
      PROVE  j = k
    <2>1. ASSUME NEW i \in 1..Len(videoLayouts), NEW l \in 1..Len(videoLayouts), i < l
          PROVE  at[i] # at[l]
        <3>1. Precedes(videoLayouts[i].at, videoLayouts[l].at)
            BY <1>1, <2>1 DEF Inv, VideosInOrder
        <3>2. videoLayouts[i].at \in Positions(batch)
            BY <1>1 DEF Inv, VideosInOrder, OfKind
        <3>3. ~Precedes(videoLayouts[i].at, videoLayouts[i].at)
            BY <3>2, BatchIsABatch, SourceOrder DEF Inv
        <3> QED BY <3>1, <3>3
    <2>2. j = k \/ j < k \/ k < j
        OBVIOUS
    <2> QED BY <1>4, <2>1, <2>2
<1>5. at \in Bijection(1..Len(videoLayouts), V)
    <2> HIDE DEF at, V
    <2> QED BY <1>2, <1>3, <1>4, Zenon
            DEF Bijection, Injection, Surjection, IsInjective
<1> HIDE DEF at, V
<1>6. Cardinality(V) = Len(videoLayouts)
    BY <1>1, <1>5, FS_CountingElements DEF ExistsBijection
<1> QED BY <1>6 DEF V

(* A batch that plans has planned and decoded every occurrence, and the k-th  *)
(* replacement of the prompts is the k-th image of the pixel rows, in the     *)
(* request that holds it (PreprocessBatch sidecar construction).              *)
THEOREM PreparedIsComplete ==
    Spec => []PreparedBatchesAreComplete
<1>1. Init => PreparedBatchesAreComplete
    BY DEF Init, PreparedBatchesAreComplete, Prepared, Pending
<1>2. ASSUME Inv, PromptsHoldTheImages, PreparedBatchesAreComplete, [Next]_vars
      PROVE  PreparedBatchesAreComplete'
    <2>1. CASE BuildSidecar
        <3>1. /\ phase = "sidecar" /\ batch' = batch
              /\ UNCHANGED <<imageLayouts, videoLayouts>>
            BY <2>1 DEF BuildSidecar, traversalVars
        <3> DEFINE at == [k \in DOMAIN imageLayouts |-> imageLayouts[k].at]
        <3>2. PICK n \in Nat : DOMAIN imageLayouts = 1..n /\ n = Len(imageLayouts)
            BY <1>2 DEF Inv, Typed
        <3>3. Len(at) = n
            <4>1. at \in [1..n -> Positions(batch)]
                BY <1>2, <3>2 DEF Inv, ImagesInOrder, OfKind
            <4> HIDE DEF at
            <4> QED BY <4>1, LengthOfAFunction
        <3>4. {at[k] : k \in DOMAIN at} = OfKind(batch, "image")
            <4>1. \A k \in DOMAIN imageLayouts : at[k] \in OfKind(batch, "image")
                BY <1>2 DEF Inv, ImagesInOrder
            <4>2. \A p \in OfKind(batch, "image") :
                      \E k \in DOMAIN imageLayouts : at[k] = p
                BY <1>2, <3>1, EveryOccurrenceIsPlanned
            <4>3. DOMAIN at = DOMAIN imageLayouts
                OBVIOUS
            <4> HIDE DEF at
            <4> QED BY <4>1, <4>2, <4>3
        <3>5. \A j, k \in DOMAIN at : j < k => Precedes(at[j], at[k])
            BY <1>2 DEF Inv, ImagesInOrder
        <3>6. /\ Len(sidecar') = Len(imageLayouts)
              /\ DOMAIN sidecar' = DOMAIN imageLayouts
              /\ \A k \in DOMAIN imageLayouts :
                    sidecar'[k] = [request |-> imageLayouts[k].at[1],
                                   gridRow |-> k - 1]
            BY <1>2, <2>1, SidecarIsBuilt
        <3>7. /\ Len(sidecar') = Len(at)
              /\ \A k \in DOMAIN sidecar' :
                    sidecar'[k] = [request |-> at[k][1], gridRow |-> k - 1]
            BY <3>2, <3>3, <3>6
        <3>8. /\ \A p \in Positions(batch) :
                    ExecutionVerdict(ItemAt(batch, p)) = OkVerdict
              /\ Len(videoLayouts) = Cardinality(OfKind(batch, "video"))
            BY <1>2, <3>1, EveryOccurrenceIsPlanned, VideosAreCounted
        <3>9. at = [k \in DOMAIN imageLayouts |-> imageLayouts[k].at]'
            BY <3>1
        <3> HIDE DEF at
        <3> QED BY <3>1, <3>4, <3>5, <3>7, <3>8, <3>9 DEF PreparedBatchesAreComplete
    <2>2. CASE UNCHANGED vars
        BY <1>2, <2>2 DEF vars, traversalVars, PreparedBatchesAreComplete
    <2>3. CASE Next /\ result = Prepared
        <3>1. phase = "done"
            BY <1>2, <2>3 DEF Inv, PhasesHold, Prepared, Pending
        <3>2. UNCHANGED vars
            BY <2>3, <3>1 DEF Next, PlanningThread, RejectEmptyBatch,
                ValidateAndRender, Preflight, SkipText, ImageFails, VideoFails,
                KeepMediaError, PlanImage, PlanVideo, CloseRequest, Triage,
                PlanText, FinishSalvage, FinishExecute, ExecuteVideos,
                BuildSidecar, Worker, StartDecode, FinishDecode, Decoding,
                Finished, OnMedia
        <3> QED BY <2>2, <3>2
    <2>4. CASE Next /\ result # Prepared /\ ~BuildSidecar
        <3>1. result' = result \/ \E e : result' = Failure(e)
            BY <2>4 DEF Next, PlanningThread, RejectEmptyBatch,
                ValidateAndRender, Preflight, SkipText, ImageFails, VideoFails,
                KeepMediaError, PlanImage, PlanVideo, CloseRequest, Triage,
                PlanText, FinishSalvage, FinishExecute, ExecuteVideos,
                Worker, StartDecode, FinishDecode, Finished, vars, Fail, MoveTo
        <3>2. result' # Prepared
            BY <2>4, <3>1 DEF Failure, Prepared
        <3> QED BY <3>2 DEF PreparedBatchesAreComplete
    <2> QED BY <1>2, <2>1, <2>2, <2>3, <2>4
<1> QED BY <1>1, <1>2, PromptsAlwaysHold, PTL DEF Spec

-------------------------------------------------------------------------------
(* The failures of decoding and of the videos, said of the batch alone, and   *)
(* the stages of its verdict.                                                 *)
Bodies ==
    {Error(ItemAt(batch, p).body, OccurrenceIndex(batch, p)) :
        p \in {q \in OfKind(batch, "image") :
                  /\ PlanningVerdict(ItemAt(batch, q)) = OkVerdict
                  /\ ItemAt(batch, q).body # OkVerdict}}

Films ==
    {Error(ItemAt(batch, p).body, OccurrenceIndex(batch, p)) :
        p \in {q \in OfKind(batch, "video") : ItemAt(batch, q).body # OkVerdict}}

Stages ==
    << AdmissionFailures(batch),
       Predecode(PlanningFailures),
       IF PlanningFailures = {} THEN {} ELSE PlanningFailures \cup Bodies,
       TextFailures(batch),
       Bodies,
       IF Films = {} THEN {}
       ELSE {CHOOSE e \in Films : \A f \in Films : e.place <= f.place} >>

(* The verdict of the batch is that of its first stage with a failure.        *)
LEMMA VerdictByStages ==
    BatchVerdict(batch) = FirstStage(Stages)
<1>1. /\ ErrorsAt(batch, PlannedCleanly(batch, "image", PlanningVerdict), BodyVerdict)
             = Bodies
      /\ ErrorsAt(batch, OfKind(batch, "video"), BodyVerdict) = Films
    <2>1. ErrorsAt(batch, OfKind(batch, "video"), BodyVerdict) = Films
        BY DEF ErrorsAt, BodyVerdict, Films
    <2>2. {q \in PlannedCleanly(batch, "image", PlanningVerdict) :
              ItemAt(batch, q).body # OkVerdict}
          = {q \in OfKind(batch, "image") :
                  /\ PlanningVerdict(ItemAt(batch, q)) = OkVerdict
                  /\ ItemAt(batch, q).body # OkVerdict}
        BY DEF PlannedCleanly
    <2>3. ErrorsAt(batch, PlannedCleanly(batch, "image", PlanningVerdict), BodyVerdict)
             = Bodies
        BY <2>2, Zenon DEF ErrorsAt, BodyVerdict, Bodies
    <2> QED BY <2>1, <2>3
<1> QED BY <1>1, Zenon DEF BatchVerdict, Stages, PlanningFailures

(* The verdict is that of the first stage with a failure, if there is one.    *)
LEMMA StageAnswers ==
    ASSUME NEW k \in 1..6, Stages[k] # {},
           \A j \in 1..6 : j < k => Stages[j] = {}
    PROVE  BatchVerdict(batch) = Failure(Preferred(Stages[k]))
<1>1. DOMAIN Stages = 1..6
    BY DEF Stages
<1> QED BY <1>1, VerdictByStages, FirstStageAnswers

(* A batch without a failure at any stage is prepared.                        *)
LEMMA NoStageAnswers ==
    ASSUME \A j \in 1..6 : Stages[j] = {}
    PROVE  BatchVerdict(batch) = Prepared
<1>1. DOMAIN Stages = 1..6
    BY DEF Stages
<1> QED BY <1>1, VerdictByStages DEF FirstStage

(* The six stages one by one.                                                 *)
LEMMA StagesOfTheVerdict ==
    /\ Stages[1] = AdmissionFailures(batch)
    /\ Stages[2] = Predecode(PlanningFailures)
    /\ Stages[3] = IF PlanningFailures = {} THEN {} ELSE PlanningFailures \cup Bodies
    /\ Stages[4] = TextFailures(batch)
    /\ Stages[5] = Bodies
    /\ Stages[6] = IF Films = {} THEN {}
                   ELSE {CHOOSE e \in Films : \A f \in Films : e.place <= f.place}
    /\ \A j \in 1..6 : j \in {1, 2, 3, 4, 5, 6}
BY DEF Stages

(* With every pending image decoded, the failures collected from the workers  *)
(* are those of the bodies of the images that planned.                        *)
LEMMA DecodeErrorsAreTheBodies ==
    ASSUME Inv, AllDecoded, phase \in {"salvage", "execute"}
    PROVE  ErrorsIn(DecodeErrors) = Bodies
<1> DEFINE Failed == {k \in DOMAIN imageLayouts : BodyKnown(k) # OkVerdict}
<1>0. /\ Typed /\ ImagesInOrder /\ phase \in After /\ Traversing
      /\ DOMAIN decode = DOMAIN imageLayouts
      /\ Passed = Positions(batch)
    BY DEF Inv, After, PhasesHold, Traversing, Before
<1>1. PICK f : Lists(f, DecodeErrors, Outcomes, Failed, Len(imageLayouts))
    BY <1>0, DecodeErrorsAre
<1>2. DOMAIN DecodeErrors = 1..Len(DecodeErrors)
    <2>1. DecodeErrors \in Seq(Errors)
        BY <1>0, DecodeErrorsAre
    <2> QED BY <2>1
<1>3. ASSUME NEW k \in DOMAIN imageLayouts
      PROVE  /\ BodyKnown(k) = ItemAt(batch, imageLayouts[k].at).body
             /\ Outcomes[k] = Error(ItemAt(batch, imageLayouts[k].at).body,
                                    OccurrenceIndex(batch, imageLayouts[k].at))
             /\ imageLayouts[k].at \in OfKind(batch, "image")
             /\ PlanningVerdict(ItemAt(batch, imageLayouts[k].at)) = OkVerdict
    <2>1. decode[k] = "decoded"
        BY <1>0 DEF AllDecoded
    <2>2. BodyKnown(k) = ItemAt(batch, imageLayouts[k].at).body
        BY <2>1 DEF BodyKnown
    <2>3. Outcomes[k] = Error(BodyKnown(k), imageLayouts[k].place)
        BY <1>0, OutcomesAre
    <2> QED BY <1>0, <2>2, <2>3 DEF ImagesInOrder
<1>4. ASSUME NEW j \in DOMAIN DecodeErrors PROVE DecodeErrors[j] \in Bodies
    <2>1. f[j] \in Failed /\ DecodeErrors[j] = Outcomes[f[j]]
        BY <1>1, <1>2 DEF Lists
    <2> QED BY <1>3, <2>1 DEF Bodies
<1>5. ASSUME NEW p \in OfKind(batch, "image"),
             PlanningVerdict(ItemAt(batch, p)) = OkVerdict,
             ItemAt(batch, p).body # OkVerdict
      PROVE  \E j \in DOMAIN DecodeErrors :
                DecodeErrors[j]
                    = Error(ItemAt(batch, p).body, OccurrenceIndex(batch, p))
    <2>1. p \in Passed /\ ItemAt(batch, p).kind = "image"
        BY <1>0 DEF OfKind
    <2>2. PICK k \in DOMAIN imageLayouts : imageLayouts[k].at = p
        BY <1>0, <1>5, <2>1 DEF Inv, NothingIsMissed
    <2>3. k \in Failed /\ k \in 1..Len(imageLayouts)
        BY <1>0, <1>3, <1>5, <2>2, OutcomesAre
    <2>4. PICK j \in 1..Len(DecodeErrors) : f[j] = k
        BY <1>1, <2>3 DEF Lists
    <2>5. DecodeErrors[j] = Outcomes[k]
        BY <1>1, <2>4 DEF Lists
    <2> QED BY <1>2, <1>3, <2>2, <2>4, <2>5
<1> QED BY <1>4, <1>5 DEF ErrorsIn, Bodies

-------------------------------------------------------------------------------
(* Where admission answers, its failure is the verdict.                       *)
LEMMA AdmissionAnswers ==
    ASSUME NEW e \in Errors, AdmissionFailures(batch) = {e}
    PROVE  BatchVerdict(batch) = Failure(e)
<1>1. Stages[1] = {e} /\ \A j \in 1..6 : ~(j < 1)
    BY StagesOfTheVerdict
<1> QED BY <1>1, StageAnswers, PreferredOfOne

(* A batch rejected at admission is answered with the verdict of the batch.   *)
LEMMA RejectionIsTheVerdict ==
    ASSUME Inv, result' # Pending, RejectEmptyBatch \/ ValidateAndRender \/ Preflight
    PROVE  result' = BatchVerdict(batch)
<1> USE DEF Inv
<1>0. IsBatch(batch) /\ Typed /\ (phase # "done" => result = Pending)
    BY BatchIsABatch DEF PhasesHold
<1>1. CASE RejectEmptyBatch
    <2>1. AdmissionFailures(batch) = {Error("InvalidRequest", 0)}
        BY <1>1 DEF RejectEmptyBatch, AdmissionFailures
    <2>2. Error("InvalidRequest", 0) \in Errors
        BY DEF Error, Errors, Categories
    <2> QED BY <1>1, <2>1, <2>2, AdmissionAnswers DEF RejectEmptyBatch, Fail
<1>2. CASE ValidateAndRender
    <2> DEFINE c == cursor[1]
               e == Error(Rejection(Request), c)
    <2>1. /\ c \in DOMAIN batch.requests /\ phase = "validate"
          /\ Rejection(Request) # OkVerdict /\ result' = Failure(e)
        BY <1>0, <1>2 DEF ValidateAndRender, MoveTo, Fail
    <2>2. /\ DOMAIN batch.requests = 1..Len(batch.requests) /\ batch.requests # <<>>
          /\ Request = batch.requests[c] /\ c \in Nat
        <3>1. DOMAIN batch.requests = 1..Len(batch.requests)
            BY <1>0, RequestsOfABatch
        <3> QED BY <2>1, <3>1 DEF Request, Typed
    <2>3. FirstOf(Unrendered(batch)) = c /\ Unrendered(batch) # {}
        <3>1. Unrendered(batch) \in SUBSET Nat
            BY <2>2 DEF Unrendered
        <3>2. c \in Unrendered(batch)
            BY <2>1, <2>2 DEF Unrendered, Rejection
        <3>3. \A r \in Unrendered(batch) : c <= r
            <4> SUFFICES ASSUME NEW r \in Unrendered(batch), ~(c <= r) PROVE FALSE
                OBVIOUS
            <4>1. r \in DOMAIN batch.requests /\ r < c
                BY <2>2, <3>1 DEF Unrendered
            <4>2. Rejection(batch.requests[r]) = OkVerdict
                BY <2>1, <4>1 DEF PhasesHold
            <4> QED BY <4>2 DEF Unrendered, Rejection
        <3> QED BY <3>1, <3>2, <3>3, FirstIsUnique
    <2>4. AdmissionFailures(batch) = {e}
        BY <2>2, <2>3 DEF AdmissionFailures
    <2>5. e \in Errors
        BY <2>1, <2>2, <1>0, RequestAtHand, FailuresAreResults
    <2> QED BY <2>1, <2>4, <2>5, AdmissionAnswers
<1>3. CASE Preflight
    <2>1. /\ phase = "preflight" /\ batch.requests # <<>> /\ Unrendered(batch) = {}
        BY <1>3 DEF Preflight, PhasesHold
    <2>2. CASE UnsupportedOptions(batch) # {}
        <3> DEFINE r == FirstOf(UnsupportedOptions(batch))
                   e == Error(batch.requests[r].options, r)
        <3>1. AdmissionFailures(batch) = {e}
            BY <2>1, <2>2 DEF AdmissionFailures
        <3>2. result' = Failure(e)
            BY <1>3, <2>2 DEF Preflight, Fail
        <3>3. UnsupportedOptions(batch) \in SUBSET Nat
            BY <1>0, RequestsOfABatch DEF UnsupportedOptions
        <3>4. r \in UnsupportedOptions(batch)
            BY <2>2, <3>3, FirstIsLeast
        <3>5. /\ r \in Nat /\ batch.requests[r].options \in Verdicts
              /\ batch.requests[r].options # OkVerdict
            BY <1>0, <3>3, <3>4, RequestsOfABatch DEF UnsupportedOptions, Requests
        <3>6. e \in Errors
            BY <3>5, FailuresAreResults
        <3> QED BY <3>1, <3>2, <3>6, AdmissionAnswers
    <2>3. CASE UnsupportedOptions(batch) = {}
        <3>1. /\ batch.resources # OkVerdict
              /\ result' = Failure(Error(batch.resources, 0))
            BY <1>0, <1>3, <2>1, <2>3 DEF Preflight, Fail, MoveTo
        <3>2. AdmissionFailures(batch) = {Error(batch.resources, 0)}
            BY <2>1, <2>3, <3>1 DEF AdmissionFailures
        <3>3. Error(batch.resources, 0) \in Errors
            BY <1>0, <3>1, FailuresAreResults DEF IsBatch
        <3> QED BY <3>1, <3>2, <3>3, AdmissionAnswers
    <2> QED BY <2>2, <2>3
<1> QED BY <1>1, <1>2, <1>3

(* The stages that follow the traversal.                                      *)
LEMMA CollectedFailureIsTheVerdict ==
    ASSUME Inv, result' # Pending, Triage \/ PlanText \/ FinishSalvage \/ FinishExecute
    PROVE  result' = BatchVerdict(batch)
<1> USE DEF Inv
<1>0. /\ Typed /\ phase \in After /\ result = Pending
      /\ AdmissionFailures(batch) = {}
    BY DEF Triage, PlanText, FinishSalvage, FinishExecute, After, PhasesHold, Before
<1>s. USE <1>0, StagesOfTheVerdict
<1>1. CASE Triage
    <2>1. /\ PredecodeErrors(mediaErrors) # {}
          /\ result' = Failure(PreferredPredecodeError(mediaErrors))
        BY <1>1 DEF Triage, MoveTo, Fail
    <2>2. Stages[2] = PredecodeErrors(mediaErrors)
        BY AllFailuresAreCollected
    <2>3. \A j \in 1..6 : j < 2 => Stages[j] = {}
        OBVIOUS
    <2> QED BY <2>1, <2>2, <2>3, StageAnswers DEF PreferredPredecodeError
<1>2. CASE PlanText
    <2>1. /\ batch.text # OkVerdict /\ result' = Failure(Error(batch.text, 0))
          /\ phase = "text"
        BY <1>2 DEF PlanText, MoveTo, Fail
    <2>2. PlanningFailures = {}
        BY <2>1, AllFailuresAreCollected DEF PhasesHold
    <2>3. \A j \in 1..6 : j < 4 => Stages[j] = {}
        BY <2>2 DEF Predecode
    <2>4. Stages[4] = {Error(batch.text, 0)}
        BY <2>1 DEF TextFailures
    <2>5. Error(batch.text, 0) \in Errors
        BY <2>1, BatchIsABatch, FailuresAreResults DEF IsBatch
    <2> QED BY <2>1, <2>3, <2>4, <2>5, StageAnswers, PreferredOfOne
<1>3. CASE FinishSalvage
    <2>1. /\ phase = "salvage" /\ AllDecoded /\ mediaErrors # <<>>
          /\ mediaErrors' = mediaErrors \o DecodeErrors
          /\ result' = Failure(SelectPreferredError(mediaErrors'))
        BY <1>3 DEF FinishSalvage, Fail, PhasesHold
    <2>2. mediaErrors \in Seq(Errors) /\ DecodeErrors \in Seq(Errors)
        BY DecodeErrorsAre DEF Typed
    <2>3. ErrorsIn(mediaErrors') = PlanningFailures \cup Bodies
        BY <2>1, <2>2, ErrorsOfBoth, AllFailuresAreCollected, DecodeErrorsAreTheBodies
    <2>4. PlanningFailures # {} /\ Predecode(PlanningFailures) = {}
        BY <2>1, AllFailuresAreCollected DEF DecodingIsDue
    <2>5. Stages[3] = ErrorsIn(mediaErrors') /\ Stages[3] # {}
        BY <2>3, <2>4
    <2>6. \A j \in 1..6 : j < 3 => Stages[j] = {}
        BY <2>4
    <2>7. BatchVerdict(batch) = Failure(Preferred(Stages[3]))
        BY <2>5, <2>6, StageAnswers
    <2>8. SelectPreferredError(mediaErrors') = Preferred(ErrorsIn(mediaErrors'))
        BY DEF SelectPreferredError
    <2> QED BY <2>1, <2>5, <2>7, <2>8, Zenon
<1>4. CASE FinishExecute
    <2>1. /\ phase = "execute" /\ AllDecoded /\ DecodeErrors # <<>>
          /\ result' = Failure(SelectPreferredError(DecodeErrors))
        BY <1>4 DEF FinishExecute, Fail, MoveTo
    <2>2. ErrorsIn(DecodeErrors) = Bodies
        BY <2>1, DecodeErrorsAreTheBodies
    <2>3. PlanningFailures = {} /\ TextFailures(batch) = {}
        BY <2>1, AllFailuresAreCollected DEF PhasesHold, StagesPassed
    <2>4. \A j \in 1..6 : j < 5 => Stages[j] = {}
        BY <2>3 DEF Predecode
    <2>5. Bodies # {}
        <3>1. DecodeErrors \in Seq(Errors)
            BY DecodeErrorsAre
        <3>2. 1 \in DOMAIN DecodeErrors
            BY <2>1, <3>1
        <3> QED BY <2>2, <3>2 DEF ErrorsIn
    <2> QED BY <2>1, <2>2, <2>4, <2>5, StageAnswers DEF SelectPreferredError
<1> QED BY <1>1, <1>2, <1>3, <1>4

(* The first video that fails is the one a later stage would choose.          *)
LEMMA FirstFilmIsTheVerdict ==
    ASSUME Inv, result' # Pending, ExecuteVideos
    PROVE  result' = BatchVerdict(batch)
<1> USE DEF Inv
<1>0. /\ Typed /\ phase = "videos" /\ phase \in After /\ result = Pending
      /\ AdmissionFailures(batch) = {} /\ PlanningFailures = {}
      /\ TextFailures(batch) = {} /\ VideosInOrder /\ IsBatch(batch) /\ Traversing
      /\ Passed = Positions(batch)
    <2>1. phase = "videos" /\ phase \in After
        BY DEF ExecuteVideos, After
    <2> QED BY <2>1, AllFailuresAreCollected, BatchIsABatch
            DEF PhasesHold, StagesPassed, Before, Traversing
<1> DEFINE At(k) == videoLayouts[k].at
           Body(k) == ItemAt(batch, videoLayouts[k].at).body
           n == FirstOf(FailedVideos)
           e == Error(ItemAt(batch, videoLayouts[n].at).body, videoLayouts[n].place)
<1>1. FailedVideos # {} /\ result' = Failure(e)
    BY <1>0 DEF ExecuteVideos, MoveTo, Fail
<1>2. /\ n \in FailedVideos /\ n \in DOMAIN videoLayouts
      /\ \A k \in FailedVideos : n <= k
    <2>1. FailedVideos \in SUBSET Nat
        BY <1>0 DEF FailedVideos, Typed
    <2>2. n \in FailedVideos /\ \A k \in FailedVideos : n <= k
        BY <1>1, <2>1, FirstIsLeast
    <2> QED BY <2>2 DEF FailedVideos
<1>3. \A k \in DOMAIN videoLayouts :
          /\ At(k) \in OfKind(batch, "video") /\ At(k) \in Positions(batch)
          /\ videoLayouts[k].place = OccurrenceIndex(batch, At(k)) /\ k \in Nat
    BY <1>0 DEF VideosInOrder, OfKind, Typed
<1>4. ASSUME NEW p \in OfKind(batch, "video")
      PROVE  \E k \in DOMAIN videoLayouts : At(k) = p
    <2>1. p \in Positions(batch) /\ ItemAt(batch, p).kind = "video"
        BY DEF OfKind
    <2>2. PlanningVerdict(ItemAt(batch, p)) = OkVerdict
        BY <1>0, <2>1, Zenon DEF PlanningFailures, ErrorsAt
    <2> QED BY <1>0, <2>1, <2>2 DEF NothingIsMissed
<1> HIDE DEF n
<1>5. e \in Films /\ e \in Errors
    <2>1. Body(n) # OkVerdict
        BY <1>2 DEF FailedVideos
    <2>2. e = Error(Body(n), OccurrenceIndex(batch, At(n)))
        BY <1>2, <1>3
    <2>3. Body(n) \in Verdicts /\ OccurrenceIndex(batch, At(n)) \in Nat
        BY <1>0, <1>2, <1>3, ItemsOfABatch, OccurrenceIndexGrows
    <2>4. e \in Errors
        BY <2>1, <2>2, <2>3, FailuresAreResults
    <2> QED BY <1>2, <1>3, <2>1, <2>2, <2>4 DEF Films
<1>6. ASSUME NEW f \in Films
      PROVE  e.place \in Nat /\ f.place \in Nat
             /\ (f = e \/ e.place < f.place)
    <2>1. PICK p \in OfKind(batch, "video") :
              /\ ItemAt(batch, p).body # OkVerdict
              /\ f = Error(ItemAt(batch, p).body, OccurrenceIndex(batch, p))
        BY DEF Films
    <2>2. PICK k \in DOMAIN videoLayouts : At(k) = p
        BY <1>4
    <2>3. k \in FailedVideos /\ n <= k
        BY <1>2, <2>1, <2>2 DEF FailedVideos
    <2>4. /\ e.place = OccurrenceIndex(batch, At(n))
          /\ f.place = OccurrenceIndex(batch, At(k))
        BY <1>2, <1>3, <2>1, <2>2 DEF Error
    <2>5. e.place \in Nat /\ f.place \in Nat
        BY <1>0, <1>2, <1>3, <2>4, OccurrenceIndexGrows
    <2>6. CASE n = k
        BY <1>3, <2>1, <2>2, <2>5, <2>6
    <2>7. CASE n # k
        <3>1. n < k
            BY <1>2, <1>3, <2>3, <2>7
        <3>2. Precedes(At(n), At(k))
            BY <1>0, <1>2, <3>1 DEF VideosInOrder
        <3>3. OccurrenceIndex(batch, At(n)) < OccurrenceIndex(batch, At(k))
            BY <1>0, <1>2, <1>3, <3>2, OccurrenceIndexGrows
        <3> QED BY <2>4, <2>5, <3>3
    <2> QED BY <2>6, <2>7
<1> HIDE DEF e
<1>7. (CHOOSE g \in Films : \A f \in Films : g.place <= f.place) = e
    <2>1. \A f \in Films : e.place <= f.place
        BY <1>6
    <2>2. ASSUME NEW g \in Films, \A f \in Films : g.place <= f.place
          PROVE  g = e
        BY <1>5, <1>6, <2>2
    <2> QED BY <1>5, <2>1, <2>2
<1>8. Bodies = {}
    <2>1. ASSUME NEW p \in OfKind(batch, "image"),
                 PlanningVerdict(ItemAt(batch, p)) = OkVerdict
          PROVE  ItemAt(batch, p).body = OkVerdict
        <3>1. p \in Passed /\ ItemAt(batch, p).kind = "image"
            BY <1>0 DEF OfKind
        <3>2. PICK k \in DOMAIN imageLayouts : imageLayouts[k].at = p
            BY <1>0, <2>1, <3>1 DEF NothingIsMissed
        <3> QED BY <1>0, <3>2 DEF StagesPassed
    <2> QED BY <2>1 DEF Bodies
<1>9. Stages[6] = {e} /\ \A j \in 1..6 : j < 6 => Stages[j] = {}
    <2>1. Stages[6] = {e}
        BY <1>5, <1>7, StagesOfTheVerdict
    <2>2. /\ Stages[1] = {} /\ Stages[2] = {} /\ Stages[3] = {} /\ Stages[4] = {}
          /\ Stages[5] = {}
        BY <1>0, <1>8, StagesOfTheVerdict DEF Predecode
    <2> QED BY <2>1, <2>2, StagesOfTheVerdict
<1>10. BatchVerdict(batch) = Failure(Preferred({e}))
    BY <1>9, StageAnswers
<1> QED BY <1>1, <1>5, <1>10, PreferredOfOne

(* A batch is prepared when no stage has a failure.                           *)
LEMMA PreparedIsTheVerdict ==
    ASSUME Inv, PromptsHoldTheImages, BuildSidecar
    PROVE  result' = BatchVerdict(batch)
<1>1. phase = "sidecar" /\ phase \in After /\ result' = Prepared
    BY SidecarIsBuilt DEF BuildSidecar, After
<1>2. /\ AdmissionFailures(batch) = {} /\ TextFailures(batch) = {}
      /\ PlanningFailures = {}
    BY <1>1, EveryOccurrenceIsPlanned DEF Inv, PhasesHold, Before, StagesPassed
<1>3. \A p \in Positions(batch) : ItemAt(batch, p).body = OkVerdict
    BY <1>1, EveryOccurrenceIsPlanned DEF ExecutionVerdict
<1>4. Bodies = {} /\ Films = {}
    BY <1>3 DEF Bodies, Films, OfKind
<1>5. /\ Stages[1] = {} /\ Stages[2] = {} /\ Stages[3] = {} /\ Stages[4] = {}
      /\ Stages[5] = {} /\ Stages[6] = {}
    BY <1>2, <1>4, StagesOfTheVerdict DEF Predecode
<1>6. \A j \in 1..6 : Stages[j] = {}
    BY <1>5, StagesOfTheVerdict
<1> QED BY <1>1, <1>6, NoStageAnswers

(* Whatever the pool does, a batch is answered once, with the verdict that    *)
(* its requests alone determine: BatchPlanning implements the contract of     *)
(* prepare but for the promise to answer, which needs fairness.               *)
THEOREM ThreadBudgetsDoNotChangeResults ==
    Spec => Contract!SafeSpec
<1>1. Init => Contract!Init
    BY DEF Init, Contract!Init, Pending, Contract!Pending, NoError,
        Contract!NoError, Error, Contract!Error
<1>2. ASSUME Inv, PromptsHoldTheImages, [Next]_vars
      PROVE  [Contract!Answer]_(Contract!contractVars)
    <2>1. CASE result' = result /\ batch' = batch
        BY <2>1 DEF Contract!contractVars
    <2>2. CASE UNCHANGED vars
        BY <2>1, <2>2 DEF vars
    <2>3. CASE Next /\ result' # result
        <3>1. batch' = batch
            BY <2>3, BatchIsNeverWritten
        <3>2. phase # "done"
            BY <2>3 DEF Next, PlanningThread, RejectEmptyBatch,
                ValidateAndRender, Preflight, SkipText, ImageFails, VideoFails,
                KeepMediaError, PlanImage, PlanVideo, CloseRequest, Triage,
                PlanText, FinishSalvage, FinishExecute, ExecuteVideos,
                BuildSidecar, Worker, StartDecode, FinishDecode, Decoding,
                Finished, OnMedia, vars
        <3>3. result = Pending /\ result' # Pending
            BY <1>2, <2>3, <3>2 DEF Inv, PhasesHold
        <3>4. result' = BatchVerdict(batch)
            <4>1. \/ RejectEmptyBatch \/ ValidateAndRender \/ Preflight
                  \/ Triage \/ PlanText \/ FinishSalvage \/ FinishExecute
                  \/ ExecuteVideos \/ BuildSidecar
                BY <2>3 DEF Next, PlanningThread, SkipText, ImageFails, VideoFails,
                    KeepMediaError, PlanImage, PlanVideo, CloseRequest, MoveTo,
                    Worker, StartDecode, FinishDecode, Finished, vars
            <4> QED BY <1>2, <3>3, <4>1, RejectionIsTheVerdict,
                    CollectedFailureIsTheVerdict, FirstFilmIsTheVerdict,
                    PreparedIsTheVerdict
        <3> QED BY <3>1, <3>3, <3>4 DEF Contract!Answer, Pending,
                Contract!Pending, NoError, Contract!NoError, Error, Contract!Error
    <2>4. Next => batch' = batch
        BY BatchIsNeverWritten
    <2> QED BY <1>2, <2>1, <2>2, <2>3, <2>4
<1> QED BY <1>1, <1>2, PromptsAlwaysHold, PTL DEF Spec, Contract!SafeSpec
================================================================================
