-------------------------- MODULE SinglePrepareProofs --------------------------
(* Proofs about SinglePrepare: for every request, of any number of items.     *)
EXTENDS SinglePrepare, PrepareLemmas

Plans == [place : Nat, at : (Nat \ {0}) \X (Nat \ {0})]

Images == [at : (Nat \ {0}) \X (Nat \ {0}), start : Nat, end : Nat]

Typed ==
    /\ batch \in Batches
    /\ phase \in {"admit", "headers", "execute", "done"}
    /\ item \in Nat \ {0} /\ item <= Len(Request.items) + 1
    /\ occurrence \in Nat
    /\ planned \in Seq(Plans)
    /\ mediaErrors \in Seq(Errors)
    /\ textPlanned \in BOOLEAN
    /\ nextPixelRow \in Nat
    /\ next \in Nat \ {0} /\ next <= Len(planned) + 1
    /\ processed \in Seq(Images)
    /\ result \in Results

(* What each phase finds.                                                     *)
PhasesHold ==
    /\ phase # "done" <=> result = Pending
    /\ phase = "admit" => item = 1
    /\ phase \in {"admit", "headers"} => next = 1 /\ processed = <<>>
    /\ phase \in {"headers", "execute"} =>
          AdmissionFailures(batch) = {} /\ OfKind(batch, "video") = {}
    /\ phase = "execute" => item > Len(Request.items)

(* The occurrences that the planning of headers has passed.                   *)
Passed == {p \in Positions(batch) : p[2] < item}

(* Every occurrence passed is counted, and is planned or has failed.          *)
HeadersHold ==
    /\ occurrence = Cardinality(Passed)
    /\ \A k \in DOMAIN planned :
          /\ planned[k].at \in OfKind(batch, "image")
          /\ planned[k].at \in Passed
          /\ HeaderVerdict(ItemAt(batch, planned[k].at)) = OkVerdict
          /\ planned[k].place = OccurrenceIndex(batch, planned[k].at)
    /\ \A p \in Passed :
          HeaderVerdict(ItemAt(batch, p)) = OkVerdict =>
              \E k \in DOMAIN planned : planned[k].at = p

(* The images that were executed.                                             *)
Done == {planned[k].at : k \in {j \in DOMAIN planned : j < next}}

Headers == ErrorsAt(batch, Positions(batch), HeaderVerdict)

(* The failures kept are those of the headers passed and, later, those of the *)
(* images executed.                                                           *)
FailuresHold ==
    /\ phase \in {"admit", "headers"} =>
          ErrorsIn(mediaErrors) = ErrorsAt(batch, Passed, HeaderVerdict)
    /\ phase = "execute" =>
          ErrorsIn(mediaErrors) = Headers \cup ErrorsAt(batch, Done, ExecutionVerdict)

(* The rows of the first images of a list, image by image.                    *)
Sums(upTo, list) ==
    upTo = [k \in 0..Len(list) |->
               IF k = 0 THEN 0
               ELSE upTo[k - 1] + ItemAt(batch, list[k].at).rows]

Rows(list) == CHOOSE upTo : Sums(upTo, list)

EveryGeometry ==
    \A k \in DOMAIN planned : ItemAt(batch, planned[k].at).geometry = OkVerdict

(* Execution is entered past every limit, with a text plan exactly when every *)
(* image has a geometry; until a failure its images stand row after row.      *)
ExecutionHolds ==
    phase = "execute" =>
        /\ Predecode(Headers) = {}
        /\ textPlanned <=> Headers = {} /\ EveryGeometry
        /\ textPlanned => /\ batch.text = OkVerdict
                          /\ nextPixelRow = Rows(planned)[Len(planned)]
                          /\ Len(visuals) = Len(planned)
        /\ mediaErrors = <<>> => /\ Len(processed) = next - 1
                                 /\ RowEnd = Rows(planned)[next - 1]

Inv == Typed /\ PhasesHold /\ HeadersHold /\ FailuresHold /\ ExecutionHolds

-------------------------------------------------------------------------------

(* The batch is one request, and its occurrences are media items of it.       *)
LEMMA OneRequest ==
    ASSUME Typed
    PROVE  /\ IsBatch(batch) /\ DOMAIN batch.requests = {1}
           /\ batch.requests # <<>>
           /\ Request \in Requests /\ Request.items \in Seq(Items)
           /\ Len(Request.items) \in Nat
           /\ DOMAIN Request.items = 1..Len(Request.items)
           /\ {Rejection(Request), Request.options, batch.resources, batch.text}
                  \subseteq Verdicts
           /\ {Rejection(Request), Request.options, batch.resources, batch.text}
                  \cap {"MediaGeometry"} = {}
           /\ \A p \in Positions(batch) :
                 /\ p = <<1, p[2]>> /\ p[2] \in 1..Len(Request.items)
                 /\ ItemAt(batch, p) = Request.items[p[2]]
                 /\ ItemAt(batch, p) \in Items
                 /\ ItemAt(batch, p).kind \in {"image", "video"}
           /\ \A i \in DOMAIN Request.items :
                 Request.items[i].kind # "text" => <<1, i>> \in Positions(batch)
<1>1. /\ IsBatch(batch) /\ Len(batch.requests) = 1
      /\ "MediaGeometry" \notin
            {batch.resources, batch.text, batch.requests[1].structure,
             batch.requests[1].render, batch.requests[1].options}
    BY RequestsAssumption DEF Typed
<1>2. DOMAIN batch.requests = {1} /\ batch.requests # <<>>
    <2>1. DOMAIN batch.requests = 1..1
        BY <1>1, RequestsOfABatch
    <2> QED BY <1>1, <2>1, RequestsOfABatch
<1>3. /\ Request \in Requests /\ Request.items \in Seq(Items)
      /\ Len(Request.items) \in Nat /\ DOMAIN Request.items = 1..Len(Request.items)
    BY <1>1, <1>2, RequestsOfABatch DEF Request
<1>4. /\ Rejection(Request) \in {Request.structure, Request.render}
      /\ Request.structure \in Verdicts /\ Request.render \in Verdicts
      /\ Request.options \in Verdicts
    BY <1>3 DEF Rejection, Requests
<1>5. batch.resources \in Verdicts /\ batch.text \in Verdicts
    BY <1>1 DEF IsBatch
<1>6. Rejection(Request) # "MediaGeometry" /\ Request.options # "MediaGeometry"
    BY <1>1, <1>4 DEF Request
<1>7. ASSUME NEW p \in Positions(batch)
      PROVE  /\ p = <<1, p[2]>> /\ p[2] \in 1..Len(Request.items)
             /\ ItemAt(batch, p) = Request.items[p[2]]
             /\ ItemAt(batch, p) \in Items
             /\ ItemAt(batch, p).kind \in {"image", "video"}
    <2>1. p = <<p[1], p[2]>> /\ p[1] = 1 /\ p[2] \in DOMAIN Request.items
        BY <1>2, PositionsOfABatch DEF Request
    <2> QED BY <1>1, <1>3, <2>1, ItemsOfABatch DEF ItemAt, Request
<1>8. \A i \in DOMAIN Request.items :
          Request.items[i].kind # "text" => <<1, i>> \in Positions(batch)
    BY <1>2, PositionsOfABatch DEF Request
<1> QED BY <1>1, <1>2, <1>3, <1>4, <1>5, <1>6, <1>7, <1>8

(* The rows of a list of images are defined, and RowsOf sums them all.        *)
LEMMA RowsAreSums ==
    ASSUME Typed, NEW list \in Seq(Plans),
           \A k \in DOMAIN list : list[k].at \in Positions(batch)
    PROVE  /\ RowsOf(list) = Rows(list)[Len(list)]
           /\ Rows(list) \in [0..Len(list) -> Nat]
           /\ Rows(list)[0] = 0
           /\ \A k \in 1..Len(list) :
                 Rows(list)[k] = Rows(list)[k - 1] + ItemAt(batch, list[k].at).rows
<1> DEFINE N == Len(list)
           rows(k) == ItemAt(batch, list[k].at).rows
           Upto(u, n) == /\ u \in [0..n -> Nat] /\ u[0] = 0
                         /\ \A k \in 1..n : u[k] = u[k - 1] + rows(k)
           T == {n \in Nat : n <= N => \E u : Upto(u, n)}
<1>1. N \in Nat /\ DOMAIN list = 1..N
    OBVIOUS
<1>2. \A k \in 1..N : rows(k) \in Nat
    BY <1>1, OneRequest, ItemsOfABatch
<1>3. 0 \in T
    <2> DEFINE u == [k \in 0..0 |-> 0]
    <2>1. u \in [0..0 -> Nat] /\ u[0] = 0
        OBVIOUS
    <2>2. Upto(u, 0)
        <3>1. \A k \in 1..0 : FALSE
            OBVIOUS
        <3> HIDE DEF u
        <3> QED BY <2>1, <3>1
    <2> QED BY <2>2
<1> HIDE DEF rows
<1>4. ASSUME NEW n \in Nat, n \in T PROVE n + 1 \in T
    <2> SUFFICES ASSUME n + 1 <= N PROVE \E u : Upto(u, n + 1)
        <3> HIDE DEF Upto
        <3> QED OBVIOUS
    <2>1. PICK u : Upto(u, n)
        BY <1>1, <1>4
    <2>2. rows(n + 1) \in Nat
        BY <1>1, <1>2
    <2> DEFINE w == [k \in 0..(n + 1) |-> IF k <= n THEN u[k] ELSE u[n] + rows(n + 1)]
    <2>3. Upto(w, n + 1)
        <3>1. w \in [0..(n + 1) -> Nat] /\ w[0] = 0
            BY <2>1, <2>2
        <3>2. ASSUME NEW k \in 1..(n + 1) PROVE w[k] = w[k - 1] + rows(k)
            <4>1. CASE k = n + 1
                BY <2>1, <4>1
            <4>2. CASE k \in 1..n
                <5>1. w[k] = u[k] /\ w[k - 1] = u[k - 1]
                    BY <4>2
                <5> QED BY <2>1, <4>2, <5>1
            <4> QED BY <4>1, <4>2
        <3> QED BY <3>1, <3>2
    <2> QED BY <2>3
<1>5. PICK u : Upto(u, N)
    <2> HIDE DEF T
    <2>1. Nat \subseteq T
        BY <1>3, <1>4, NaturalsByInduction
    <2>2. N \in T
        BY <1>1, <2>1
    <2> HIDE DEF Upto
    <2> QED BY <1>1, <2>2 DEF T
<1>6. Sums(u, list)
    <2>1. u = [k \in 0..N |-> IF k = 0 THEN 0 ELSE u[k - 1] + rows(k)]
        <3>1. \A k \in 0..N : u[k] = IF k = 0 THEN 0 ELSE u[k - 1] + rows(k)
            BY <1>1, <1>5
        <3> QED BY <1>5, <3>1
    <2> QED BY <2>1 DEF Sums, rows
<1>7. Sums(Rows(list), list)
    BY <1>6, Zenon DEF Rows
<1>8. RowsOf(list) = Rows(list)[Len(list)]
    BY Zenon DEF RowsOf, Rows, Sums
<1> DEFINE r == Rows(list)
<1>9. /\ DOMAIN r = 0..N
      /\ \A k \in 0..N : r[k] = IF k = 0 THEN 0 ELSE r[k - 1] + rows(k)
      /\ r = [k \in 0..N |-> r[k]]
    <2> HIDE DEF r
    <2>1. r = [k \in 0..N |-> IF k = 0 THEN 0 ELSE r[k - 1] + rows(k)]
        BY <1>7 DEF Sums, rows, r
    <2> QED BY <2>1
<1> HIDE DEF r
<1>10. \A k \in 0..N : r[k] \in Nat
    <2> DEFINE R == {k \in Nat : k <= N => r[k] \in Nat}
    <2>1. 0 \in R
        BY <1>1, <1>9
    <2>2. ASSUME NEW k \in Nat, k \in R PROVE k + 1 \in R
        <3> SUFFICES ASSUME k + 1 <= N PROVE r[k + 1] \in Nat
            OBVIOUS
        <3>1. r[k] \in Nat /\ rows(k + 1) \in Nat
            BY <1>1, <1>2, <2>2
        <3>2. r[k + 1] = r[k] + rows(k + 1)
            <4>1. k + 1 \in 0..N /\ k + 1 # 0 /\ (k + 1) - 1 = k
                BY <1>1
            <4> QED BY <1>9, <4>1
        <3> QED BY <3>1, <3>2
    <2> HIDE DEF R
    <2>3. Nat \subseteq R
        BY <2>1, <2>2, NaturalsByInduction
    <2> QED BY <1>1, <2>3 DEF R
<1>11. r[0] = 0 /\ \A k \in 1..N : r[k] = r[k - 1] + rows(k)
    <2>1. 0 \in 0..N /\ \A k \in 1..N : k \in 0..N /\ k # 0
        BY <1>1
    <2> QED BY <1>9, <2>1
<1>12. r \in [0..N -> Nat]
    BY <1>9, <1>10
<1> QED BY <1>8, <1>11, <1>12 DEF r, rows

(* The failures of some occurrences, one more considered.                     *)
LEMMA OneMoreHeader ==
    ASSUME NEW b, NEW P, NEW p
    PROVE  ErrorsAt(b, P \cup {p}, HeaderVerdict) =
              ErrorsAt(b, P, HeaderVerdict) \cup
                  (IF HeaderVerdict(ItemAt(b, p)) = OkVerdict THEN {}
                   ELSE {Error(HeaderVerdict(ItemAt(b, p)), OccurrenceIndex(b, p))})
BY Zenon DEF ErrorsAt

(* The same of execution.                                                     *)
LEMMA OneMoreExecution ==
    ASSUME NEW b, NEW P, NEW p
    PROVE  ErrorsAt(b, P \cup {p}, ExecutionVerdict) =
              ErrorsAt(b, P, ExecutionVerdict) \cup
                  (IF ExecutionVerdict(ItemAt(b, p)) = OkVerdict THEN {}
                   ELSE {Error(ExecutionVerdict(ItemAt(b, p)), OccurrenceIndex(b, p))})
BY Zenon DEF ErrorsAt

(* The occurrences before the item at hand are those passed.                  *)
LEMMA PassedIsCounted ==
    ASSUME Typed
    PROVE  /\ IsFiniteSet(Passed) /\ Cardinality(Passed) \in Nat
           /\ Passed \subseteq Positions(batch)
           /\ item = 1 => Passed = {}
           /\ item > Len(Request.items) => Passed = Positions(batch)
           /\ <<1, item>> \in Positions(batch) =>
                 /\ OccurrenceIndex(batch, <<1, item>>) = Cardinality(Passed)
                 /\ <<1, item>> \notin Passed
<1>1. Passed \in SUBSET Positions(batch)
    BY DEF Passed
<1>2. IsFiniteSet(Passed) /\ Cardinality(Passed) \in Nat
    BY <1>1, PositionsAreFinite, OneRequest, FS_Subset, FS_CardinalityType
<1>3. \A p \in Positions(batch) :
          /\ p[1] = 1 /\ p[2] \in Nat /\ p[2] >= 1 /\ p[2] <= Len(Request.items)
    BY OneRequest
<1>4. item = 1 => Passed = {}
    BY <1>3 DEF Passed
<1>5. item > Len(Request.items) => Passed = Positions(batch)
    BY <1>3, OneRequest DEF Passed, Typed
<1>6. ASSUME <<1, item>> \in Positions(batch)
      PROVE  /\ OccurrenceIndex(batch, <<1, item>>) = Cardinality(Passed)
             /\ <<1, item>> \notin Passed
    <2>1. \A p \in Positions(batch) : Precedes(p, <<1, item>>) <=> p[2] < item
        BY <1>3 DEF Precedes, Typed
    <2>2. {p \in Positions(batch) : Precedes(p, <<1, item>>)} = Passed
        BY <2>1 DEF Passed
    <2>3. <<1, item>> \notin Passed
        BY DEF Passed, Typed
    <2> QED BY <2>2, <2>3 DEF OccurrenceIndex
<1> QED BY <1>1, <1>2, <1>4, <1>5, <1>6

(* Every image whose header planned is in the list of planned images, once    *)
(* the headers are behind, and the list holds no other.                       *)
LEMMA PlannedAreTheClean ==
    ASSUME Inv, phase \in {"headers", "execute"}, item > Len(Request.items)
    PROVE  /\ {planned[k].at : k \in DOMAIN planned}
                 = PlannedCleanly(batch, "image", HeaderVerdict)
           /\ OfKind(batch, "image") = Positions(batch)
           /\ PlannedCleanly(batch, "image", HeaderVerdict)
                 = {p \in Positions(batch) : HeaderVerdict(ItemAt(batch, p)) = OkVerdict}
<1>1. Passed = Positions(batch)
    BY PassedIsCounted DEF Inv
<1>2. OfKind(batch, "image") = Positions(batch)
    <2>1. OfKind(batch, "video") = {}
        BY DEF Inv, PhasesHold
    <2> QED BY <2>1, OneRequest DEF OfKind, Inv
<1>3. PlannedCleanly(batch, "image", HeaderVerdict)
          = {p \in Positions(batch) : HeaderVerdict(ItemAt(batch, p)) = OkVerdict}
    BY <1>2, Zenon DEF PlannedCleanly
<1>4. /\ \A k \in DOMAIN planned :
            /\ planned[k].at \in Positions(batch)
            /\ HeaderVerdict(ItemAt(batch, planned[k].at)) = OkVerdict
      /\ \A p \in Positions(batch) : HeaderVerdict(ItemAt(batch, p)) = OkVerdict =>
            \E k \in DOMAIN planned : planned[k].at = p
    BY <1>1, <1>2 DEF Inv, HeadersHold
<1> QED BY <1>2, <1>3, <1>4

-------------------------------------------------------------------------------
(* A stage is passed, or one answer is given: where admission refuses, its    *)
(* failure is the one that the request determines.                            *)
LEMMA AdmitAnswers ==
    ASSUME Inv, Admit
    PROVE  \/ /\ phase' = "headers" /\ result' = result
              /\ AdmissionFailures(batch) = {} /\ OfKind(batch, "video") = {}
           \/ \E c \in Verdicts \ {OkVerdict, "MediaGeometry"}, n \in Nat :
                 /\ Fail(Error(c, n))
                 /\ \/ AdmissionFailures(batch) = {Error(c, n)}
                    \/ /\ AdmissionFailures(batch) = {}
                       /\ OfKind(batch, "video") # {}
                       /\ Error(c, n) = Error("UnsupportedMedia", 0)
<1> USE DEF Inv
<1>1. /\ DOMAIN batch.requests = {1} /\ batch.requests # <<>>
      /\ Request = batch.requests[1]
      /\ {Rejection(Request), Request.options, batch.resources, batch.text}
             \subseteq Verdicts
      /\ {Rejection(Request), Request.options, batch.resources, batch.text}
             \cap {"MediaGeometry"} = {}
    BY OneRequest DEF Request
<1>2. FirstOf({1}) = 1
    BY FirstIsUnique
<1>3. CASE Rejection(Request) # OkVerdict
    <2>1. Unrendered(batch) = {1}
        BY <1>1, <1>3 DEF Unrendered, Rejection
    <2>2. AdmissionFailures(batch) = {Error(Rejection(Request), 1)}
        BY <1>1, <1>2, <2>1 DEF AdmissionFailures
    <2>3. Fail(Error(Rejection(Request), 1))
        BY <1>3 DEF Admit
    <2> QED BY <1>1, <1>3, <2>2, <2>3
<1>4. CASE Rejection(Request) = OkVerdict /\ Request.options # OkVerdict
    <2>1. Unrendered(batch) = {} /\ UnsupportedOptions(batch) = {1}
        BY <1>1, <1>4 DEF Unrendered, Rejection, UnsupportedOptions
    <2>2. AdmissionFailures(batch) = {Error(Request.options, 1)}
        BY <1>1, <1>2, <2>1 DEF AdmissionFailures
    <2>3. Fail(Error(Request.options, 1))
        BY <1>4 DEF Admit
    <2> QED BY <1>1, <1>4, <2>2, <2>3
<1>5. CASE Rejection(Request) = OkVerdict /\ Request.options = OkVerdict
    <2>1. Unrendered(batch) = {} /\ UnsupportedOptions(batch) = {}
        BY <1>1, <1>5 DEF Unrendered, Rejection, UnsupportedOptions
    <2>2. AdmissionFailures(batch) = IF batch.resources # OkVerdict
                                     THEN {Error(batch.resources, 0)} ELSE {}
        BY <1>1, <2>1 DEF AdmissionFailures
    <2>3. CASE batch.resources # OkVerdict
        <3>1. Fail(Error(batch.resources, 0))
            BY <1>5, <2>3 DEF Admit
        <3> QED BY <1>1, <2>2, <2>3, <3>1
    <2>4. CASE batch.resources = OkVerdict /\ OfKind(batch, "video") # {}
        <3>1. Fail(Error("UnsupportedMedia", 0))
            BY <1>5, <2>4 DEF Admit
        <3>2. "UnsupportedMedia" \in Verdicts \ {OkVerdict, "MediaGeometry"}
            BY DEF Verdicts, Categories, OkVerdict
        <3> QED BY <2>2, <2>4, <3>1, <3>2
    <2>5. CASE batch.resources = OkVerdict /\ OfKind(batch, "video") = {}
        BY <1>5, <2>2, <2>5 DEF Admit, MoveTo
    <2> QED BY <2>3, <2>4, <2>5
<1> QED BY <1>3, <1>4, <1>5

(* A text plan exists exactly when no header failed and every image has a     *)
(* geometry.                                                                  *)
LEMMA GeometryIsPlanned ==
    ASSUME Inv, phase = "headers", item > Len(Request.items)
    PROVE  /\ WithGeometry \in Seq(Plans)
           /\ \A k \in DOMAIN WithGeometry : WithGeometry[k].at \in Positions(batch)
           /\ AllGeometryValid <=> Headers = {} /\ EveryGeometry
           /\ EveryGeometry => WithGeometry = planned
           /\ ErrorsIn(mediaErrors) = Headers
<1> DEFINE places == {k \in DOMAIN planned :
                         ItemAt(batch, planned[k].at).geometry = OkVerdict}
<1>1. planned \in Seq(Plans) /\ DOMAIN planned = 1..Len(planned)
    BY DEF Inv, Typed
<1>2. WithGeometry \in Seq(Plans)
    BY <1>1, SelectedListsThePlaces DEF WithGeometry
<1>3. PICK f : Lists(f, WithGeometry, planned, places, Len(planned))
    BY <1>1, SelectedListsThePlaces DEF WithGeometry
<1>4. \A k \in DOMAIN WithGeometry :
          \E j \in DOMAIN planned :
             /\ WithGeometry[k] = planned[j]
             /\ ItemAt(batch, planned[j].at).geometry = OkVerdict
    <2>1. DOMAIN WithGeometry = 1..Len(WithGeometry)
        BY <1>2
    <2> QED BY <1>3, <2>1 DEF Lists
<1>5. \A k \in DOMAIN WithGeometry : WithGeometry[k].at \in Positions(batch)
    BY <1>4 DEF Inv, HeadersHold, OfKind
<1>6. EveryGeometry => WithGeometry = planned
    <2> SUFFICES ASSUME EveryGeometry PROVE WithGeometry = planned
        OBVIOUS
    <2>1. DOMAIN planned \subseteq places
        BY DEF EveryGeometry
    <2> QED BY <1>1, <2>1, SelectedWhole DEF WithGeometry
<1>7. WithGeometry = planned => EveryGeometry
    BY <1>4 DEF EveryGeometry
<1>8. ErrorsIn(mediaErrors) = Headers
    <2>1. Passed = Positions(batch)
        BY PassedIsCounted DEF Inv
    <2> QED BY <2>1 DEF Inv, FailuresHold, Headers
<1>9. mediaErrors = <<>> <=> Headers = {}
    <2>1. mediaErrors \in Seq(Errors)
        BY DEF Inv, Typed
    <2>2. mediaErrors = <<>> <=> DOMAIN mediaErrors = {}
        BY <2>1
    <2> QED BY <1>8, <2>2 DEF ErrorsIn
<1> QED BY <1>2, <1>5, <1>6, <1>7, <1>8, <1>9 DEF AllGeometryValid

(* What headers and geometries say together is what planning says.            *)
LEMMA PlanningOfHeaders ==
    ASSUME Inv, phase \in {"headers", "execute"}, item > Len(Request.items)
    PROVE  Headers = {} /\ EveryGeometry
              <=> ErrorsAt(batch, Positions(batch), PlanningVerdict) = {}
<1>1. ErrorsAt(batch, Positions(batch), PlanningVerdict) = {}
          <=> \A p \in Positions(batch) : PlanningVerdict(ItemAt(batch, p)) = OkVerdict
    BY Zenon DEF ErrorsAt
<1>2. Headers = {}
          <=> \A p \in Positions(batch) : HeaderVerdict(ItemAt(batch, p)) = OkVerdict
    BY Zenon DEF ErrorsAt, Headers
<1>3. \A p \in Positions(batch) : HeaderVerdict(ItemAt(batch, p)) = OkVerdict =>
          \E k \in DOMAIN planned : planned[k].at = p
    <2>1. Passed = Positions(batch)
        BY PassedIsCounted DEF Inv
    <2> QED BY <2>1 DEF Inv, HeadersHold
<1>4. \A k \in DOMAIN planned : planned[k].at \in Positions(batch)
    BY DEF Inv, HeadersHold, OfKind
<1>5. (\A p \in Positions(batch) : HeaderVerdict(ItemAt(batch, p)) = OkVerdict) =>
          (EveryGeometry <=>
              \A p \in Positions(batch) : ItemAt(batch, p).geometry = OkVerdict)
    BY <1>3, <1>4 DEF EveryGeometry
<1>6. \A p : PlanningVerdict(ItemAt(batch, p)) = OkVerdict
          <=> /\ HeaderVerdict(ItemAt(batch, p)) = OkVerdict
              /\ ItemAt(batch, p).geometry = OkVerdict
    BY DEF PlanningVerdict, HeaderVerdict
<1> QED BY <1>1, <1>2, <1>5, <1>6

(* Headers, then outputs: the first failure that the request determines is    *)
(* the answer, or execution is entered with what it relies on.                *)
LEMMA OutputsAnswer ==
    ASSUME Inv, PlanOutputs
    PROVE  /\ ErrorsIn(mediaErrors) = Headers
           /\ \/ /\ Predecode(Headers) # {}
                 /\ Preferred(Predecode(Headers)) \in Predecode(Headers)
                 /\ Preferred(Predecode(Headers)) \in Errors
                 /\ Fail(Preferred(Predecode(Headers)))
                 /\ textPlanned' = textPlanned
              \/ /\ Predecode(Headers) = {} /\ Headers = {} /\ EveryGeometry
                 /\ batch.text \in Verdicts \ {OkVerdict, "MediaGeometry"}
                 /\ Fail(Error(batch.text, 0))
                 /\ textPlanned' = textPlanned
              \/ /\ Predecode(Headers) = {}
                 /\ phase' = "execute" /\ result' = result
                 /\ textPlanned' \in BOOLEAN
                 /\ textPlanned' <=> Headers = {} /\ EveryGeometry
                 /\ Headers = {} /\ EveryGeometry => batch.text = OkVerdict
<1>1. phase = "headers" /\ item > Len(Request.items)
    BY DEF PlanOutputs
<1>2. ErrorsIn(mediaErrors) = Headers /\ PredecodeErrors(mediaErrors) = Predecode(Headers)
    BY <1>1, GeometryIsPlanned DEF PredecodeErrors, Predecode
<1>3. AllGeometryValid <=> Headers = {} /\ EveryGeometry
    BY <1>1, GeometryIsPlanned
<1>4. CASE Predecode(Headers) # {}
    <2>1. Fail(PreferredPredecodeError(mediaErrors)) /\ textPlanned' = textPlanned
        BY <1>2, <1>4 DEF PlanOutputs
    <2>2. Predecode(Headers) \in SUBSET Errors
        <3>1. ErrorsIn(mediaErrors) \in SUBSET Errors
            BY DEF Inv, Typed, ErrorsIn
        <3> QED BY <1>2, <3>1 DEF Predecode
    <2> QED BY <1>2, <1>4, <2>1, <2>2, PreferredIsUnbeaten DEF PreferredPredecodeError
<1>5. CASE Predecode(Headers) = {} /\ AllGeometryValid /\ batch.text # OkVerdict
    <2>1. Fail(Error(batch.text, 0)) /\ textPlanned' = textPlanned
        BY <1>2, <1>5 DEF PlanOutputs
    <2>2. batch.text \in Verdicts \ {OkVerdict, "MediaGeometry"}
        BY <1>5, OneRequest DEF Inv
    <2> QED BY <1>2, <1>3, <1>5, <2>1, <2>2
<1>6. CASE Predecode(Headers) = {} /\ ~(AllGeometryValid /\ batch.text # OkVerdict)
    <2>1. MoveTo("execute") /\ textPlanned' = AllGeometryValid
        BY <1>2, <1>6 DEF PlanOutputs
    <2>2. AllGeometryValid \in BOOLEAN
        BY DEF AllGeometryValid
    <2> QED BY <1>2, <1>3, <1>6, <2>1, <2>2 DEF MoveTo
<1> QED BY <1>4, <1>5, <1>6

(* The rows end where the last image does, or nowhere yet.                    *)
LEMMA RowEndIsANumber ==
    ASSUME Typed
    PROVE  RowEnd \in Nat
<1>1. processed # <<>> => processed[Len(processed)] \in Images
    BY DEF Typed
<1> QED BY <1>1 DEF RowEnd, Images

(* The image to execute next.                                                 *)
LEMMA NextImage ==
    ASSUME Inv, ExecuteImage
    PROVE  /\ next \in DOMAIN planned /\ planned[next] \in Plans
           /\ planned[next].at \in OfKind(batch, "image")
           /\ planned[next].at \in Positions(batch)
           /\ planned[next].place = OccurrenceIndex(batch, planned[next].at)
           /\ OccurrenceIndex(batch, planned[next].at) \in Nat
           /\ ItemAt(batch, planned[next].at).rows \in Nat
           /\ Executed(ItemAt(batch, planned[next].at)) \in Verdicts
           /\ Executed(ItemAt(batch, planned[next].at))
                 = ExecutionVerdict(ItemAt(batch, planned[next].at))
<1>1. /\ next \in DOMAIN planned /\ planned[next] \in Plans
      /\ planned[next].at \in OfKind(batch, "image")
      /\ planned[next].place = OccurrenceIndex(batch, planned[next].at)
    BY DEF ExecuteImage, Inv, Typed, HeadersHold
<1>2. planned[next].at \in Positions(batch)
    BY <1>1 DEF OfKind
<1>3. ItemAt(batch, planned[next].at) \in Items
    BY <1>2, OneRequest DEF Inv
<1>4. /\ ItemAt(batch, planned[next].at).rows \in Nat
      /\ ExecutionVerdict(ItemAt(batch, planned[next].at)) \in Verdicts
    BY <1>3 DEF Items, ExecutionVerdict
<1>5. OccurrenceIndex(batch, planned[next].at) \in Nat
    BY <1>2, OneRequest, OccurrenceIndexGrows DEF Inv
<1>6. \A it : Executed(it) = ExecutionVerdict(it)
    BY DEF Executed
<1> HIDE DEF Inv
<1> QED BY <1>1, <1>2, <1>4, <1>5, <1>6

(* Composition answers with the failure preferred among those of headers and  *)
(* executions, or prepares: its own checks never fire.                        *)
LEMMA ChecksAgree ==
    ASSUME Inv, phase = "execute", next > Len(planned)
    PROVE  /\ Done = PlannedCleanly(batch, "image", HeaderVerdict)
           /\ ErrorsIn(mediaErrors)
                 = Headers \cup ErrorsAt(batch, Done, ExecutionVerdict)
           /\ mediaErrors = <<>> <=> ErrorsIn(mediaErrors) = {}
           /\ mediaErrors = <<>> => Agreement
<1>1. item > Len(Request.items) /\ planned \in Seq(Plans)
    BY DEF Inv, PhasesHold, Typed
<1>2. Done = PlannedCleanly(batch, "image", HeaderVerdict)
    <2>1. \A j \in DOMAIN planned : j < next
        BY <1>1 DEF Inv, Typed
    <2>2. Done = {planned[k].at : k \in DOMAIN planned}
        BY <2>1 DEF Done
    <2> QED BY <1>1, <2>2, PlannedAreTheClean
<1>3. ErrorsIn(mediaErrors) = Headers \cup ErrorsAt(batch, Done, ExecutionVerdict)
    BY DEF Inv, FailuresHold
<1>4. mediaErrors = <<>> <=> ErrorsIn(mediaErrors) = {}
    <2>1. mediaErrors \in Seq(Errors)
        BY DEF Inv, Typed
    <2>2. mediaErrors = <<>> <=> DOMAIN mediaErrors = {}
        BY <2>1
    <2> QED BY <2>2 DEF ErrorsIn
<1>5. ASSUME mediaErrors = <<>> PROVE Agreement
    <2>1. Headers = {} /\ ErrorsAt(batch, Done, ExecutionVerdict) = {}
        BY <1>3, <1>4, <1>5
    <2>2. \A p \in Done : ExecutionVerdict(ItemAt(batch, p)) = OkVerdict
        BY <2>1, Zenon DEF ErrorsAt
    <2>3. \A p : ExecutionVerdict(ItemAt(batch, p)) = OkVerdict =>
              ItemAt(batch, p).geometry = OkVerdict
        BY DEF ExecutionVerdict
    <2>4. EveryGeometry
        <3>1. \A k \in DOMAIN planned : planned[k].at \in Done
            BY <1>1 DEF Inv, Typed, Done
        <3> QED BY <2>2, <2>3, <3>1 DEF EveryGeometry
    <2>5. /\ textPlanned /\ nextPixelRow = Rows(planned)[Len(planned)]
          /\ Len(visuals) = Len(planned) /\ Len(processed) = next - 1
          /\ RowEnd = Rows(planned)[next - 1]
        BY <1>5, <2>1, <2>4 DEF Inv, ExecutionHolds
    <2>6. next - 1 = Len(planned)
        BY <1>1 DEF Inv, Typed
    <2> QED BY <2>5, <2>6 DEF Agreement
<1> QED BY <1>2, <1>3, <1>4, <1>5

(* The answer of composition.                                                 *)
LEMMA CompositionAnswers ==
    ASSUME Inv, Compose
    PROVE  IF mediaErrors = <<>>
           THEN phase' = "done" /\ result' = Prepared
           ELSE /\ Fail(Preferred(ErrorsIn(mediaErrors)))
                /\ Preferred(ErrorsIn(mediaErrors)) \in Errors
                /\ \A e \in ErrorsIn(mediaErrors) :
                      ~Beats(e, Preferred(ErrorsIn(mediaErrors)))
<1>1. /\ phase = "execute" /\ next > Len(planned)
      /\ IF mediaErrors # <<>> THEN Fail(SelectPreferredError(mediaErrors))
         ELSE IF ~Agreement THEN Fail(Error("InternalInvariant", 0))
         ELSE phase' = "done" /\ result' = Prepared
    BY DEF Compose
<1>2. CASE mediaErrors = <<>>
    BY <1>1, <1>2, ChecksAgree
<1>3. CASE mediaErrors # <<>>
    <2>1. ErrorsIn(mediaErrors) \in SUBSET Errors
        BY DEF Inv, Typed, ErrorsIn
    <2>2. ErrorsIn(mediaErrors) # {}
        BY <1>1, <1>3, ChecksAgree
    <2>3. Fail(Preferred(ErrorsIn(mediaErrors)))
        BY <1>1, <1>3 DEF SelectPreferredError
    <2> QED BY <1>3, <2>1, <2>2, <2>3, PreferredIsUnbeaten
<1> QED BY <1>2, <1>3

-------------------------------------------------------------------------------
(* A step leaves every variable in its type, and answers when it is done.     *)
LEMMA TypedIsPreserved ==
    ASSUME Inv, Step
    PROVE  Typed' /\ (phase' # "done" <=> result' = Pending)
<1> USE DEF Inv
<1>0. /\ phase # "done" /\ result = Pending
      /\ Prepared \in Results /\ Prepared # Pending
    <2>1. Prepared \in Results /\ Prepared # Pending
        BY DEF Prepared, Results, Pending, NoError, Error, Errors, Categories
    <2>2. phase # "done"
        BY DEF Step, Admit, SkipText, PlanHeader, PlanOutputs, ExecuteImage, Compose
    <2> QED BY <2>1, <2>2 DEF PhasesHold
<1>a. ASSUME NEW e \in Errors, Fail(e)
      PROVE  /\ phase' = "done" /\ result' \in Results
             /\ phase' # "done" <=> result' = Pending
    BY <1>a, FailureOfAnError DEF Fail
<1>b. Len(Request.items) \in Nat /\ DOMAIN Request.items = 1..Len(Request.items)
    BY OneRequest
<1>1. CASE Admit
    <2>1. /\ phase' \in {"headers", "done"} /\ result' \in Results
          /\ phase' # "done" <=> result' = Pending
        <3>1. ASSUME NEW c \in Verdicts \ {OkVerdict, "MediaGeometry"}, NEW n \in Nat,
                     Fail(Error(c, n))
              PROVE  /\ phase' \in {"headers", "done"} /\ result' \in Results
                     /\ phase' # "done" <=> result' = Pending
            BY <1>a, <3>1, FailuresAreResults
        <3>2. CASE phase' = "headers" /\ result' = result
            BY <1>0, <3>2 DEF Typed
        <3> QED BY <1>1, <3>1, <3>2, AdmitAnswers
    <2>2. UNCHANGED <<batch, item, occurrence, planned, mediaErrors, visuals,
                      textPlanned, nextPixelRow, next, processed>>
        BY <1>1 DEF Admit
    <2> QED BY <2>1, <2>2 DEF Typed, Request
<1>2. CASE SkipText
    <2>1. item' = item + 1 /\ item \in 1..Len(Request.items)
        BY <1>2, <1>b DEF SkipText
    <2> QED BY <1>0, <1>2, <1>b, <2>1 DEF SkipText, Typed, Request
<1>3. CASE PlanHeader
    <2>1. /\ item \in 1..Len(Request.items) /\ Item.kind = "image"
          /\ item' = item + 1 /\ occurrence' = occurrence + 1
          /\ UNCHANGED <<batch, phase, visuals, textPlanned, nextPixelRow, next,
                         processed, result>>
        BY <1>3, <1>b DEF PlanHeader
    <2>2. Item \in Items
        BY <1>b, <2>1, OneRequest DEF Item
    <2>3. HeaderVerdict(Item) \in Verdicts
        BY <2>2 DEF HeaderVerdict, Items
    <2>4. HeaderErrors(Item) \in Seq(Errors)
        <3>1. HeaderVerdict(Item) # OkVerdict =>
                  Error(HeaderVerdict(Item), occurrence) \in Errors
            BY <2>3, FailuresAreResults DEF Typed
        <3> QED BY <3>1 DEF HeaderErrors
    <2>5. mediaErrors' \in Seq(Errors)
        BY <1>3, <2>4, ConcatProperties DEF PlanHeader, Typed
    <2>6. [place |-> occurrence, at |-> <<1, item>>] \in Plans
        BY DEF Typed, Plans
    <2>7. planned' \in Seq(Plans) /\ Len(planned') >= Len(planned)
        BY <1>3, <2>6 DEF PlanHeader, Typed
    <2> QED BY <1>0, <1>b, <2>1, <2>5, <2>7 DEF Typed, Request
<1>4. CASE PlanOutputs
    <2>1. /\ phase = "headers" /\ item > Len(Request.items)
          /\ nextPixelRow' = RowsOf(WithGeometry)
          /\ UNCHANGED <<batch, item, occurrence, planned, mediaErrors, next,
                         processed>>
        BY <1>4 DEF PlanOutputs
    <2>2. nextPixelRow' \in Nat
        <3>1. /\ WithGeometry \in Seq(Plans) /\ Len(WithGeometry) \in Nat
              /\ \A k \in DOMAIN WithGeometry :
                    WithGeometry[k].at \in Positions(batch)
            BY <2>1, GeometryIsPlanned
        <3>2. /\ RowsOf(WithGeometry) = Rows(WithGeometry)[Len(WithGeometry)]
              /\ Rows(WithGeometry) \in [0..Len(WithGeometry) -> Nat]
            BY <3>1, RowsAreSums
        <3> QED BY <2>1, <3>1, <3>2
    <2>3. /\ phase' \in {"execute", "done"} /\ result' \in Results
          /\ phase' # "done" <=> result' = Pending
          /\ textPlanned' \in BOOLEAN
        <3>1. ASSUME NEW e \in Errors, Fail(e), textPlanned' = textPlanned
              PROVE  /\ phase' \in {"execute", "done"} /\ result' \in Results
                     /\ phase' # "done" <=> result' = Pending
                     /\ textPlanned' \in BOOLEAN
            BY <1>a, <3>1 DEF Typed
        <3>2. batch.text \in Verdicts \ {OkVerdict, "MediaGeometry"} =>
                  Error(batch.text, 0) \in Errors
            BY FailuresAreResults
        <3>3. CASE /\ phase' = "execute" /\ result' = result
                   /\ textPlanned' \in BOOLEAN
            BY <1>0, <3>3 DEF Typed
        <3> QED BY <1>4, <3>1, <3>2, <3>3, OutputsAnswer
    <2> QED BY <2>1, <2>2, <2>3 DEF Typed, Request
<1>5. CASE ExecuteImage
    <2>1. /\ next' = next + 1
          /\ UNCHANGED <<batch, phase, item, occurrence, planned, visuals,
                         textPlanned, nextPixelRow, result>>
        BY <1>5 DEF ExecuteImage
    <2>2. next \in 1..Len(planned)
        BY <1>5, NextImage DEF Typed
    <2>3. processed' \in Seq(Images) /\ mediaErrors' \in Seq(Errors)
        <3>1. CASE Executed(ItemAt(batch, planned[next].at)) = OkVerdict
            <4>1. /\ processed' = Append(processed,
                        [at |-> planned[next].at, start |-> RowEnd,
                         end |-> RowEnd + ItemAt(batch, planned[next].at).rows])
                  /\ UNCHANGED mediaErrors
                BY <1>5, <3>1 DEF ExecuteImage
            <4>2. /\ RowEnd + ItemAt(batch, planned[next].at).rows \in Nat
                  /\ RowEnd \in Nat
                  /\ planned[next].at \in (Nat \ {0}) \X (Nat \ {0})
                BY <1>5, NextImage, RowEndIsANumber DEF Plans
            <4>3. [at |-> planned[next].at, start |-> RowEnd,
                   end |-> RowEnd + ItemAt(batch, planned[next].at).rows] \in Images
                BY <4>2 DEF Images
            <4> QED BY <4>1, <4>3 DEF Typed
        <3>2. CASE Executed(ItemAt(batch, planned[next].at)) # OkVerdict
            <4>1. /\ mediaErrors' = Append(mediaErrors,
                        Error(Executed(ItemAt(batch, planned[next].at)),
                              planned[next].place))
                  /\ UNCHANGED processed
                BY <1>5, <3>2 DEF ExecuteImage
            <4>2. Error(Executed(ItemAt(batch, planned[next].at)),
                        planned[next].place) \in Errors
                BY <1>5, <3>2, NextImage, FailuresAreResults
            <4> QED BY <4>1, <4>2 DEF Typed
        <3> QED BY <3>1, <3>2
    <2> QED BY <1>0, <2>1, <2>2, <2>3 DEF Typed, Request
<1>6. CASE Compose
    <2>1. /\ phase' = "done" /\ result' \in Results
          /\ phase' # "done" <=> result' = Pending
        BY <1>0, <1>6, <1>a, CompositionAnswers
    <2> QED BY <1>6, <2>1 DEF Compose, Typed, Request
<1> QED BY <1>1, <1>2, <1>3, <1>4, <1>5, <1>6 DEF Step

(* What each phase finds holds when the phase is entered.                     *)
LEMMA PhasesArePreserved ==
    ASSUME Inv, Step
    PROVE  PhasesHold'
<1> USE DEF Inv
<1>0. phase' # "done" <=> result' = Pending
    BY TypedIsPreserved
<1>1. CASE Admit
    <2>1. \/ /\ phase' = "headers"
             /\ AdmissionFailures(batch) = {} /\ OfKind(batch, "video") = {}
          \/ phase' = "done"
        BY <1>1, AdmitAnswers DEF Fail
    <2>2. /\ UNCHANGED <<batch, item, next, processed>>
          /\ next = 1 /\ processed = <<>>
        BY <1>1 DEF Admit, PhasesHold
    <2> QED BY <1>0, <2>1, <2>2 DEF PhasesHold, AdmissionFailures, OfKind
<1>2. CASE SkipText \/ PlanHeader
    <2>1. /\ UNCHANGED <<batch, phase, next, processed>> /\ phase = "headers"
        BY <1>2 DEF SkipText, PlanHeader
    <2> QED BY <1>0, <2>1 DEF PhasesHold
<1>3. CASE PlanOutputs
    <2>1. /\ UNCHANGED <<batch, item, next, processed>> /\ phase = "headers"
          /\ item > Len(Request.items) /\ phase' \in {"execute", "done"}
        BY <1>3, OutputsAnswer DEF PlanOutputs, Fail
    <2> QED BY <1>0, <2>1 DEF PhasesHold, Request
<1>4. CASE ExecuteImage
    <2>1. UNCHANGED <<batch, phase, item>> /\ phase = "execute"
        BY <1>4 DEF ExecuteImage
    <2> QED BY <1>0, <2>1 DEF PhasesHold, Request
<1>5. CASE Compose
    <2>1. phase' = "done"
        BY <1>5, CompositionAnswers DEF Fail
    <2> QED BY <1>0, <2>1 DEF PhasesHold
<1> QED BY <1>1, <1>2, <1>3, <1>4, <1>5 DEF Step

(* An item left behind is text, or is the image now passed.                   *)
LEMMA PassingAnItem ==
    ASSUME Typed, item \in DOMAIN Request.items, item' = item + 1, batch' = batch
    PROVE  /\ Item.kind = "text" => Passed' = Passed
           /\ Item.kind # "text" =>
                 /\ Passed' = Passed \cup {<<1, item>>}
                 /\ <<1, item>> \in Positions(batch) /\ <<1, item>> \notin Passed
                 /\ ItemAt(batch, <<1, item>>) = Item
<1>1. \A p \in Positions(batch) :
          /\ p = <<1, p[2]>> /\ p[2] \in Nat /\ Request.items[p[2]].kind # "text"
    <2>1. \A p \in Positions(batch) : ItemAt(batch, p) = Request.items[p[2]]
        BY OneRequest
    <2> QED BY <2>1, OneRequest
<1>2. item \in Nat
    BY DEF Typed
<1>3. \A p \in Positions(batch) : p[2] < item' <=> p[2] < item \/ p = <<1, item>>
    BY <1>1, <1>2
<1>4. Item.kind # "text" => <<1, item>> \in Positions(batch)
    BY OneRequest DEF Item
<1>5. Item.kind = "text" => <<1, item>> \notin Positions(batch)
    BY <1>1 DEF Item
<1>6. <<1, item>> \notin Passed
    BY <1>2 DEF Passed
<1>7. ItemAt(batch, <<1, item>>) = Item
    BY DEF ItemAt, Item, Request
<1>8. Passed' = {p \in Positions(batch) : p[2] < item'}
    BY DEF Passed
<1> QED BY <1>3, <1>4, <1>5, <1>6, <1>7, <1>8 DEF Passed

(* Every occurrence passed is counted, and is planned or has failed.          *)
LEMMA HeadersArePreserved ==
    ASSUME Inv, Step
    PROVE  HeadersHold'
<1> USE DEF Inv
<1>1. CASE UNCHANGED <<batch, item, occurrence, planned>>
    BY <1>1 DEF HeadersHold, Passed
<1>2. CASE SkipText
    <2>1. Passed' = Passed
        BY <1>2, PassingAnItem DEF SkipText
    <2>2. UNCHANGED <<batch, occurrence, planned>>
        BY <1>2 DEF SkipText
    <2>3. UNCHANGED <<batch, occurrence, planned, Passed>>
        BY <2>1, <2>2
    <2> QED BY <2>3 DEF HeadersHold
<1>3. CASE PlanHeader
    <2> DEFINE p == <<1, item>>
    <2>1. /\ batch' = batch /\ occurrence' = occurrence + 1 /\ item' = item + 1
          /\ item \in DOMAIN Request.items /\ Item.kind = "image"
          /\ planned' = IF HeaderVerdict(Item) = OkVerdict
                        THEN Append(planned, [place |-> occurrence, at |-> p])
                        ELSE planned
        BY <1>3 DEF PlanHeader
    <2>2. /\ Passed' = Passed \cup {p} /\ p \in Positions(batch) /\ p \notin Passed
          /\ ItemAt(batch, p) = Item /\ p \in OfKind(batch, "image")
        BY <2>1, PassingAnItem DEF OfKind
    <2>3. /\ occurrence = Cardinality(Passed) /\ occurrence \in Nat
          /\ OccurrenceIndex(batch, p) = occurrence
        BY <2>2, PassedIsCounted DEF HeadersHold, Typed
    <2>4. occurrence' = Cardinality(Passed')
        BY <2>1, <2>2, <2>3, PassedIsCounted, FS_AddElement
    <2>5. CASE HeaderVerdict(Item) # OkVerdict
        <3>1. planned' = planned
            BY <2>1, <2>5
        <3> QED BY <2>1, <2>2, <2>4, <2>5, <3>1 DEF HeadersHold
    <2>6. CASE HeaderVerdict(Item) = OkVerdict
        <3> DEFINE n == Len(planned)
        <3>1. /\ n \in Nat /\ DOMAIN planned = 1..n /\ DOMAIN planned' = 1..(n + 1)
              /\ \A k \in 1..n : planned'[k] = planned[k]
              /\ planned'[n + 1] = [place |-> occurrence, at |-> p]
            BY <2>1, <2>6 DEF Typed
        <3>2. \A k \in 1..(n + 1) : k \in 1..n \/ k = n + 1
            BY <3>1
        <3>3. \A k \in 1..(n + 1) :
                  /\ planned'[k].at \in OfKind(batch, "image")
                  /\ planned'[k].at \in Passed'
                  /\ HeaderVerdict(ItemAt(batch, planned'[k].at)) = OkVerdict
                  /\ planned'[k].place = OccurrenceIndex(batch, planned'[k].at)
            <4>1. ASSUME NEW k \in 1..n
                  PROVE  /\ planned'[k].at \in OfKind(batch, "image")
                         /\ planned'[k].at \in Passed'
                         /\ HeaderVerdict(ItemAt(batch, planned'[k].at)) = OkVerdict
                         /\ planned'[k].place = OccurrenceIndex(batch, planned'[k].at)
                BY <2>2, <3>1 DEF HeadersHold
            <4> QED BY <2>2, <2>3, <2>6, <3>1, <3>2, <4>1
        <3>4. \A q \in Passed' : HeaderVerdict(ItemAt(batch, q)) = OkVerdict =>
                  \E k \in 1..(n + 1) : planned'[k].at = q
            <4>1. ASSUME NEW q \in Passed, HeaderVerdict(ItemAt(batch, q)) = OkVerdict
                  PROVE  \E k \in 1..(n + 1) : planned'[k].at = q
                <5>1. PICK k \in DOMAIN planned : planned[k].at = q
                    BY <4>1 DEF HeadersHold
                <5> QED BY <3>1, <5>1
            <4>2. n + 1 \in 1..(n + 1) /\ planned'[n + 1].at = p
                BY <3>1
            <4> QED BY <2>2, <4>1, <4>2
        <3> HIDE DEF n, p
        <3> QED BY <2>1, <2>4, <3>1, <3>3, <3>4 DEF HeadersHold
    <2> QED BY <2>5, <2>6
<1>4. CASE Admit \/ PlanOutputs \/ ExecuteImage \/ Compose
    BY <1>1, <1>4 DEF Admit, PlanOutputs, ExecuteImage, Compose
<1> QED BY <1>2, <1>3, <1>4 DEF Step

(* The failures kept are those of the headers passed and, later, those of the *)
(* images executed.                                                           *)
LEMMA FailuresArePreserved ==
    ASSUME Inv, Step
    PROVE  FailuresHold'
<1> USE DEF Inv
<1>1. CASE Admit
    <2>1. /\ UNCHANGED <<batch, item, mediaErrors>> /\ phase = "admit"
          /\ phase' \in {"headers", "done"}
        BY <1>1, AdmitAnswers DEF Admit, Fail
    <2>2. ErrorsIn(mediaErrors) = ErrorsAt(batch, Passed, HeaderVerdict)
        BY <2>1 DEF FailuresHold
    <2>3. /\ ErrorsIn(mediaErrors)' = ErrorsIn(mediaErrors)
          /\ ErrorsAt(batch, Passed, HeaderVerdict)'
                = ErrorsAt(batch, Passed, HeaderVerdict)
        BY <2>1, Zenon DEF ErrorsIn, ErrorsAt, Passed
    <2> QED BY <2>1, <2>2, <2>3 DEF FailuresHold
<1>2. CASE SkipText
    <2>1. Passed' = Passed
        BY <1>2, PassingAnItem DEF SkipText
    <2>2. UNCHANGED <<batch, phase, mediaErrors>> /\ phase = "headers"
        BY <1>2 DEF SkipText
    <2>3. ErrorsIn(mediaErrors) = ErrorsAt(batch, Passed, HeaderVerdict)
        BY <2>2 DEF FailuresHold
    <2>4. /\ ErrorsIn(mediaErrors)' = ErrorsIn(mediaErrors)
          /\ ErrorsAt(batch, Passed, HeaderVerdict)'
                = ErrorsAt(batch, Passed, HeaderVerdict)
        BY <2>1, <2>2, Zenon DEF ErrorsIn, ErrorsAt
    <2> QED BY <2>2, <2>3, <2>4 DEF FailuresHold
<1>3. CASE PlanHeader
    <2> DEFINE p == <<1, item>>
    <2>1. /\ batch' = batch /\ phase' = phase /\ phase = "headers"
          /\ item' = item + 1 /\ item \in DOMAIN Request.items
          /\ Item.kind = "image" /\ mediaErrors' = mediaErrors \o HeaderErrors(Item)
        BY <1>3 DEF PlanHeader
    <2>2. /\ Passed' = Passed \cup {p} /\ p \in Positions(batch)
          /\ ItemAt(batch, p) = Item
        BY <2>1, PassingAnItem
    <2>3. OccurrenceIndex(batch, p) = occurrence /\ occurrence \in Nat
        BY <2>2, PassedIsCounted DEF HeadersHold, Typed
    <2>4. ErrorsIn(mediaErrors) = ErrorsAt(batch, Passed, HeaderVerdict)
        BY <2>1 DEF FailuresHold
    <2>5. HeaderErrors(Item) \in Seq(Errors)
          /\ ErrorsIn(HeaderErrors(Item)) =
                IF HeaderVerdict(Item) = OkVerdict THEN {}
                ELSE {Error(HeaderVerdict(Item), occurrence)}
        <3>1. Item \in Items
            BY <2>1, OneRequest DEF Item
        <3>2. HeaderVerdict(Item) # OkVerdict =>
                  Error(HeaderVerdict(Item), occurrence) \in Errors
            BY <2>3, <3>1, FailuresAreResults DEF HeaderVerdict, Items
        <3>3. CASE HeaderVerdict(Item) = OkVerdict
            BY <3>3 DEF HeaderErrors, ErrorsIn
        <3>4. CASE HeaderVerdict(Item) # OkVerdict
            <4>1. HeaderErrors(Item) = <<Error(HeaderVerdict(Item), occurrence)>>
                BY <3>4 DEF HeaderErrors
            <4>2. \A e : ErrorsIn(<<e>>) = {e}
                BY DEF ErrorsIn
            <4> QED BY <3>2, <3>4, <4>1, <4>2
        <3> QED BY <3>3, <3>4
    <2>6. ErrorsIn(mediaErrors') = ErrorsIn(mediaErrors) \cup ErrorsIn(HeaderErrors(Item))
        BY <2>1, <2>5, ErrorsOfBoth DEF Typed
    <2>7. ErrorsIn(mediaErrors') = ErrorsAt(batch, Passed \cup {p}, HeaderVerdict)
        <3>1. ErrorsAt(batch, Passed \cup {p}, HeaderVerdict) =
                  ErrorsAt(batch, Passed, HeaderVerdict) \cup
                      (IF HeaderVerdict(ItemAt(batch, p)) = OkVerdict THEN {}
                       ELSE {Error(HeaderVerdict(ItemAt(batch, p)),
                                   OccurrenceIndex(batch, p))})
            BY OneMoreHeader, Zenon
        <3> HIDE DEF p
        <3> QED BY <2>2, <2>3, <2>4, <2>5, <2>6, <3>1, Zenon
    <2>8. /\ ErrorsIn(mediaErrors)' = ErrorsIn(mediaErrors')
          /\ ErrorsAt(batch, Passed, HeaderVerdict)'
                = ErrorsAt(batch, Passed \cup {p}, HeaderVerdict)
        <3> HIDE DEF p
        <3> QED BY <2>1, <2>2, Zenon DEF ErrorsIn, ErrorsAt
    <2> QED BY <2>1, <2>7, <2>8 DEF FailuresHold
<1>4. CASE PlanOutputs
    <2>1. /\ UNCHANGED <<batch, planned, next, mediaErrors>> /\ phase = "headers"
          /\ ErrorsIn(mediaErrors) = Headers /\ phase' \in {"execute", "done"}
          /\ next = 1
        BY <1>4, OutputsAnswer DEF PlanOutputs, Fail, PhasesHold
    <2>2. Done = {}
        BY <2>1 DEF Done, Typed
    <2>3. ErrorsAt(batch, {}, ExecutionVerdict) = {}
        BY Zenon DEF ErrorsAt
    <2>4. ErrorsIn(mediaErrors) = Headers \cup ErrorsAt(batch, Done, ExecutionVerdict)
        BY <2>1, <2>2, <2>3
    <2>5. /\ ErrorsIn(mediaErrors)' = ErrorsIn(mediaErrors) /\ Headers' = Headers
          /\ ErrorsAt(batch, Done, ExecutionVerdict)'
                = ErrorsAt(batch, Done, ExecutionVerdict)
        <3>1. Done' = Done
            BY <2>1 DEF Done
        <3> QED BY <2>1, <3>1, Zenon DEF ErrorsIn, ErrorsAt, Headers
    <2> QED BY <2>1, <2>4, <2>5 DEF FailuresHold
<1>5. CASE ExecuteImage
    <2> DEFINE p == planned[next].at
    <2>1. /\ UNCHANGED <<batch, phase, planned>> /\ phase = "execute"
          /\ next' = next + 1 /\ planned \in Seq(Plans) /\ next \in Nat
          /\ next \in DOMAIN planned /\ planned[next].place = OccurrenceIndex(batch, p)
        BY <1>5, NextImage DEF ExecuteImage, Typed
    <2>2. Done' = Done \cup {p}
        <3>1. \A j \in DOMAIN planned : j < next' <=> j < next \/ j = next
            BY <2>1
        <3>2. Done' = {planned[k].at : k \in {j \in DOMAIN planned : j < next'}}
            BY <2>1 DEF Done
        <3> QED BY <2>1, <3>1, <3>2 DEF Done
    <2>3. ErrorsIn(mediaErrors') = ErrorsIn(mediaErrors) \cup
              (IF ExecutionVerdict(ItemAt(batch, p)) = OkVerdict THEN {}
               ELSE {Error(ExecutionVerdict(ItemAt(batch, p)),
                           OccurrenceIndex(batch, p))})
        <3>a. Executed(ItemAt(batch, p)) = ExecutionVerdict(ItemAt(batch, p))
            BY <1>5, NextImage
        <3>1. CASE ExecutionVerdict(ItemAt(batch, p)) = OkVerdict
            <4>1. mediaErrors' = mediaErrors
                BY <1>5, <3>a, <3>1 DEF ExecuteImage
            <4> QED BY <3>1, <4>1
        <3>2. CASE ExecutionVerdict(ItemAt(batch, p)) # OkVerdict
            <4>1. mediaErrors' = Append(mediaErrors,
                      Error(ExecutionVerdict(ItemAt(batch, p)),
                            OccurrenceIndex(batch, p)))
                BY <1>5, <2>1, <3>a, <3>2 DEF ExecuteImage
            <4>2. Error(ExecutionVerdict(ItemAt(batch, p)),
                        OccurrenceIndex(batch, p)) \in Errors
                BY <1>5, <3>2, NextImage, FailuresAreResults
            <4> QED BY <3>2, <4>1, <4>2, OneMoreListed DEF Typed
        <3> QED BY <3>1, <3>2
    <2>4. ErrorsIn(mediaErrors') =
              Headers \cup ErrorsAt(batch, Done \cup {p}, ExecutionVerdict)
        <3>1. ErrorsIn(mediaErrors) = Headers \cup ErrorsAt(batch, Done, ExecutionVerdict)
            BY <2>1 DEF FailuresHold
        <3>2. ErrorsAt(batch, Done \cup {p}, ExecutionVerdict) =
                  ErrorsAt(batch, Done, ExecutionVerdict) \cup
                      (IF ExecutionVerdict(ItemAt(batch, p)) = OkVerdict THEN {}
                       ELSE {Error(ExecutionVerdict(ItemAt(batch, p)),
                                   OccurrenceIndex(batch, p))})
            BY OneMoreExecution, Zenon
        <3> HIDE DEF p
        <3> QED BY <2>3, <3>1, <3>2
    <2>5. /\ ErrorsIn(mediaErrors)' = ErrorsIn(mediaErrors') /\ Headers' = Headers
          /\ ErrorsAt(batch, Done, ExecutionVerdict)'
                = ErrorsAt(batch, Done \cup {p}, ExecutionVerdict)
        <3> HIDE DEF p
        <3> QED BY <2>1, <2>2, Zenon DEF ErrorsIn, ErrorsAt, Headers
    <2> QED BY <2>1, <2>4, <2>5 DEF FailuresHold
<1>6. CASE Compose
    <2>1. phase' = "done"
        BY <1>6, CompositionAnswers DEF Fail
    <2> QED BY <2>1 DEF FailuresHold
<1> QED BY <1>1, <1>2, <1>3, <1>4, <1>5, <1>6 DEF Step

(* Until a failure, the rows of the images executed follow one another.       *)
LEMMA ExecutionIsPreserved ==
    ASSUME Inv, Step
    PROVE  ExecutionHolds'
<1> USE DEF Inv
<1>1. CASE Admit \/ SkipText \/ PlanHeader \/ Compose
    <2>1. CASE Admit
        BY <2>1, AdmitAnswers DEF Fail, ExecutionHolds
    <2>2. CASE SkipText \/ PlanHeader
        BY <2>2 DEF SkipText, PlanHeader, ExecutionHolds
    <2>3. CASE Compose
        BY <2>3, CompositionAnswers DEF Fail, ExecutionHolds
    <2> QED BY <1>1, <2>1, <2>2, <2>3
<1>2. CASE PlanOutputs
    <2> SUFFICES ASSUME phase' = "execute" PROVE ExecutionHolds'
        BY DEF ExecutionHolds
    <2>1. /\ UNCHANGED <<batch, planned, next, mediaErrors, processed>>
          /\ phase = "headers" /\ item > Len(Request.items)
          /\ next = 1 /\ processed = <<>>
          /\ nextPixelRow' = RowsOf(WithGeometry)
          /\ visuals' = [k \in DOMAIN WithGeometry |-> WithGeometry[k].at]
        BY <1>2 DEF PlanOutputs, PhasesHold
    <2>2. /\ Predecode(Headers) = {}
          /\ textPlanned' <=> Headers = {} /\ EveryGeometry
          /\ Headers = {} /\ EveryGeometry => batch.text = OkVerdict
        BY <1>2, OutputsAnswer DEF Fail
    <2>3. planned \in Seq(Plans) /\ \A k \in DOMAIN planned : planned[k].at \in Positions(batch)
        BY DEF Typed, HeadersHold, OfKind
    <2>4. /\ RowsOf(planned) = Rows(planned)[Len(planned)] /\ Rows(planned)[0] = 0
        BY <2>3, RowsAreSums
    <2>5. textPlanned' => /\ nextPixelRow' = Rows(planned)[Len(planned)]
                          /\ Len(visuals') = Len(planned)
        <3> SUFFICES ASSUME textPlanned'
                     PROVE  /\ nextPixelRow' = Rows(planned)[Len(planned)]
                            /\ Len(visuals') = Len(planned)
            OBVIOUS
        <3>1. WithGeometry = planned
            BY <2>1, <2>2, GeometryIsPlanned
        <3>2. visuals' = [k \in 1..Len(planned) |-> planned[k].at] /\ Len(planned) \in Nat
            BY <2>1, <2>3, <3>1
        <3>3. visuals' \in [1..Len(planned) -> {planned[k].at : k \in 1..Len(planned)}]
            BY <3>2
        <3>4. Len(visuals') = Len(planned)
            BY <3>2, <3>3, LengthOfAFunction
        <3> QED BY <2>1, <2>4, <3>1, <3>4
    <2>6. Len(processed') = next' - 1 /\ RowEnd' = Rows(planned)[next' - 1]
        <3>1. next' - 1 = 0 /\ processed' = <<>> /\ RowEnd' = 0
            BY <2>1 DEF RowEnd
        <3> QED BY <2>4, <3>1
    <2>7. Rows(planned)' = Rows(planned) /\ Headers' = Headers
        BY <2>1, Zenon DEF Rows, Sums, Headers, ErrorsAt
    <2>8. EveryGeometry' <=> EveryGeometry
        BY <2>1 DEF EveryGeometry
    <2> HIDE DEF Inv
    <2> QED BY <2>1, <2>2, <2>5, <2>6, <2>7, <2>8 DEF ExecutionHolds
<1>3. CASE ExecuteImage
    <2>1. /\ UNCHANGED <<batch, phase, planned, visuals, textPlanned, nextPixelRow>>
          /\ phase = "execute" /\ next' = next + 1 /\ next \in DOMAIN planned
          /\ next \in Nat /\ next # 0 /\ DOMAIN planned = 1..Len(planned)
        BY <1>3 DEF ExecuteImage, Typed
    <2>2. planned \in Seq(Plans) /\ \A k \in DOMAIN planned : planned[k].at \in Positions(batch)
        BY DEF Typed, HeadersHold, OfKind
    <2>3. ASSUME mediaErrors' = <<>>
          PROVE  Len(processed') = next' - 1 /\ RowEnd' = Rows(planned)[next' - 1]
        <3> DEFINE rows == ItemAt(batch, planned[next].at).rows
        <3>1. Executed(ItemAt(batch, planned[next].at)) = OkVerdict
            <4> SUFFICES ASSUME Executed(ItemAt(batch, planned[next].at)) # OkVerdict
                         PROVE  FALSE
                OBVIOUS
            <4>1. mediaErrors' = Append(mediaErrors,
                      Error(Executed(ItemAt(batch, planned[next].at)),
                            planned[next].place))
                BY <1>3 DEF ExecuteImage
            <4>2. Error(Executed(ItemAt(batch, planned[next].at)),
                        planned[next].place) \in Errors
                BY <1>3, NextImage, FailuresAreResults
            <4>3. Len(mediaErrors') = Len(mediaErrors) + 1 /\ Len(mediaErrors) \in Nat
                BY <4>1, <4>2 DEF Typed
            <4> QED BY <2>3, <4>3
        <3>2. /\ processed' = Append(processed,
                    [at |-> planned[next].at, start |-> RowEnd,
                     end |-> RowEnd + rows])
              /\ mediaErrors' = mediaErrors
            BY <1>3, <3>1 DEF ExecuteImage
        <3>3. Len(processed) = next - 1 /\ RowEnd = Rows(planned)[next - 1]
            BY <2>1, <2>3, <3>2 DEF ExecutionHolds
        <3>4. Rows(planned)[next] = Rows(planned)[next - 1] + rows
            BY <2>1, <2>2, RowsAreSums
        <3> HIDE DEF rows
        <3>5. Len(processed') = next /\ processed'[next].end = RowEnd + rows
            BY <2>1, <3>2, <3>3 DEF Typed
        <3>6. RowEnd' = RowEnd + rows
            <4>1. processed' # <<>>
                BY <3>2 DEF Typed
            <4> QED BY <3>5, <4>1 DEF RowEnd
        <3> QED BY <2>1, <3>3, <3>4, <3>5, <3>6
    <2>4. Rows(planned)' = Rows(planned) /\ Headers' = Headers
        BY <2>1, Zenon DEF Rows, Sums, Headers, ErrorsAt
    <2>5. EveryGeometry' <=> EveryGeometry
        BY <2>1 DEF EveryGeometry
    <2>6. /\ Predecode(Headers) = {}
          /\ textPlanned <=> Headers = {} /\ EveryGeometry
          /\ textPlanned => /\ batch.text = OkVerdict
                            /\ nextPixelRow = Rows(planned)[Len(planned)]
                            /\ Len(visuals) = Len(planned)
        BY <2>1 DEF ExecutionHolds
    <2> HIDE DEF Inv
    <2> QED BY <2>1, <2>3, <2>4, <2>5, <2>6 DEF ExecutionHolds
<1> QED BY <1>1, <1>2, <1>3 DEF Step

(* The invariant holds at first, whatever the request.                        *)
LEMMA InvHoldsInitially ==
    ASSUME Init
    PROVE  Inv
<1>1. Typed
    <2>1. Request.items \in Seq(Items)
        <3>1. IsBatch(batch) /\ Len(batch.requests) = 1
            BY RequestsAssumption DEF Init
        <3>2. 1 \in DOMAIN batch.requests
            BY <3>1, RequestsOfABatch
        <3> QED BY <3>1, <3>2, RequestsOfABatch DEF Request
    <2>2. 1 <= Len(Request.items) + 1
        BY <2>1
    <2>3. Pending \in Results
        BY DEF Pending, NoError, Error, Errors, Categories, Results
    <2>4. /\ planned \in Seq(Plans) /\ mediaErrors \in Seq(Errors)
          /\ processed \in Seq(Images) /\ Len(planned) = 0
        BY DEF Init
    <2>5. /\ item \in Nat \ {0} /\ item <= Len(Request.items) + 1
          /\ next \in Nat \ {0} /\ next <= Len(planned) + 1
        BY <2>2, <2>4 DEF Init
    <2> HIDE DEF Request
    <2> QED BY <2>3, <2>4, <2>5 DEF Init, Typed
<1>2. PhasesHold /\ ExecutionHolds
    BY DEF Init, PhasesHold, ExecutionHolds
<1>3. Passed = {} /\ planned = <<>> /\ mediaErrors = <<>> /\ occurrence = 0
    BY <1>1, PassedIsCounted DEF Init
<1>4. HeadersHold
    BY <1>3, FS_EmptySet DEF HeadersHold
<1>5. FailuresHold
    <2>1. ErrorsAt(batch, {}, HeaderVerdict) = {}
        BY Zenon DEF ErrorsAt
    <2>2. ErrorsIn(<<>>) = {}
        BY DEF ErrorsIn
    <2>3. phase = "admit"
        BY DEF Init
    <2> QED BY <1>3, <2>1, <2>2, <2>3 DEF FailuresHold
<1> QED BY <1>1, <1>2, <1>4, <1>5 DEF Inv

(* Every step preserves it, and so does a step that changes nothing.          *)
LEMMA InvIsPreserved ==
    ASSUME Inv, [Next]_vars
    PROVE  Inv'
<1>1. CASE Step
    BY <1>1, TypedIsPreserved, PhasesArePreserved, HeadersArePreserved,
       FailuresArePreserved, ExecutionIsPreserved DEF Inv
<1>2. CASE UNCHANGED vars
    <2>1. /\ Headers' = Headers /\ Rows(planned)' = Rows(planned)
          /\ ErrorsAt(batch, Passed, HeaderVerdict)'
                = ErrorsAt(batch, Passed, HeaderVerdict)
          /\ ErrorsAt(batch, Done, ExecutionVerdict)'
                = ErrorsAt(batch, Done, ExecutionVerdict)
        BY <1>2, Zenon DEF vars, Headers, Rows, Sums, ErrorsAt, Passed, Done
    <2>2. Typed' /\ PhasesHold' /\ HeadersHold'
        BY <1>2 DEF vars, Inv, Typed, PhasesHold, HeadersHold, Passed, Request
    <2>3. FailuresHold'
        BY <1>2, <2>1 DEF vars, Inv, FailuresHold, ErrorsIn
    <2>4. ExecutionHolds'
        BY <1>2, <2>1 DEF vars, Inv, ExecutionHolds, EveryGeometry, RowEnd
    <2> QED BY <2>2, <2>3, <2>4 DEF Inv
<1> QED BY <1>1, <1>2 DEF Next, Finished

(* So the invariant holds of every execution.                                 *)
LEMMA InvAlwaysHolds ==
    Spec => []Inv
BY InvHoldsInitially, InvIsPreserved, PTL DEF Spec

-------------------------------------------------------------------------------
(* The tables of a request under preparation stay in their types: every       *)
(* failure kept is a failure, and every image planned stands in the request.  *)
THEOREM SingleTypesAreCorrect ==
    Spec => []TypeOK
<1>1. Inv => TypeOK
    <2> SUFFICES ASSUME Inv PROVE TypeOK
        OBVIOUS
    <2>1. /\ item \in 1..(Len(Request.items) + 1)
          /\ next \in 1..(Len(planned) + 1)
        BY OneRequest DEF Inv, Typed
    <2>2. ErrorsIn(mediaErrors) \subseteq Errors
        BY DEF Inv, Typed, ErrorsIn
    <2>3. \A k \in DOMAIN planned : planned[k].at \in Positions(batch)
        BY DEF Inv, HeadersHold, OfKind
    <2> QED BY <2>1, <2>2, <2>3 DEF Inv, Typed, TypeOK
<1> QED BY <1>1, InvAlwaysHolds, PTL

(* The internal checks of the composed result, a text plan, one replacement   *)
(* per image, one row range per reservation, never refuse a request whose     *)
(* images were all executed.                                                  *)
THEOREM CompositionNeverRefuses ==
    Spec => []CompositionChecksAgree
<1>1. Inv => CompositionChecksAgree
    BY ChecksAgree DEF CompositionChecksAgree
<1> QED BY <1>1, InvAlwaysHolds, PTL

(* A request answered with a geometry failure has no image that planned and   *)
(* would not decode: the decode failure would have been preferred.            *)
THEOREM DecodeComesBeforeGeometry ==
    Spec => []DecodePrecedesGeometry
<1>1. Init => DecodePrecedesGeometry
    BY DEF Init, Pending, DecodePrecedesGeometry
<1>2. ASSUME Inv, DecodePrecedesGeometry, [Next]_vars
      PROVE  DecodePrecedesGeometry'
    <2>1. CASE UNCHANGED <<batch, result>>
        <3>1. PlannedCleanly(batch, "image", HeaderVerdict)'
                  = PlannedCleanly(batch, "image", HeaderVerdict)
            BY <2>1, Zenon DEF PlannedCleanly, OfKind
        <3> QED BY <1>2, <2>1, <3>1 DEF DecodePrecedesGeometry
    <2>2. ASSUME NEW c, c # "MediaGeometry", NEW n, Fail(Error(c, n))
          PROVE  DecodePrecedesGeometry'
        <3>1. result'.error.category = c
            BY <2>2 DEF Fail, Failure, Error
        <3> QED BY <2>2, <3>1 DEF DecodePrecedesGeometry
    <2>3. CASE Admit
        <3>1. CASE UNCHANGED <<batch, result>>
            BY <2>1, <3>1
        <3> QED BY <1>2, <2>2, <2>3, <3>1, AdmitAnswers DEF Admit
    <2>4. CASE PlanOutputs
        <3>1. CASE UNCHANGED <<batch, result>>
            BY <2>1, <3>1
        <3>2. CASE /\ Preferred(Predecode(Headers)) \in Predecode(Headers)
                   /\ Fail(Preferred(Predecode(Headers)))
            <4>1. Preferred(Predecode(Headers)).category \in PredecodeCategories
                BY <3>2 DEF Predecode
            <4>2. result'.error = Preferred(Predecode(Headers))
                BY <3>2 DEF Fail, Failure
            <4> QED BY <4>1, <4>2 DEF PredecodeCategories, DecodePrecedesGeometry
        <3>3. CASE /\ batch.text \in Verdicts \ {OkVerdict, "MediaGeometry"}
                   /\ Fail(Error(batch.text, 0))
            BY <2>2, <3>3
        <3> QED BY <1>2, <2>4, <3>1, <3>2, <3>3, OutputsAnswer DEF PlanOutputs
    <2>5. CASE Compose
        <3>1. batch' = batch /\ phase = "execute" /\ next > Len(planned)
            BY <2>5 DEF Compose
        <3>2. CASE mediaErrors = <<>>
            <4>1. result'.status = "prepared"
                BY <1>2, <2>5, <3>2, CompositionAnswers DEF Prepared
            <4> QED BY <4>1 DEF DecodePrecedesGeometry
        <3>3. CASE mediaErrors # <<>>
            <4> DEFINE e == Preferred(ErrorsIn(mediaErrors))
                       Clean == PlannedCleanly(batch, "image", HeaderVerdict)
            <4>1. /\ result'.error = e
                  /\ \A f \in ErrorsIn(mediaErrors) : ~Beats(f, e)
                BY <1>2, <2>5, <3>3, CompositionAnswers DEF Fail, Failure
            <4>2. ErrorsIn(mediaErrors)
                      = Headers \cup ErrorsAt(batch, Clean, ExecutionVerdict)
                BY <1>2, <3>1, ChecksAgree
            <4>3. \A p \in Clean : ExecutionVerdict(ItemAt(batch, p)) # OkVerdict =>
                      Error(ExecutionVerdict(ItemAt(batch, p)),
                            OccurrenceIndex(batch, p))
                         \in ErrorsAt(batch, Clean, ExecutionVerdict)
                <5> HIDE DEF Clean
                <5> QED BY Zenon DEF ErrorsAt
            <4>4. ASSUME e.category = "MediaGeometry", NEW p \in Clean,
                         ItemAt(batch, p).body = "MediaDecode"
                  PROVE  FALSE
                <5> DEFINE f == Error("MediaDecode", OccurrenceIndex(batch, p))
                <5>1. ExecutionVerdict(ItemAt(batch, p)) = "MediaDecode"
                    BY <4>4 DEF ExecutionVerdict, OkVerdict
                <5>2. f \in ErrorsIn(mediaErrors)
                    BY <4>2, <4>3, <5>1 DEF OkVerdict
                <5>3. f.category = "MediaDecode"
                    BY DEF Error
                <5>4. /\ CategoryPrecedence("MediaDecode") = 2
                      /\ CategoryPrecedence("MediaGeometry") = 3
                    BY DEF CategoryPrecedence
                <5> HIDE DEF f, e
                <5>5. Beats(f, e)
                    BY <4>4, <5>3, <5>4 DEF Beats
                <5> QED BY <4>1, <5>2, <5>5 DEF e
            <4>5. PlannedCleanly(batch, "image", HeaderVerdict)' = Clean
                BY <3>1, Zenon DEF PlannedCleanly, OfKind
            <4> HIDE DEF e, Clean
            <4> QED BY <3>1, <4>1, <4>4, <4>5 DEF DecodePrecedesGeometry
        <3> QED BY <3>2, <3>3
    <2>6. CASE SkipText \/ PlanHeader \/ ExecuteImage \/ UNCHANGED vars
        BY <2>1, <2>6 DEF SkipText, PlanHeader, ExecuteImage, vars
    <2> QED BY <1>2, <2>3, <2>4, <2>5, <2>6 DEF Next, Step, Finished
<1> QED BY <1>1, <1>2, InvAlwaysHolds, PTL DEF Spec

-------------------------------------------------------------------------------
(* The stages of the verdict on one request.                                  *)
Executions ==
    ErrorsAt(batch, PlannedCleanly(batch, "image", HeaderVerdict), ExecutionVerdict)

Stages ==
    << AdmissionFailures(batch),
       IF OfKind(batch, "video") # {} THEN {Error("UnsupportedMedia", 0)} ELSE {},
       Predecode(Headers),
       IF ErrorsAt(batch, Positions(batch), PlanningVerdict) = {}
       THEN TextFailures(batch) ELSE {},
       Headers \cup Executions >>

(* The verdict of a request is that of its first stage with a failure.        *)
LEMMA VerdictByStages ==
    /\ SingleVerdict(batch) = FirstStage(Stages)
    /\ DOMAIN Stages = 1..5
    /\ \A j \in 1..5 : j \in {1, 2, 3, 4, 5}
<1>1. SingleVerdict(batch) = FirstStage(Stages)
    BY Zenon DEF SingleVerdict, Stages, Executions, Headers
<1>2. DOMAIN Stages = 1..5
    BY DEF Stages
<1> QED BY <1>1, <1>2

(* Whatever is answered is the verdict that the request determines.           *)
LEMMA AnswersAreTheVerdict ==
    ASSUME Inv, Step, result' # Pending
    PROVE  result' = SingleVerdict(batch)
<1>0. result = Pending
    BY DEF Step, Admit, SkipText, PlanHeader, PlanOutputs, ExecuteImage, Compose,
           Inv, PhasesHold
<1>1. ASSUME NEW k \in 1..5, Stages[k] # {}, \A j \in 1..5 : j < k => Stages[j] = {}
      PROVE  SingleVerdict(batch) = Failure(Preferred(Stages[k]))
    BY <1>1, VerdictByStages, FirstStageAnswers
<1>2. /\ Stages[1] = AdmissionFailures(batch)
      /\ Stages[2] = IF OfKind(batch, "video") # {}
                     THEN {Error("UnsupportedMedia", 0)} ELSE {}
      /\ Stages[3] = Predecode(Headers)
      /\ Stages[4] = IF ErrorsAt(batch, Positions(batch), PlanningVerdict) = {}
                     THEN TextFailures(batch) ELSE {}
      /\ Stages[5] = Headers \cup Executions
    BY DEF Stages
<1>3. \A j \in 1..5 : /\ j < 1 => FALSE
                      /\ j < 2 => j = 1
                      /\ j < 3 => j \in {1, 2}
                      /\ j < 4 => j \in {1, 2, 3}
                      /\ j < 5 => j \in {1, 2, 3, 4}
    OBVIOUS
<1>4. CASE Admit
    <2>1. PICK c \in Verdicts \ {OkVerdict, "MediaGeometry"}, n \in Nat :
              /\ Fail(Error(c, n))
              /\ \/ AdmissionFailures(batch) = {Error(c, n)}
                 \/ /\ AdmissionFailures(batch) = {}
                    /\ OfKind(batch, "video") # {}
                    /\ Error(c, n) = Error("UnsupportedMedia", 0)
        BY <1>0, <1>4, AdmitAnswers
    <2>2. Error(c, n) \in Errors /\ Preferred({Error(c, n)}) = Error(c, n)
        BY FailuresAreResults, PreferredOfOne
    <2>3. CASE AdmissionFailures(batch) = {Error(c, n)}
        <3>1. SingleVerdict(batch) = Failure(Preferred(Stages[1]))
            BY <1>1, <1>2, <1>3, <2>3
        <3> QED BY <1>2, <2>1, <2>2, <2>3, <3>1 DEF Fail
    <2>4. CASE /\ AdmissionFailures(batch) = {} /\ OfKind(batch, "video") # {}
               /\ Error(c, n) = Error("UnsupportedMedia", 0)
        <3>1. SingleVerdict(batch) = Failure(Preferred(Stages[2]))
            BY <1>1, <1>2, <1>3, <2>4
        <3> QED BY <1>2, <2>1, <2>2, <2>4, <3>1 DEF Fail
    <2> QED BY <2>1, <2>3, <2>4
<1>5. phase \in {"headers", "execute"} => Stages[1] = {} /\ Stages[2] = {}
    BY <1>2 DEF Inv, PhasesHold
<1>6. CASE PlanOutputs
    <2>1. phase = "headers" /\ item > Len(Request.items)
        BY <1>6 DEF PlanOutputs
    <2>2. CASE Predecode(Headers) # {} /\ Fail(Preferred(Predecode(Headers)))
        <3>1. SingleVerdict(batch) = Failure(Preferred(Stages[3]))
            BY <1>1, <1>2, <1>3, <1>5, <2>1, <2>2
        <3> QED BY <1>2, <2>2, <3>1 DEF Fail
    <2>3. CASE /\ Predecode(Headers) = {} /\ Headers = {} /\ EveryGeometry
               /\ batch.text \in Verdicts \ {OkVerdict, "MediaGeometry"}
               /\ Fail(Error(batch.text, 0))
        <3>1. Stages[4] = {Error(batch.text, 0)}
            BY <1>2, <2>1, <2>3, PlanningOfHeaders DEF TextFailures
        <3>2. Error(batch.text, 0) \in Errors
            BY <2>3, FailuresAreResults
        <3>3. SingleVerdict(batch) = Failure(Preferred(Stages[4]))
            BY <1>1, <1>2, <1>3, <1>5, <2>1, <2>3, <3>1
        <3> QED BY <2>3, <3>1, <3>2, <3>3, PreferredOfOne DEF Fail
    <2> QED BY <1>0, <1>6, <2>2, <2>3, OutputsAnswer
<1>7. CASE Compose
    <2>1. phase = "execute" /\ next > Len(planned) /\ item > Len(Request.items)
        BY <1>7 DEF Compose, Inv, PhasesHold
    <2>2. Predecode(Headers) = {}
        BY <2>1 DEF Inv, ExecutionHolds
    <2>3. Stages[4] = {}
        <3>1. Headers = {} /\ EveryGeometry => batch.text = OkVerdict
            BY <2>1 DEF Inv, ExecutionHolds
        <3>2. ErrorsAt(batch, Positions(batch), PlanningVerdict) = {}
                  => TextFailures(batch) = {}
            BY <2>1, <3>1, PlanningOfHeaders DEF TextFailures
        <3> QED BY <1>2, <3>2
    <2>4. ErrorsIn(mediaErrors) = Stages[5]
        BY <1>2, <2>1, ChecksAgree DEF Executions
    <2>5. \A j \in 1..5 : j < 5 => Stages[j] = {}
        BY <1>2, <1>3, <1>5, <2>1, <2>2, <2>3
    <2>6. CASE mediaErrors = <<>>
        <3>1. Stages[5] = {}
            BY <2>1, <2>4, <2>6, ChecksAgree
        <3>2. \A j \in 1..5 : Stages[j] = {}
            BY <2>5, <3>1, VerdictByStages
        <3>3. SingleVerdict(batch) = Prepared
            BY <3>2, VerdictByStages DEF FirstStage
        <3> QED BY <1>7, <2>6, <3>3, CompositionAnswers
    <2>7. CASE mediaErrors # <<>>
        <3>1. Stages[5] # {}
            BY <2>1, <2>4, <2>7, ChecksAgree
        <3>2. SingleVerdict(batch) = Failure(Preferred(Stages[5]))
            BY <1>1, <2>5, <3>1
        <3> QED BY <1>7, <2>4, <2>7, <3>2, CompositionAnswers DEF Fail
    <2> QED BY <2>6, <2>7
<1>8. CASE SkipText \/ PlanHeader \/ ExecuteImage
    BY <1>0, <1>8 DEF SkipText, PlanHeader, ExecuteImage
<1> QED BY <1>4, <1>6, <1>7, <1>8 DEF Step

(* A request is answered once, with the verdict that it alone determines:     *)
(* SinglePrepare implements the contract of prepare but for the promise to    *)
(* answer, which needs fairness.                                              *)
THEOREM OneVerdictPerRequest ==
    Spec => Contract!SafeSpec
<1>1. Init => Contract!Init
    BY DEF Init, Contract!Init, Pending, Contract!Pending, NoError,
        Contract!NoError, Error, Contract!Error
<1>2. ASSUME Inv, [Next]_vars
      PROVE  [Contract!Answer]_(Contract!contractVars)
    <2>1. CASE UNCHANGED <<batch, result>>
        BY <2>1 DEF Contract!contractVars
    <2>2. CASE Step /\ result' # result
        <3>1. result = Pending /\ result' # Pending
            BY <1>2, <2>2 DEF Step, Admit, SkipText, PlanHeader, PlanOutputs,
                ExecuteImage, Compose, Inv, PhasesHold
        <3>2. batch' = batch
            BY <2>2 DEF Step, Admit, SkipText, PlanHeader, PlanOutputs,
                ExecuteImage, Compose
        <3>3. result' = SingleVerdict(batch)
            BY <1>2, <2>2, <3>1, AnswersAreTheVerdict
        <3> QED BY <3>1, <3>2, <3>3 DEF Contract!Answer, Pending,
                Contract!Pending, NoError, Contract!NoError, Error, Contract!Error
    <2>3. Step => batch' = batch
        BY DEF Step, Admit, SkipText, PlanHeader, PlanOutputs, ExecuteImage, Compose
    <2> QED BY <1>2, <2>1, <2>2, <2>3 DEF Next, Finished, vars
<1> QED BY <1>1, <1>2, InvAlwaysHolds, PTL DEF Spec, Contract!SafeSpec
================================================================================
