--------------------------- MODULE PrepareVerdict ---------------------------
(* What preparation answers for a batch, stated over the batch alone: no      *)
(* cursor, no worker and no order of completion.  A batch is                  *)
(*   requests  : a sequence of [structure, render, options, items]            *)
(*   resources : the verdict of the whole-batch resource preflight            *)
(*   text      : the verdict of text planning, once every geometry is known   *)
(* and an item is [kind, plan, geometry, body, rows]: the verdicts of header  *)
(* planning, of the output geometry, and of the full decode or resize.        *)
EXTENDS PrepareErrors, FiniteSets

Kinds == {"text", "image", "video"}

Items ==
    [kind : Kinds, plan : Verdicts, geometry : Verdicts, body : Verdicts,
     rows : Nat]

Requests ==
    [structure : Verdicts, render : Verdicts, options : Verdicts,
     items : Seq(Items)]

ItemAt(b, p) == b.requests[p[1]].items[p[2]]

(* Positions <<request, item>> of the media occurrences of a batch.           *)
Positions(b) ==
    UNION {{r} \X {i \in DOMAIN b.requests[r].items :
                        b.requests[r].items[i].kind # "text"} :
              r \in DOMAIN b.requests}

Precedes(p, q) == p[1] < q[1] \/ (p[1] = q[1] /\ p[2] < q[2])

(* Source order across the whole batch, counted from zero.                    *)
OccurrenceIndex(b, p) == Cardinality({q \in Positions(b) : Precedes(q, p)})

OfKind(b, kind) == {p \in Positions(b) : ItemAt(b, p).kind = kind}

(* The geometry of a video belongs to its planning: none is retained.         *)
IsBatch(b) ==
    /\ b.requests \in Seq(Requests)
    /\ b.resources \in Verdicts /\ b.text \in Verdicts
    /\ \A p \in OfKind(b, "video") : ItemAt(b, p).geometry = OkVerdict

(* The members of a list at some of its places, as a loop leaves them that    *)
(* looks at each in turn and pushes those.                                    *)
Selected(list, places) ==
    LET upTo[k \in 0..Len(list)] ==
            IF k = 0 THEN <<>>
            ELSE IF k \in places THEN Append(upTo[k - 1], list[k])
            ELSE upTo[k - 1]
    IN  upTo[Len(list)]

ErrorsAt(b, positions, Category(_)) ==
    {Error(Category(ItemAt(b, p)), OccurrenceIndex(b, p)) :
        p \in {q \in positions : Category(ItemAt(b, q)) # OkVerdict}}

HeaderVerdict(item) == item.plan

(* What planning knows of an occurrence before any pixel is decoded.          *)
PlanningVerdict(item) ==
    IF item.plan # OkVerdict THEN item.plan ELSE item.geometry

BodyVerdict(item) == item.body

(* Execution decodes first and reports a retained geometry error second.      *)
ExecutionVerdict(item) ==
    IF item.body # OkVerdict THEN item.body ELSE item.geometry

PlannedCleanly(b, kind, Verdict(_)) ==
    {p \in OfKind(b, kind) : Verdict(ItemAt(b, p)) = OkVerdict}

(* The first request that validation, rendering or options reject.            *)
FirstOf(S) == CHOOSE s \in S : \A t \in S : s <= t

Unrendered(b) ==
    {r \in DOMAIN b.requests : \/ b.requests[r].structure # OkVerdict
                               \/ b.requests[r].render # OkVerdict}

UnsupportedOptions(b) ==
    {r \in DOMAIN b.requests : b.requests[r].options # OkVerdict}

Rejection(request) ==
    IF request.structure # OkVerdict THEN request.structure ELSE request.render

Failure(e) == [status |-> "failed", error |-> e]

NoError == Error("InternalInvariant", 0)

Pending == [status |-> "pending", error |-> NoError]
Prepared == [status |-> "prepared", error |-> NoError]

Results == [status : {"pending", "prepared", "failed"}, error : Errors]

(* Everything that may reject a batch before media are looked at.             *)
AdmissionFailures(b) ==
    IF b.requests = <<>> THEN {Error("InvalidRequest", 0)}
    ELSE IF Unrendered(b) # {}
    THEN LET r == FirstOf(Unrendered(b))
         IN  {Error(Rejection(b.requests[r]), r)}
    ELSE IF UnsupportedOptions(b) # {}
    THEN LET r == FirstOf(UnsupportedOptions(b))
         IN  {Error(b.requests[r].options, r)}
    ELSE IF b.resources # OkVerdict THEN {Error(b.resources, 0)}
    ELSE {}

TextFailures(b) ==
    IF b.text # OkVerdict THEN {Error(b.text, 0)} ELSE {}

(* The stages are tried in order: a stage answers when its set of failures is *)
(* not empty, with the preferred member of that set.                          *)
FirstStage(stages) ==
    IF \A k \in DOMAIN stages : stages[k] = {} THEN Prepared
    ELSE Failure(Preferred(
            stages[FirstOf({k \in DOMAIN stages : stages[k] # {}})]))

Predecode(errors) == {e \in errors : e.category \in PredecodeCategories}

(* The answer of plan_batch: planning failures and retained geometry failures *)
(* are collected first; the occurrences that planned cleanly are then decoded *)
(* for the sake of a failure that takes precedence.                           *)
BatchVerdict(b) ==
    LET planning == ErrorsAt(b, Positions(b), PlanningVerdict)
        bodies == ErrorsAt(b, PlannedCleanly(b, "image", PlanningVerdict),
                           BodyVerdict)
        films == ErrorsAt(b, OfKind(b, "video"), BodyVerdict)
    IN  FirstStage(<< AdmissionFailures(b),
                      Predecode(planning),
                      IF planning = {} THEN {} ELSE planning \cup bodies,
                      TextFailures(b),
                      bodies,
                      IF films = {} THEN {}
                      ELSE {CHOOSE e \in films :
                                \A f \in films : e.place <= f.place} >>)

(* The answer of prepare for one image request: every header that planned is  *)
(* decoded before a geometry failure is reported.                             *)
SingleVerdict(b) ==
    LET headers == ErrorsAt(b, Positions(b), HeaderVerdict)
        planning == ErrorsAt(b, Positions(b), PlanningVerdict)
        executions == ErrorsAt(b, PlannedCleanly(b, "image", HeaderVerdict),
                               ExecutionVerdict)
    IN  FirstStage(<< AdmissionFailures(b),
                      IF OfKind(b, "video") # {}
                          THEN {Error("UnsupportedMedia", 0)} ELSE {},
                      Predecode(headers),
                      IF planning = {} THEN TextFailures(b) ELSE {},
                      headers \cup executions >>)
==============================================================================
