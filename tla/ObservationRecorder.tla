------------------------- MODULE ObservationRecorder -------------------------
(* observability.rs: the bounded recorder an observed call writes into.  A    *)
(* recorder is a record; each method that changes it is an operator from the  *)
(* recorder before to the recorder after.  Three event tables (spans, owned   *)
(* buffers, controlled copies) are bounded; the counters beside them are not. *)
(* Time is a clock that advances whenever a span begins or finishes.          *)
EXTENDS PrepareErrors, SequencesExt

NoCategory == "None"

NewRecorder(capacity) ==
    [capacity |-> capacity, clock |-> 0,
     spans |-> <<>>, active |-> <<>>, buffers |-> <<>>, copies |-> <<>>,
     nextSpan |-> 0, nextBuffer |-> 0, nextCopy |-> 0, dropped |-> 0,
     live |-> 0, peak |-> 0, retained |-> 0, visualCalls |-> 0,
     outcome |-> "Success", category |-> NoCategory]

Earliest(indices) == CHOOSE i \in indices : \A j \in indices : i <= j
Latest(indices) == CHOOSE i \in indices : \A j \in indices : i >= j

TotalOf(sizes) ==
    LET total[k \in 0..Len(sizes)] ==
            IF k = 0 THEN 0 ELSE total[k - 1] + sizes[k]
    IN  total[Len(sizes)]

-------------------------------------------------------------------------------
(* Event tables                                                               *)

(* Mutated form: a full table drops the event silently.                       *)
KeepUncounted(rec, table, event) ==
    IF Len(rec[table]) < rec.capacity
    THEN [rec EXCEPT ![table] = Append(@, event)]
    ELSE rec

(* An event that finds its table full is counted and not kept.                *)
Keep(rec, table, event) ==
    IF Len(rec[table]) < rec.capacity
    THEN [rec EXCEPT ![table] = Append(@, event)]
    ELSE [rec EXCEPT !.dropped = @ + 1]

-------------------------------------------------------------------------------
(* Spans                                                                      *)

(* An Option is a set of at most one member.                                  *)
NoParent == {}

(* The handle the next begin returns: 0 stands for an event that is dropped.  *)
NextToken(rec) ==
    [sequence |-> rec.nextSpan,
     index |-> IF Len(rec.spans) < rec.capacity THEN Len(rec.spans) + 1 ELSE 0]

(* Mutated form: every span hangs off the outermost open one.                 *)
ParentIsRoot(rec) ==
    IF rec.active = <<>> THEN NoParent ELSE {Head(rec.active)}

Parent(rec) == IF rec.active = <<>> THEN NoParent ELSE {Last(rec.active)}

NewSpan(rec, stage, scope) ==
    [sequence |-> rec.nextSpan, parent |-> Parent(rec), stage |-> stage,
     scope |-> scope, opened |-> rec.clock, duration |-> 0,
     outcome |-> "Success", category |-> NoCategory]

Begin(rec, stage, scope) ==
    [Keep(rec, "spans", NewSpan(rec, stage, scope))
        EXCEPT !.nextSpan = @ + 1,
               !.clock = @ + 1,
               !.active = Append(@, rec.nextSpan)]

(* finish and mark_error_category: the last active span with the sequence of  *)
(* the token is taken off the stack, if there is one.                         *)
Without(active, sequence) ==
    LET found == {i \in DOMAIN active : active[i] = sequence}
    IN  IF found = {} THEN active ELSE RemoveAt(active, Latest(found))

FinishedSpan(rec, span, outcome, category) ==
    [span EXCEPT !.duration = rec.clock - span.opened,
                 !.outcome = outcome, !.category = category]

Close(rec, token, outcome, category) ==
    LET ended == [rec EXCEPT
            !.clock = @ + 1,
            !.active = Without(@, token.sequence)]
    IN  IF token.index = 0 THEN ended
        ELSE [ended EXCEPT !.spans[token.index] =
                FinishedSpan(rec, @, outcome, category)]

(* Mutated form: the first failure of the call names the report.              *)
MarkFirstError(rec, category) ==
    IF rec.outcome = "Error" THEN rec ELSE
    [rec EXCEPT !.outcome = "Error", !.category = category]

MarkError(rec, category) ==
    [rec EXCEPT !.outcome = "Error", !.category = category]

Finish(rec, token, verdict) ==
    IF verdict = OkVerdict
    THEN Close(rec, token, "Success", NoCategory)
    ELSE MarkError(Close(rec, token, "Error", verdict), verdict)

(* A stage with nothing recorded inside it.                                   *)
Spanned(rec, stage, scope, verdict) ==
    Finish(Begin(rec, stage, scope), NextToken(rec), verdict)

(* report: the duration less the durations of the direct children.  Durations *)
(* are unsigned and the subtraction saturates.                                *)
ChildDuration(rec, span) ==
    TotalOf([i \in DOMAIN rec.spans |->
                IF rec.spans[i].parent = {span.sequence}
                THEN rec.spans[i].duration ELSE 0])

SaturatingSub(a, b) == IF b > a THEN 0 ELSE a - b

ExclusiveDuration(rec, span) ==
    SaturatingSub(span.duration, ChildDuration(rec, span))

-------------------------------------------------------------------------------
(* Owned buffers                                                              *)

NewBuffer(rec, name, class, scope, bytes) ==
    [sequence |-> rec.nextBuffer, name |-> name, class |-> class,
     scope |-> scope, bytes |-> bytes, released |-> FALSE]

CountAllocation(rec, class, bytes) ==
    IF class = "RetainedOutput"
    THEN [rec EXCEPT !.retained = @ + bytes]
    ELSE [rec EXCEPT !.live = @ + bytes,
                     !.peak = IF rec.live + bytes > @ THEN rec.live + bytes
                              ELSE @]

RecordAllocation(rec, name, class, scope, bytes) ==
    [Keep(CountAllocation(rec, class, bytes), "buffers",
          NewBuffer(rec, name, class, scope, bytes))
        EXCEPT !.nextBuffer = @ + 1]

RecordTransient(rec, name, scope, bytes) ==
    RecordAllocation(rec, name, "Transient", scope, bytes)

LiveMatches(rec, name, scope) ==
    {i \in DOMAIN rec.buffers :
        /\ rec.buffers[i].name = name /\ rec.buffers[i].scope = scope
        /\ rec.buffers[i].class = "Transient" /\ ~rec.buffers[i].released}

(* The counter falls whether or not the event was kept.                       *)
ReleaseTransient(rec, name, scope, bytes) ==
    LET matches == LiveMatches(rec, name, scope)
        freed == [rec EXCEPT !.live = SaturatingSub(@, bytes)]
    IN  IF matches = {} THEN freed
        ELSE [freed EXCEPT !.buffers[Earliest(matches)].released = TRUE]

(* Mutated form: the event keeps its scratch name.                            *)
RenameForgotten(rec, old, new, scope) == rec

RenameLiveTransient(rec, old, new, scope) ==
    LET matches == LiveMatches(rec, old, scope)
    IN  IF matches = {} THEN rec
        ELSE [rec EXCEPT !.buffers[Latest(matches)].name = new]

ReleaseAllTransients(rec) ==
    [rec EXCEPT !.live = 0,
                !.buffers = [i \in DOMAIN @ |->
                    IF @[i].class = "Transient"
                    THEN [@[i] EXCEPT !.released = TRUE] ELSE @[i]]]

DiscardRetainedOutputs(rec) ==
    [rec EXCEPT !.retained = 0,
                !.buffers = [i \in DOMAIN @ |->
                    IF @[i].class = "RetainedOutput"
                    THEN [@[i] EXCEPT !.class = "DiscardedOutput",
                                      !.released = TRUE]
                    ELSE @[i]]]

-------------------------------------------------------------------------------
(* Copies and call counts                                                     *)

RecordCopy(rec, name, scope, bytes) ==
    [Keep(rec, "copies",
          [sequence |-> rec.nextCopy, name |-> name, scope |-> scope,
           bytes |-> bytes])
        EXCEPT !.nextCopy = @ + 1]

CountVisualCall(rec) == [rec EXCEPT !.visualCalls = @ + 1]

-------------------------------------------------------------------------------
(* Loops                                                                      *)

(* What a loop records of one element: an owned copy of it, its release, an   *)
(* output for it, or a stage that succeeds.                                   *)
Event(does, name, scope, bytes) ==
    [does |-> does, name |-> name, scope |-> scope, bytes |-> bytes]

Recorded(rec, event) ==
    CASE event.does = "own" ->
            RecordCopy(RecordTransient(rec, event.name, event.scope, event.bytes),
                       event.name, event.scope, event.bytes)
      [] event.does = "release" ->
            ReleaseTransient(rec, event.name, event.scope, event.bytes)
      [] event.does = "retain" ->
            RecordAllocation(rec, event.name, "RetainedOutput", event.scope,
                             event.bytes)
      [] OTHER -> Spanned(rec, event.name, event.scope, OkVerdict)

(* One element after the other.                                               *)
InTurn(rec, events) ==
    LET after[k \in 0..Len(events)] ==
            IF k = 0 THEN rec ELSE Recorded(after[k - 1], events[k])
    IN  after[Len(events)]

-------------------------------------------------------------------------------
(* What the tables of a recorder say                                          *)

BytesOf(rec, Counted(_)) ==
    TotalOf([i \in DOMAIN rec.buffers |->
                IF Counted(rec.buffers[i]) THEN rec.buffers[i].bytes ELSE 0])

LiveInTable(rec) ==
    BytesOf(rec, LAMBDA b : b.class = "Transient" /\ ~b.released)

RetainedInTable(rec) == BytesOf(rec, LAMBDA b : b.class = "RetainedOutput")
==============================================================================
