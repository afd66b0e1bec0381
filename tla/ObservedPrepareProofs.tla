------------------------ MODULE ObservedPrepareProofs ------------------------
(* What an observed call records, for every call.                             *)
EXTENDS ObservedPrepare, PrepareLemmas

-------------------------------------------------------------------------------
(* Recorders                                                                  *)

Scopes == {CallScope} \cup ({"request", "media", "input"} \X Nat)
Outcomes == {"Success", "Error"}
Stages ==
    {"native.batch.prepare", "native.batch.plan", "native.request.validate",
     "native.chat.render", "native.chat.tokenize", "native.media.plan",
     "native.media.decode_color", "native.media.resize",
     "native.media.video_resize", "native.media.normalize_patchify_layout",
     "native.destination.execute", "destination.allocate",
     "binding.prepare_batch", "binding.parse_requests",
     "binding.numpy.materialize"}
Names ==
    {"binding.owned_media", "decoded_rgb", "prepared_rgb", "destination",
     "scratch", "resize.noop.source_copy", "prepared_video_rgb", "input_ids",
     "attention_mask", "mm_token_type_ids", "pixel_values", "image_grid_thw",
     "pixel_values_videos", "video_grid_thw"}
Classes == {"Transient", "RetainedOutput", "DiscardedOutput"}
Refusals == Categories \cup {"memory_error", "python_conversion"}

Spans ==
    [sequence : Nat, parent : SUBSET Nat, stage : Stages, scope : Scopes,
     opened : Nat, duration : Int, outcome : Outcomes,
     category : Refusals \cup {NoCategory}]

BufferEvents ==
    [sequence : Nat, name : Names, class : Classes, scope : Scopes, bytes : Nat,
     released : BOOLEAN]

CopyEvents == [sequence : Nat, name : Names, scope : Scopes, bytes : Nat]

Fields ==
    {"capacity", "clock", "spans", "active", "buffers", "copies", "nextSpan",
     "nextBuffer", "nextCopy", "dropped", "live", "peak", "retained",
     "visualCalls", "outcome", "category"}

IsRecorder(r) ==
    /\ DOMAIN r = Fields
    /\ r.capacity \in Nat /\ r.clock \in Nat /\ r.dropped \in Nat
    /\ r.nextSpan \in Nat /\ r.nextBuffer \in Nat /\ r.nextCopy \in Nat
    /\ r.live \in Nat /\ r.peak \in Nat /\ r.retained \in Nat
    /\ r.spans \in Seq(Spans) /\ r.active \in Seq(Nat)
    /\ r.buffers \in Seq(BufferEvents) /\ r.copies \in Seq(CopyEvents)
    /\ r.outcome \in Outcomes /\ r.category \in Refusals \cup {NoCategory}

(* A recorder of which only some fields have changed.                         *)
Changes(r, s, fields) ==
    /\ DOMAIN s = Fields
    /\ \A f \in Fields \ fields : s[f] = r[f]

Accounted(r) ==
    /\ Len(r.spans) + Len(r.buffers) + Len(r.copies) + r.dropped
         = r.nextSpan + r.nextBuffer + r.nextCopy
    /\ Len(r.spans) <= r.capacity /\ Len(r.buffers) <= r.capacity
    /\ Len(r.copies) <= r.capacity

(* Where the span of a sequence number stands in the table, or 0.             *)
Place(capacity, sequence) == IF sequence < capacity THEN sequence + 1 ELSE 0

(* How long a span has lasted: it is still open when it is on the stack.      *)
Age(spans, active, clock, i) ==
    IF i - 1 \in Range(active) THEN clock - spans[i].opened ELSE spans[i].duration

ChildAge(spans, active, clock, i, j) ==
    IF spans[j].parent = {i - 1} THEN Age(spans, active, clock, j) ELSE 0

(* The table holds the first spans, each at the place of its sequence number; *)
(* an open span hangs off the one below it on the stack; and at any moment    *)
(* the direct children of a span together have not lasted longer than it.     *)
Numbered(spans, clock, begun, capacity) ==
    /\ Len(spans) = IF begun < capacity THEN begun ELSE capacity
    /\ \A i \in 1..Len(spans) :
        /\ spans[i].sequence = i - 1
        /\ spans[i].opened <= clock /\ spans[i].duration \in Nat
        /\ \A p \in spans[i].parent : p < i - 1

Stacked(spans, active, begun) ==
    \A k \in 1..Len(active) :
        /\ active[k] < begun
        /\ \A l \in 1..Len(active) : k < l => active[k] < active[l]
        /\ active[k] < Len(spans) =>
            spans[active[k] + 1].parent = IF k = 1 THEN {} ELSE {active[k - 1]}

Within(spans, active, clock) ==
    \A i \in 1..Len(spans) :
        TotalOf([j \in 1..Len(spans) |-> ChildAge(spans, active, clock, i, j)])
            <= Age(spans, active, clock, i)

Nested(r) ==
    /\ Numbered(r.spans, r.clock, r.nextSpan, r.capacity)
    /\ Stacked(r.spans, r.active, r.nextSpan)
    /\ Within(r.spans, r.active, r.clock)

(* What every method of the recorder keeps.                                   *)
Good(r) == IsRecorder(r) /\ Accounted(r) /\ Nested(r)

(* From r to s spans were added, and those there were are as before.          *)
Extends(r, s) ==
    /\ Len(s.spans) >= Len(r.spans)
    /\ \A i \in 1..Len(r.spans) : s.spans[i] = r.spans[i]

(* Nothing that was recorded has failed.                                      *)
Clean(r, s) ==
    /\ s.outcome = r.outcome /\ s.category = r.category
    /\ \A i \in 1..Len(s.spans) : i > Len(r.spans) => s.spans[i].outcome = "Success"

Ends(r, s, verdict) ==
    IF verdict = OkVerdict THEN Clean(r, s)
    ELSE s.outcome = "Error" /\ s.category = verdict

Outputless(r) == \A i \in 1..Len(r.buffers) : r.buffers[i].class # "RetainedOutput"

(* No output was allocated or discarded.                                      *)
SameOutputs(r, s) ==
    /\ s.retained = r.retained
    /\ Outputless(r) => Outputless(s)

(* Every span that was begun from r to s has ended.                           *)
Quiet(r, s) ==
    /\ Good(s) /\ s.capacity = r.capacity /\ s.active = r.active
    /\ Extends(r, s)

(* A part of the call that begins at r and ends at s with the verdict, and    *)
(* leaves so many bytes live.                                                 *)
Effect(r, s, verdict, live) ==
    /\ Quiet(r, s) /\ Ends(r, s, verdict) /\ SameOutputs(r, s)
    /\ s.live = live

(* Tables have lengths.                                                       *)
LEMMA TablesHaveLengths ==
    ASSUME NEW r, Good(r)
    PROVE  /\ Len(r.spans) \in Nat /\ Len(r.buffers) \in Nat /\ Len(r.copies) \in Nat
           /\ Len(r.active) \in Nat /\ r.capacity \in Nat /\ r.dropped \in Nat
           /\ r.nextSpan \in Nat /\ r.nextBuffer \in Nat /\ r.nextCopy \in Nat
           /\ r.live \in Nat /\ r.retained \in Nat
BY SMTT(40) DEF Good, IsRecorder

(* A part that succeeds and another part after it.                            *)
LEMMA ThenAnother ==
    ASSUME NEW r, NEW s, NEW t, NEW verdict, NEW m, NEW n,
           Good(r), Effect(r, s, OkVerdict, m), Effect(s, t, verdict, n)
    PROVE  Effect(r, t, verdict, n)
<1>1. Len(r.spans) \in Nat /\ Len(s.spans) \in Nat /\ Len(t.spans) \in Nat
  BY TablesHaveLengths DEF Effect, Quiet
<1>2. Quiet(r, t) /\ SameOutputs(r, t)
  BY <1>1 DEF Effect, Quiet, Extends, SameOutputs
<1>3. CASE verdict = OkVerdict
  <2>1. ASSUME NEW i \in 1..Len(t.spans), i > Len(r.spans)
        PROVE  t.spans[i].outcome = "Success"
    <3>1. CASE i > Len(s.spans)
      BY <1>3, <3>1 DEF Effect, Ends, Clean
    <3>2. CASE i <= Len(s.spans)
      <4>1. i \in 1..Len(s.spans)
        BY <1>1, <3>2
      <4>2. QED
        BY <2>1, <4>1 DEF Effect, Quiet, Extends, Ends, Clean
    <3>3. QED
      BY <1>1, <3>1, <3>2
  <2>2. QED
    BY <1>2, <1>3, <2>1 DEF Effect, Ends, Clean
<1>4. CASE verdict # OkVerdict
  BY <1>2, <1>4 DEF Effect, Ends
<1>5. QED
  BY <1>3, <1>4

(* Two quiet changes are one.                                                 *)
LEMMA QuietQuiet ==
    ASSUME NEW r, NEW s, NEW t, Good(r), Quiet(r, s), Quiet(s, t)
    PROVE  Quiet(r, t)
<1>1. Len(r.spans) \in Nat /\ Len(s.spans) \in Nat /\ Len(t.spans) \in Nat
    BY TablesHaveLengths DEF Quiet
<1> QED BY <1>1 DEF Quiet, Extends

(* Two changes without a failure are one.                                     *)
LEMMA QuietAndClean ==
    ASSUME NEW r, NEW s, NEW t, Good(r), Quiet(r, s), Clean(r, s), Quiet(s, t), Clean(s, t)
    PROVE  Quiet(r, t) /\ Clean(r, t)
<1>1. Len(r.spans) \in Nat /\ Len(s.spans) \in Nat /\ Len(t.spans) \in Nat
  BY TablesHaveLengths DEF Quiet
<1>2. Quiet(r, t)
  BY <1>1 DEF Quiet, Extends
<1>3. ASSUME NEW i \in 1..Len(t.spans), i > Len(r.spans)
      PROVE  t.spans[i].outcome = "Success"
  <2>1. CASE i > Len(s.spans)
    BY <2>1 DEF Clean
  <2>2. CASE i <= Len(s.spans)
    <3>1. i \in 1..Len(s.spans)
      BY <1>1, <2>2
    <3>2. QED
      BY <1>3, <3>1 DEF Quiet, Extends, Clean
  <2>3. QED
    BY <1>1, <2>1, <2>2
<1>4. QED
  BY <1>2, <1>3 DEF Clean

(* A part that fails, and what is put away after it.                          *)
LEMMA ThenCleanUp ==
    ASSUME NEW r, NEW s, NEW t, NEW verdict, NEW m, NEW n,
           Good(r), Effect(r, s, verdict, m), Effect(s, t, OkVerdict, n)
    PROVE  Effect(r, t, verdict, n)
<1>1. CASE verdict = OkVerdict
  BY <1>1, ThenAnother
<1>2. CASE verdict # OkVerdict
  <2>1. Len(r.spans) \in Nat /\ Len(s.spans) \in Nat /\ Len(t.spans) \in Nat
    BY TablesHaveLengths DEF Effect, Quiet
  <2>2. Quiet(r, t) /\ SameOutputs(r, t)
    BY <2>1 DEF Effect, Quiet, Extends, SameOutputs
  <2>3. QED
    BY <1>2, <2>2 DEF Effect, Ends, Clean
<1>3. QED
  BY <1>1, <1>2

(* Nothing at all.                                                            *)
LEMMA NoEffect ==
    ASSUME NEW r, Good(r)
    PROVE  Effect(r, r, OkVerdict, r.live)
<1>1. Len(r.spans) \in Nat
  BY TablesHaveLengths
<1>2. QED
  BY <1>1 DEF Effect, Quiet, Extends, Ends, Clean, SameOutputs

-------------------------------------------------------------------------------
(* Totals                                                                     *)

(* The sums of the first sizes of a list.                                     *)
Sums(after, sizes, n) ==
    after = [k \in 0..n |-> IF k = 0 THEN 0 ELSE after[k - 1] + sizes[k]]

(* Sums of the first sizes exist.                                             *)
LEMMA SumsExist ==
    ASSUME NEW sizes, NEW n \in Nat
    PROVE  \E after : Sums(after, sizes, n)
<1> DEFINE S == {m \in Nat : \E after : Sums(after, sizes, m)}
<1>1. 0 \in S
    <2>1. Sums([k \in 0..0 |-> 0], sizes, 0)
        BY DEF Sums
    <2> QED BY <2>1
<1>2. ASSUME NEW m \in Nat, m \in S PROVE m + 1 \in S
    <2>1. PICK f : Sums(f, sizes, m)
        BY <1>2
    <2> DEFINE g == [k \in 0..(m + 1) |->
                        IF k <= m THEN f[k] ELSE f[m] + sizes[k]]
    <2>2. \A k \in 0..m : g[k] = f[k]
        OBVIOUS
    <2>3. \A k \in 0..(m + 1) :
              g[k] = IF k = 0 THEN 0 ELSE g[k - 1] + sizes[k]
        <3> TAKE k \in 0..(m + 1)
        <3>1. CASE k <= m
            <4>0. k \in 0..m
                BY <3>1
            <4>1. f[k] = IF k = 0 THEN 0 ELSE f[k - 1] + sizes[k]
                BY <2>1, <4>0, Zenon DEF Sums
            <4>2. k # 0 => k - 1 \in 0..m
                BY <3>1
            <4>3. g[k] = f[k] /\ (k # 0 => g[k - 1] = f[k - 1])
                BY <2>2, <3>1, <4>2
            <4> QED BY <4>1, <4>3
        <3>2. CASE k = m + 1
            <4>1. k # 0 /\ k - 1 = m /\ ~(k <= m) /\ m \in 0..m
                BY <3>2
            <4>2. g[k - 1] = f[m]
                BY <2>2, <4>1
            <4> QED BY <4>1, <4>2
        <3> QED BY <3>1, <3>2
    <2> HIDE DEF g
    <2>4. Sums(g, sizes, m + 1)
        <3>1. g = [k \in 0..(m + 1) |-> g[k]]
            BY DEF g
        <3> QED BY <2>3, <3>1 DEF Sums
    <2> QED BY <2>4
<1>3. Nat \subseteq S
    BY <1>1, <1>2, NaturalsByInduction
<1> QED BY <1>3

(* The total of some sizes is the last of their sums.                         *)
LEMMA TotalIsASum ==
    ASSUME NEW sizes, Len(sizes) \in Nat
    PROVE  \E after : Sums(after, sizes, Len(sizes)) /\ TotalOf(sizes) = after[Len(sizes)]
<1>1. TotalOf(sizes) = (CHOOSE after : Sums(after, sizes, Len(sizes)))[Len(sizes)]
    BY Zenon DEF TotalOf, Sums
<1>2. \E after : Sums(after, sizes, Len(sizes))
    BY SumsExist
<1> QED BY <1>1, <1>2

(* Two lists that begin alike have the same sums so far.                      *)
LEMMA SumsAreUnique ==
    ASSUME NEW s, NEW t, NEW m \in Nat, NEW n \in Nat, NEW l \in Nat, l <= m, l <= n,
           \A i \in 1..l : s[i] = t[i] /\ s[i] \in Nat,
           NEW f, Sums(f, s, m), NEW g, Sums(g, t, n)
    PROVE  \A k \in 0..l : f[k] = g[k] /\ f[k] \in Nat
<1> DEFINE S == {k \in Nat : k <= l => f[k] = g[k] /\ f[k] \in Nat}
<1>1. /\ \A k \in 0..m : f[k] = IF k = 0 THEN 0 ELSE f[k - 1] + s[k]
      /\ \A k \in 0..n : g[k] = IF k = 0 THEN 0 ELSE g[k - 1] + t[k]
    BY Zenon DEF Sums
<1>2. 0 \in S
    BY <1>1
<1>3. ASSUME NEW k \in Nat, k \in S PROVE k + 1 \in S
    <2> SUFFICES ASSUME k + 1 <= l PROVE f[k + 1] = g[k + 1] /\ f[k + 1] \in Nat
        OBVIOUS
    <2>1. k + 1 \in 0..m /\ k + 1 \in 0..n /\ k + 1 \in 1..l /\ k + 1 # 0 /\ (k + 1) - 1 = k
        OBVIOUS
    <2>2. f[k + 1] = f[k] + s[k + 1] /\ g[k + 1] = g[k] + t[k + 1]
        BY <1>1, <2>1
    <2>3. f[k] = g[k] /\ f[k] \in Nat /\ s[k + 1] = t[k + 1] /\ s[k + 1] \in Nat
        BY <1>3, <2>1
    <2> QED BY <2>2, <2>3
<1>4. Nat \subseteq S
    BY <1>2, <1>3, NaturalsByInduction
<1> QED BY <1>4

(* A total is a number; one more size adds to it.                             *)
LEMMA TotalOfNone ==
    TotalOf(<<>>) = 0
<1>1. PICK f : Sums(f, <<>>, Len(<<>>)) /\ TotalOf(<<>>) = f[Len(<<>>)]
    BY TotalIsASum
<1>2. Len(<<>>) = 0
    OBVIOUS
<1>3. \A k \in 0..0 : f[k] = IF k = 0 THEN 0 ELSE f[k - 1] + (<<>>)[k]
    BY <1>1, <1>2, Zenon DEF Sums
<1> QED BY <1>1, <1>2, <1>3

(* The total grows by the size that is added.                                 *)
LEMMA TotalOfOneMore ==
    ASSUME NEW s \in Seq(Nat), NEW n \in Nat
    PROVE  TotalOf(s) \in Nat /\ TotalOf(Append(s, n)) = TotalOf(s) + n
<1>1. PICK t \in Seq(Nat) : t = Append(s, n)
    <2>1. Append(s, n) \in Seq(Nat)
        OBVIOUS
    <2> QED BY <2>1
<1>2. PICK l \in Nat : l = Len(s)
    <2>1. Len(s) \in Nat
        OBVIOUS
    <2> QED BY <2>1
<1>3. Len(t) = l + 1 /\ t[l + 1] = n /\ \A i \in 1..l : s[i] = t[i] /\ s[i] \in Nat
    BY <1>1, <1>2
<1>4. PICK f : Sums(f, s, l) /\ TotalOf(s) = f[l]
    BY <1>2, TotalIsASum
<1>5. PICK g : Sums(g, t, l + 1) /\ TotalOf(t) = g[l + 1]
    <2>1. Len(t) \in Nat
        BY <1>3
    <2> QED BY <1>3, <2>1, TotalIsASum
<1>6. \A k \in 0..l : f[k] = g[k] /\ f[k] \in Nat
    <2>1. PICK m \in Nat : m = l + 1
        OBVIOUS
    <2>2. l <= l /\ l <= m
        BY <2>1
    <2>3. Sums(f, s, l) /\ Sums(g, t, m)
        BY <1>4, <1>5, <2>1
    <2>4. \A i \in 1..l : s[i] = t[i] /\ s[i] \in Nat
        BY <1>3
    <2> QED BY <2>2, <2>3, <2>4, SumsAreUnique
<1>7. \A k \in 0..(l + 1) : g[k] = IF k = 0 THEN 0 ELSE g[k - 1] + t[k]
    BY <1>5, Zenon DEF Sums
<1>8. g[l + 1] = g[l] + t[l + 1]
    BY <1>7
<1> QED BY <1>1, <1>3, <1>4, <1>5, <1>6, <1>8

(* Equal sizes.                                                               *)
LEMMA TotalOfEqual ==
    ASSUME NEW l \in Nat, NEW n \in Nat
    PROVE  TotalOf([i \in 1..l |-> n]) = l * n
<1>1. PICK sizes \in Seq(Nat) : sizes = [i \in 1..l |-> n] /\ Len(sizes) = l
    <2>1. [i \in 1..l |-> n] \in Seq(Nat) /\ Len([i \in 1..l |-> n]) = l
        OBVIOUS
    <2> QED BY <2>1
<1>2. PICK sums : Sums(sums, sizes, l) /\ TotalOf(sizes) = sums[l]
    BY <1>1, TotalIsASum
<1>3. \A k \in 0..l : sums[k] = IF k = 0 THEN 0 ELSE sums[k - 1] + sizes[k]
    BY <1>2, Zenon DEF Sums
<1> DEFINE S == {k \in Nat : k <= l => sums[k] = k * n}
<1>4. 0 \in S
    BY <1>3
<1>5. ASSUME NEW k \in Nat, k \in S PROVE k + 1 \in S
    <2> SUFFICES ASSUME k + 1 <= l PROVE sums[k + 1] = (k + 1) * n
        OBVIOUS
    <2>1. k + 1 \in 0..l /\ k + 1 \in 1..l /\ k + 1 # 0 /\ (k + 1) - 1 = k /\ k <= l
        OBVIOUS
    <2>2. sums[k + 1] = sums[k] + n /\ sums[k] = k * n
        BY <1>1, <1>3, <1>5, <2>1
    <2>3. k * n + n = (k + 1) * n
        OBVIOUS
    <2> QED BY <2>2, <2>3
<1>6. Nat \subseteq S
    <2> HIDE DEF S
    <2> QED BY <1>4, <1>5, NaturalsByInduction
<1> QED BY <1>1, <1>2, <1>6

-------------------------------------------------------------------------------
(* Nested spans                                                               *)

(* Sizes that grow by at most one at one place grow by at most one together.  *)
LEMMA TotalOfOneLonger ==
    ASSUME NEW n \in Nat, NEW p \in Nat, NEW f \in [1..n -> Nat], NEW g \in [1..n -> Nat],
           \A j \in 1..n : g[j] <= IF j = p THEN f[j] + 1 ELSE f[j]
    PROVE  /\ TotalOf(f) \in Nat /\ TotalOf(g) \in Nat
           /\ TotalOf(g) <= IF p \in 1..n THEN TotalOf(f) + 1 ELSE TotalOf(f)
<1>1. f \in Seq(Nat) /\ g \in Seq(Nat) /\ Len(f) = n /\ Len(g) = n
    OBVIOUS
<1>2. PICK s : Sums(s, f, n) /\ TotalOf(f) = s[n]
    BY <1>1, TotalIsASum
<1>3. PICK t : Sums(t, g, n) /\ TotalOf(g) = t[n]
    BY <1>1, TotalIsASum
<1>4. /\ \A k \in 0..n : s[k] = IF k = 0 THEN 0 ELSE s[k - 1] + f[k]
      /\ \A k \in 0..n : t[k] = IF k = 0 THEN 0 ELSE t[k - 1] + g[k]
    BY <1>2, <1>3, Zenon DEF Sums
<1> DEFINE S == {k \in Nat : k <= n =>
                    /\ s[k] \in Nat /\ t[k] \in Nat
                    /\ t[k] <= IF p \in 1..k THEN s[k] + 1 ELSE s[k]}
<1>5. 0 \in S
    <2>1. s[0] = 0 /\ t[0] = 0 /\ p \notin 1..0
        BY <1>4
    <2> QED BY <2>1
<1>6. ASSUME NEW k \in Nat, k \in S PROVE k + 1 \in S
    <2> SUFFICES ASSUME k + 1 <= n
                 PROVE  /\ s[k + 1] \in Nat /\ t[k + 1] \in Nat
                        /\ t[k + 1] <= IF p \in 1..(k + 1) THEN s[k + 1] + 1
                                       ELSE s[k + 1]
        OBVIOUS
    <2>1. k + 1 \in 0..n /\ k + 1 \in 1..n /\ k + 1 # 0 /\ (k + 1) - 1 = k
        OBVIOUS
    <2>2. s[k + 1] = s[k] + f[k + 1] /\ t[k + 1] = t[k] + g[k + 1]
        BY <1>4, <2>1
    <2>3. /\ s[k] \in Nat /\ t[k] \in Nat
          /\ t[k] <= IF p \in 1..k THEN s[k] + 1 ELSE s[k]
        BY <1>6
    <2>4. /\ f[k + 1] \in Nat /\ g[k + 1] \in Nat
          /\ g[k + 1] <= IF k + 1 = p THEN f[k + 1] + 1 ELSE f[k + 1]
        BY <2>1
    <2> HIDE DEF S
    <2>5. PICK a \in Nat, b \in Nat, c \in Nat, d \in Nat :
              a = s[k] /\ b = t[k] /\ c = f[k + 1] /\ d = g[k + 1]
        BY <2>3, <2>4
    <2>6. (b <= IF p \in 1..k THEN a + 1 ELSE a) /\ (d <= IF k + 1 = p THEN c + 1 ELSE c)
        BY <2>3, <2>4, <2>5
    <2>7. b + d <= IF p \in 1..(k + 1) THEN a + c + 1 ELSE a + c
        BY <2>6
    <2>8. s[k + 1] = a + c /\ t[k + 1] = b + d
        BY <2>2, <2>5
    <2> QED BY <2>7, <2>8
<1>7. Nat \subseteq S
    <2> HIDE DEF S
    <2> QED BY <1>5, <1>6, NaturalsByInduction
<1> QED BY <1>2, <1>3, <1>7

(* The children f and g of span i before and after time passes for a stack.   *)
Ageing(n, stack, parent, old, new, i, f, g) ==
    /\ \A k \in 1..Len(stack), l \in 1..Len(stack) : k < l => stack[k] < stack[l]
    /\ \A k \in 1..Len(stack) : stack[k] < n =>
         parent[stack[k] + 1] = IF k = 1 THEN {} ELSE {stack[k - 1]}
    /\ \A j \in 1..n : new[j] = IF j - 1 \in Range(stack) THEN old[j] + 1 ELSE old[j]
    /\ \A j \in 1..n : f[j] = IF parent[j] = {i - 1} THEN old[j] ELSE 0
    /\ \A j \in 1..n : g[j] = IF parent[j] = {i - 1} THEN new[j] ELSE 0

OneMayAge(stack, i, f, g) ==
    /\ TotalOf(f) \in Nat /\ TotalOf(g) \in Nat /\ TotalOf(g) <= TotalOf(f) + 1
    /\ (\A k \in 1..Len(stack) : k < Len(stack) => stack[k] # i - 1) =>
          TotalOf(g) <= TotalOf(f)

(* Time passes for the spans on a stack: of the children of a span, only the  *)
(* one above it on the stack grows older.                                     *)
LEMMA OneChildAges ==
    ASSUME NEW n \in Nat, NEW stack \in Seq(Nat), NEW parent,
           NEW old \in [1..n -> Nat], NEW new \in [1..n -> Nat], NEW i \in 1..n,
           NEW f \in [1..n -> Nat], NEW g \in [1..n -> Nat],
           Ageing(n, stack, parent, old, new, i, f, g)
    PROVE  OneMayAge(stack, i, f, g)
<1>a. \A k \in 1..Len(stack), l \in 1..Len(stack) : k < l => stack[k] < stack[l]
    BY DEF Ageing
<1>b. \A k \in 1..Len(stack) : stack[k] < n =>
          parent[stack[k] + 1] = IF k = 1 THEN {} ELSE {stack[k - 1]}
    BY DEF Ageing
<1>c. \A j \in 1..n :
          /\ new[j] = IF j - 1 \in Range(stack) THEN old[j] + 1 ELSE old[j]
          /\ f[j] = IF parent[j] = {i - 1} THEN old[j] ELSE 0
          /\ g[j] = IF parent[j] = {i - 1} THEN new[j] ELSE 0
    BY DEF Ageing
<1> SUFFICES /\ TotalOf(f) \in Nat /\ TotalOf(g) \in Nat
             /\ TotalOf(g) <= TotalOf(f) + 1
             /\ (\A k \in 1..Len(stack) : k < Len(stack) => stack[k] # i - 1) =>
                   TotalOf(g) <= TotalOf(f)
    BY DEF OneMayAge
<1>2. PICK m \in Nat : m = Len(stack) /\ DOMAIN stack = 1..m
    OBVIOUS
<1>3. \A k \in 1..m : stack[k] \in Nat
    BY <1>2
<1>4. ASSUME NEW j \in 1..n, parent[j] = {i - 1}, j - 1 \in Range(stack)
      PROVE  \E k \in 1..m : k < m /\ stack[k] = i - 1 /\ j = stack[k + 1] + 1
    <2>1. PICK l \in 1..m : stack[l] = j - 1
        BY <1>2, <1>4 DEF Range
    <2>2. stack[l] < n /\ stack[l] + 1 = j
        BY <2>1
    <2>3. parent[j] = IF l = 1 THEN {} ELSE {stack[l - 1]}
        BY <1>2, <1>b, <2>2
    <2>4. l # 1 /\ stack[l - 1] = i - 1
        BY <1>4, <2>3
    <2>5. l - 1 \in 1..m /\ l - 1 < m /\ (l - 1) + 1 = l
        BY <2>4
    <2> QED BY <2>2, <2>4, <2>5
<1>5. CASE \E k \in 1..m : k < m /\ stack[k] = i - 1
    <2>1. PICK k \in 1..m : k < m /\ stack[k] = i - 1
        BY <1>5
    <2>0. k + 1 \in 1..m
        BY <2>1
    <2>9. PICK x \in Nat : x = stack[k + 1]
        BY <1>3, <2>0
    <2>2. PICK p \in Nat : p = stack[k + 1] + 1
        <3>1. x + 1 \in Nat
            OBVIOUS
        <3> QED BY <2>9, <3>1
    <2>3. ASSUME NEW j \in 1..n PROVE g[j] <= IF j = p THEN f[j] + 1 ELSE f[j]
        <3>1. CASE parent[j] = {i - 1} /\ j - 1 \in Range(stack)
            <4>1. PICK l \in 1..m : l < m /\ stack[l] = i - 1 /\ j = stack[l + 1] + 1
                BY <1>4, <3>1
            <4>2. (l < k => stack[l] < stack[k]) /\ (k < l => stack[k] < stack[l])
                BY <1>2, <1>a
            <4>3. l = k
                <5>1. ~(i - 1 < i - 1)
                    OBVIOUS
                <5>2. ~(l < k) /\ ~(k < l)
                    BY <2>1, <4>1, <4>2, <5>1
                <5> QED BY <5>2
            <4>4. j = p /\ f[j] = old[j] /\ g[j] = new[j] /\ new[j] = old[j] + 1
                BY <1>c, <2>2, <3>1, <4>1, <4>3
            <4>5. PICK y \in Nat : y = old[j]
                OBVIOUS
            <4>6. g[j] = f[j] + 1 /\ f[j] + 1 <= f[j] + 1
                BY <4>4, <4>5
            <4> QED BY <4>4, <4>6, Zenon
        <3>2. CASE ~(parent[j] = {i - 1} /\ j - 1 \in Range(stack))
            <4>1. g[j] = f[j] /\ f[j] \in Nat
                BY <1>c, <3>2
            <4>2. PICK y \in Nat : y = f[j] /\ y = g[j]
                BY <4>1
            <4>3. y <= y /\ y <= y + 1
                OBVIOUS
            <4> QED BY <4>2, <4>3, Zenon
        <3> QED BY <3>1, <3>2
    <2>4. TotalOf(f) \in Nat /\ TotalOf(g) \in Nat
          /\ TotalOf(g) <= IF p \in 1..n THEN TotalOf(f) + 1 ELSE TotalOf(f)
        BY <2>3, TotalOfOneLonger
    <2>5. ~\A l \in 1..Len(stack) : l < Len(stack) => stack[l] # i - 1
        BY <1>2, <2>1
    <2>6. PICK a \in Nat, b \in Nat : a = TotalOf(f) /\ b = TotalOf(g)
        BY <2>4
    <2>7. b <= IF p \in 1..n THEN a + 1 ELSE a
        BY <2>4, <2>6
    <2>8. b <= a + 1
        BY <2>7
    <2> QED BY <2>5, <2>6, <2>8, Zenon
<1>6. CASE ~\E k \in 1..m : k < m /\ stack[k] = i - 1
    <2>1. ASSUME NEW j \in 1..n PROVE g[j] <= IF j = 0 THEN f[j] + 1 ELSE f[j]
        <3>1. ~(parent[j] = {i - 1} /\ j - 1 \in Range(stack))
            BY <1>4, <1>6
        <3>2. g[j] = f[j] /\ f[j] \in Nat
            BY <1>c, <3>1
        <3> QED BY <3>2
    <2>2. TotalOf(f) \in Nat /\ TotalOf(g) \in Nat
          /\ TotalOf(g) <= IF 0 \in 1..n THEN TotalOf(f) + 1 ELSE TotalOf(f)
        <3>1. 0 \in Nat
            OBVIOUS
        <3> QED BY <2>1, <3>1, TotalOfOneLonger, Zenon
    <2> QED BY <2>2
<1> QED BY <1>5, <1>6

(* What is needed of the spans of a recorder and its stack.                   *)
Tables(spans, active, clock, begun, capacity) ==
    /\ spans \in Seq(Spans) /\ active \in Seq(Nat)
    /\ clock \in Nat /\ begun \in Nat /\ capacity \in Nat
    /\ Numbered(spans, clock, begun, capacity) /\ Stacked(spans, active, begun)

(* Ages are numbers, and so are those of the children.                        *)
LEMMA AgesAreNatural ==
    ASSUME NEW spans, NEW active, NEW clock, NEW begun, NEW capacity,
           Tables(spans, active, clock, begun, capacity)
    PROVE  \A i \in 1..Len(spans) :
             /\ Age(spans, active, clock, i) \in Nat
             /\ \A j \in 1..Len(spans) : ChildAge(spans, active, clock, i, j) \in Nat
<1>1. ASSUME NEW j \in 1..Len(spans) PROVE Age(spans, active, clock, j) \in Nat
    <2>1. spans[j] \in Spans /\ spans[j].opened <= clock /\ spans[j].duration \in Nat
        BY DEF Tables, Numbered
    <2>2. spans[j].opened \in Nat /\ clock \in Nat
        BY <2>1 DEF Spans, Tables
    <2>3. clock - spans[j].opened \in Nat
        BY <2>1, <2>2
    <2> QED BY <2>1, <2>3 DEF Age
<1> QED BY <1>1 DEF ChildAge

(* The spans that are open, outermost first, and the span each hangs off.     *)
Ordered(spans, active, begun, capacity) ==
    /\ Len(spans) \in Nat /\ Len(active) \in Nat
    /\ \A k \in 1..Len(active) : active[k] \in Nat /\ active[k] < begun
    /\ \A k \in 1..Len(active), l \in 1..Len(active) : k < l => active[k] < active[l]
    /\ \A k \in 1..Len(active) : active[k] < Len(spans) =>
         spans[active[k] + 1].parent = IF k = 1 THEN {} ELSE {active[k - 1]}
    /\ Len(spans) <= begun /\ Len(spans) <= capacity
    /\ Len(spans) < capacity => Len(spans) = begun

(* What is below the top of the stack.                                        *)
LEMMA StackIsOrdered ==
    ASSUME NEW spans, NEW active, NEW clock, NEW begun, NEW capacity,
           Tables(spans, active, clock, begun, capacity)
    PROVE  Ordered(spans, active, begun, capacity)
<1>1. Len(spans) \in Nat /\ Len(active) \in Nat /\ begun \in Nat /\ capacity \in Nat
      /\ \A k \in 1..Len(active) : active[k] \in Nat
    BY DEF Tables
<1>2. PICK n \in Nat, x \in Nat, c \in Nat : n = Len(spans) /\ x = begun /\ c = capacity
    BY <1>1
<1>3. n = IF x < c THEN x ELSE c
    BY <1>2 DEF Tables, Numbered
<1>4. n <= x /\ n <= c /\ (n < c => n = x)
    BY <1>3
<1> QED BY <1>1, <1>2, <1>4 DEF Tables, Stacked, Ordered

(* The ages of the spans, and of the children of span i, once time has passed *)
(* for those on the stack.                                                    *)
Passing(spans, active, clock, stack, n, i, new, g) ==
    /\ Len(stack) <= Len(active) /\ \A k \in 1..Len(stack) : stack[k] = active[k]
    /\ n = Len(spans)
    /\ \A j \in 1..n : new[j] = IF j - 1 \in Range(stack)
                                THEN Age(spans, active, clock, j) + 1
                                ELSE Age(spans, active, clock, j)
    /\ \A j \in 1..n : g[j] = IF spans[j].parent = {i - 1} THEN new[j] ELSE 0

TimeLeft(stack, i, g, new) ==
    /\ TotalOf(g) \in Nat /\ TotalOf(g) <= new[i]
    /\ \A l \in 1..Len(stack) :
         l = Len(stack) /\ stack[l] = i - 1 => TotalOf(g) + 1 <= new[i]

(* When time passes for the spans that stay open, no span is overtaken by its *)
(* children, and the innermost one has a unit to spare for a child to come.   *)
LEMMA TimePasses ==
    ASSUME NEW spans, NEW active, NEW clock, NEW begun, NEW capacity,
           Tables(spans, active, clock, begun, capacity), Within(spans, active, clock),
           NEW stack \in Seq(Nat), NEW n \in Nat, NEW new \in [1..n -> Nat],
           NEW i \in 1..n, NEW g \in [1..n -> Nat],
           Passing(spans, active, clock, stack, n, i, new, g)
    PROVE  TimeLeft(stack, i, g, new)
<1> DEFINE age(j) == Age(spans, active, clock, j)
           parent == [j \in 1..n |-> spans[j].parent]
<1>p. /\ Len(stack) <= Len(active) /\ n = Len(spans)
      /\ \A k \in 1..Len(stack) : stack[k] = active[k]
    BY DEF Passing
<1>n. \A j \in 1..n : new[j] = IF j - 1 \in Range(stack) THEN age(j) + 1 ELSE age(j)
    BY DEF Passing
<1>1. /\ Len(active) \in Nat
      /\ \A k \in 1..Len(active) : active[k] \in Nat /\ active[k] < begun
      /\ \A k \in 1..Len(active), l \in 1..Len(active) : k < l => active[k] < active[l]
      /\ \A k \in 1..Len(active) : active[k] < Len(spans) =>
           spans[active[k] + 1].parent = IF k = 1 THEN {} ELSE {active[k - 1]}
    <2>1. Ordered(spans, active, begun, capacity)
        BY StackIsOrdered, Zenon
    <2> QED BY <2>1 DEF Ordered
<1>2. PICK m \in Nat : m = Len(stack) /\ DOMAIN stack = 1..m
    OBVIOUS
<1>3. \A k \in 1..m : k \in 1..Len(active) /\ stack[k] = active[k]
    BY <1>1, <1>2, <1>p
<1>4. \A k \in 1..m, l \in 1..m : k < l => stack[k] < stack[l]
    BY <1>1, <1>3, SMTT(40)
<1>5. ASSUME NEW k \in 1..m, stack[k] < n
      PROVE  parent[stack[k] + 1] = IF k = 1 THEN {} ELSE {stack[k - 1]}
    <2>1. k \in 1..Len(active) /\ stack[k] = active[k] /\ active[k] \in Nat
        BY <1>1, <1>3
    <2>2. stack[k] + 1 \in 1..n
        BY <1>5, <2>1
    <2>3. parent[stack[k] + 1] = spans[active[k] + 1].parent
        BY <2>1, <2>2
    <2>4. k # 1 => k - 1 \in 1..m
        OBVIOUS
    <2>5. k # 1 => stack[k - 1] = active[k - 1]
        BY <1>3, <2>4
    <2> HIDE DEF parent
    <2> QED BY <1>1, <1>5, <1>p, <2>1, <2>3, <2>5
<1>6. PICK old \in [1..n -> Nat] : \A j \in 1..n : old[j] = age(j)
    <2>1. \A j \in 1..n : age(j) \in Nat
        BY <1>p, AgesAreNatural
    <2> DEFINE h == [j \in 1..n |-> age(j)]
    <2>2. h \in [1..n -> Nat] /\ \A j \in 1..n : h[j] = age(j)
        BY <2>1
    <2> HIDE DEF h
    <2> QED BY <2>2
<1>7. PICK f \in [1..n -> Nat] :
          /\ f = [j \in 1..n |-> ChildAge(spans, active, clock, i, j)]
          /\ \A j \in 1..n : f[j] = IF parent[j] = {i - 1} THEN old[j] ELSE 0
    <2> DEFINE h == [j \in 1..n |-> ChildAge(spans, active, clock, i, j)]
    <2>1. h \in [1..n -> Nat]
        BY <1>p, AgesAreNatural
    <2>2. \A j \in 1..n : h[j] = IF parent[j] = {i - 1} THEN old[j] ELSE 0
        BY <1>6 DEF ChildAge
    <2> HIDE DEF h
    <2>3. h = [j \in 1..n |-> ChildAge(spans, active, clock, i, j)]
        BY DEF h
    <2> QED BY <2>1, <2>2, <2>3
<1>8. TotalOf(f) <= old[i]
    <2>1. TotalOf(f) <= age(i)
        BY <1>7, <1>p DEF Within
    <2> QED BY <1>6, <2>1
<1>9. \A j \in 1..n : g[j] = IF parent[j] = {i - 1} THEN new[j] ELSE 0
    BY DEF Passing
<1>10. \A j \in 1..n : new[j] = IF j - 1 \in Range(stack) THEN old[j] + 1 ELSE old[j]
    BY <1>6, <1>n
<1> HIDE DEF parent, age
<1>11. /\ TotalOf(f) \in Nat /\ TotalOf(g) \in Nat /\ TotalOf(g) <= TotalOf(f) + 1
       /\ (\A k \in 1..m : k < m => stack[k] # i - 1) => TotalOf(g) <= TotalOf(f)
    <2>1. /\ \A k \in 1..Len(stack), l \in 1..Len(stack) : k < l => stack[k] < stack[l]
          /\ \A k \in 1..Len(stack) : stack[k] < n =>
               parent[stack[k] + 1] = IF k = 1 THEN {} ELSE {stack[k - 1]}
        BY <1>2, <1>4, <1>5
    <2>2. \A j \in 1..n : f[j] = IF parent[j] = {i - 1} THEN old[j] ELSE 0
        BY <1>7
    <2>3. Ageing(n, stack, parent, old, new, i, f, g)
        BY <1>9, <1>10, <2>1, <2>2, Zenon DEF Ageing
    <2>4. OneMayAge(stack, i, f, g)
        BY <2>3, OneChildAges, Zenon
    <2> QED BY <1>2, <2>4 DEF OneMayAge
<1>12. PICK a \in Nat, b \in Nat, c \in Nat, d \in Nat :
           a = TotalOf(f) /\ b = TotalOf(g) /\ c = old[i] /\ d = new[i]
    BY <1>11
<1>13. d = IF i - 1 \in Range(stack) THEN c + 1 ELSE c
    BY <1>10, <1>12
<1>14. CASE i - 1 \in Range(stack)
    <2>1. b <= d
        BY <1>8, <1>11, <1>12, <1>13, <1>14
    <2>2. ASSUME stack[m] = i - 1, m \in 1..m PROVE b + 1 <= d
        <3>1. ASSUME NEW k \in 1..m, k < m PROVE stack[k] # i - 1
            <4>1. stack[k] < stack[m]
                BY <1>4, <2>2, <3>1
            <4>2. ~(i - 1 < i - 1)
                OBVIOUS
            <4> QED BY <2>2, <4>1, <4>2
        <3>2. b <= a
            BY <1>11, <1>12, <3>1
        <3> QED BY <1>8, <1>12, <1>13, <1>14, <3>2
    <2> QED BY <1>2, <1>12, <2>1, <2>2 DEF TimeLeft
<1>15. CASE i - 1 \notin Range(stack)
    <2>1. \A k \in 1..m : stack[k] # i - 1
        BY <1>2, <1>15 DEF Range
    <2>2. b <= a
        BY <1>11, <1>12, <2>1
    <2>3. b <= d
        BY <1>8, <1>12, <1>13, <1>15, <2>2
    <2> QED BY <1>2, <1>12, <2>1, <2>3 DEF TimeLeft
<1> QED BY <1>14, <1>15

(* One more size adds to the total.                                           *)
LEMMA TotalOfOneMoreAge ==
    ASSUME NEW n \in Nat, NEW f \in [1..n -> Nat], NEW g \in [1..(n + 1) -> Nat],
           \A j \in 1..n : g[j] = f[j]
    PROVE  TotalOf(f) \in Nat /\ TotalOf(g) = TotalOf(f) + g[n + 1]
<1>1. f \in Seq(Nat) /\ Len(f) = n
    OBVIOUS
<1>2. PICK x \in Nat : x = g[n + 1]
    <2>1. n + 1 \in 1..(n + 1)
        OBVIOUS
    <2> QED BY <2>1
<1>3. PICK h : h = Append(f, x)
    OBVIOUS
<1>4. h \in [1..(n + 1) -> Nat]
    <2>1. h \in Seq(Nat) /\ Len(h) = n + 1
        BY <1>1, <1>3
    <2>2. DOMAIN h = 1..(n + 1) /\ \A j \in 1..(n + 1) : h[j] \in Nat
        BY <2>1
    <2>3. h = [j \in 1..(n + 1) |-> h[j]]
        BY <2>1, <2>2
    <2> QED BY <2>2, <2>3
<1>5. \A j \in 1..(n + 1) : h[j] = g[j]
    BY <1>1, <1>2, <1>3
<1>6. h = g
    BY <1>4, <1>5
<1>7. TotalOf(f) \in Nat /\ TotalOf(h) = TotalOf(f) + x
    BY <1>1, <1>3, TotalOfOneMore
<1> QED BY <1>2, <1>6, <1>7

(* Sizes that are all zero have no total.                                     *)
LEMMA TotalOfNothing ==
    ASSUME NEW n \in Nat, NEW g \in [1..n -> Nat], \A j \in 1..n : g[j] = 0
    PROVE  TotalOf(g) = 0
<1>1. g = [j \in 1..n |-> 0]
    OBVIOUS
<1>2. TotalOf([j \in 1..n |-> 0]) = n * 0
    <2>1. 0 \in Nat
        OBVIOUS
    <2> QED BY <2>1, TotalOfEqual
<1>3. n * 0 = 0
    OBVIOUS
<1> QED BY <1>1, <1>2, <1>3

(* What begin does to the tables of a recorder.                               *)
Opens(spans, active, clock, begun, capacity, longer, higher) ==
    /\ longer \in Seq(Spans) /\ higher \in Seq(Nat)
    /\ Len(longer) = IF Len(spans) < capacity THEN Len(spans) + 1 ELSE Len(spans)
    /\ \A j \in 1..Len(spans) : longer[j] = spans[j]
    /\ Len(spans) < capacity =>
        /\ longer[Len(spans) + 1].sequence = begun
        /\ longer[Len(spans) + 1].opened = clock
        /\ longer[Len(spans) + 1].duration = 0
        /\ longer[Len(spans) + 1].parent =
               IF Len(active) = 0 THEN {} ELSE {active[Len(active)]}
    /\ Len(higher) = Len(active) + 1 /\ higher[Len(active) + 1] = begun
    /\ \A k \in 1..Len(active) : higher[k] = active[k]

(* A new span keeps the tables in order.                                      *)
LEMMA OpenedTables ==
    ASSUME NEW spans, NEW active, NEW clock, NEW begun, NEW capacity, NEW longer, NEW higher,
           Tables(spans, active, clock, begun, capacity),
           Opens(spans, active, clock, begun, capacity, longer, higher)
    PROVE  Tables(longer, higher, clock + 1, begun + 1, capacity)
<1>1. Ordered(spans, active, begun, capacity)
    BY StackIsOrdered, Zenon
<1>2. PICK n \in Nat, m \in Nat, b \in Nat, t \in Nat, c \in Nat :
        n = Len(spans) /\ m = Len(active) /\ b = begun /\ t = clock /\ c = capacity
    BY <1>1 DEF Ordered, Tables
<1>3. n = IF b < c THEN b ELSE c
    BY <1>2 DEF Tables, Numbered
<1>4. /\ Len(longer) = IF n < c THEN n + 1 ELSE n
      /\ \A j \in 1..n : longer[j] = spans[j]
      /\ Len(higher) = m + 1 /\ higher[m + 1] = b
      /\ \A k \in 1..m : higher[k] = active[k]
      /\ longer \in Seq(Spans) /\ higher \in Seq(Nat)
    BY <1>2 DEF Opens
<1>5. n < c =>
        /\ longer[n + 1].sequence = b /\ longer[n + 1].opened = t
        /\ longer[n + 1].duration = 0
        /\ longer[n + 1].parent = IF m = 0 THEN {} ELSE {active[m]}
    BY <1>2 DEF Opens
<1>6. \A k \in 1..m : active[k] \in Nat /\ active[k] < b
    BY <1>1, <1>2 DEF Ordered
<1>7. \A j \in 1..n : /\ spans[j].sequence = j - 1 /\ spans[j].opened <= t
                      /\ spans[j].duration \in Nat
                      /\ \A p \in spans[j].parent : p < j - 1
    BY <1>2 DEF Tables, Numbered
<1>8. \A j \in 1..n : spans[j].opened \in Nat
    <2>1. \A j \in 1..n : spans[j] \in Spans
        BY <1>2 DEF Tables
    <2> QED BY <2>1 DEF Spans
<1>9. Numbered(longer, clock + 1, begun + 1, capacity)
    <2>1. Len(longer) = IF b + 1 < c THEN b + 1 ELSE c
        BY <1>3, <1>4
    <2>2. ASSUME NEW j \in 1..Len(longer)
          PROVE  /\ longer[j].sequence = j - 1 /\ longer[j].opened <= t + 1
                 /\ longer[j].duration \in Nat
                 /\ \A p \in longer[j].parent : p < j - 1
        <3>1. CASE j \in 1..n
            <4>1. PICK o \in Nat : o = spans[j].opened
                BY <1>8, <3>1
            <4>2. o <= t
                BY <1>7, <3>1, <4>1
            <4>3. o <= t + 1
                BY <4>2
            <4> QED BY <1>4, <1>7, <3>1, <4>1, <4>3
        <3>2. CASE j \notin 1..n
            <4>1. j = n + 1 /\ n < c /\ n = b /\ t <= t + 1
                BY <1>3, <1>4, <3>2
            <4>2. \A p \in longer[j].parent : p < j - 1
                <5>1. m # 0 => m \in 1..m
                    OBVIOUS
                <5>2. \A p \in longer[j].parent : m # 0 /\ p = active[m]
                    BY <1>5, <4>1
                <5>3. j - 1 = b
                    BY <4>1
                <5> QED BY <1>6, <5>1, <5>2, <5>3
            <4>3. j - 1 = b /\ 0 \in Nat
                BY <4>1
            <4> QED BY <1>5, <4>1, <4>2, <4>3
        <3> QED BY <3>1, <3>2
    <2> QED BY <1>2, <2>1, <2>2 DEF Numbered
<1>10. Stacked(longer, higher, begun + 1)
    <2>1. \A k \in 1..m, l \in 1..m : k < l => active[k] < active[l]
        BY <1>1, <1>2 DEF Ordered
    <2>2. \A k \in 1..m : active[k] < n =>
              spans[active[k] + 1].parent = IF k = 1 THEN {} ELSE {active[k - 1]}
        BY <1>1, <1>2 DEF Ordered
    <2>3. ASSUME NEW k \in 1..(m + 1)
          PROVE  /\ higher[k] < b + 1
                 /\ \A l \in 1..(m + 1) : k < l => higher[k] < higher[l]
                 /\ higher[k] < Len(longer) =>
                     longer[higher[k] + 1].parent = IF k = 1 THEN {} ELSE {higher[k - 1]}
        <3>1. CASE k \in 1..m
            <4>1. PICK a \in Nat : a = active[k] /\ a = higher[k] /\ a < b
                BY <1>4, <1>6, <3>1
            <4>2. ASSUME NEW l \in 1..(m + 1), k < l PROVE higher[k] < higher[l]
                <5>1. l \in 1..m \/ l = m + 1
                    OBVIOUS
                <5> QED BY <1>4, <2>1, <3>1, <4>1, <4>2, <5>1
            <4>3. ASSUME a < Len(longer)
                  PROVE  longer[a + 1].parent = IF k = 1 THEN {} ELSE {higher[k - 1]}
                <5>1. a < n
                    BY <1>3, <1>4, <4>1, <4>3
                <5>2. a + 1 \in 1..n
                    BY <5>1
                <5>3. k # 1 => k - 1 \in 1..m
                    BY <3>1
                <5>4. longer[a + 1].parent = spans[active[k] + 1].parent
                    BY <1>4, <4>1, <5>2
                <5>5. spans[active[k] + 1].parent = IF k = 1 THEN {} ELSE {active[k - 1]}
                    BY <2>2, <3>1, <4>1, <5>1
                <5>6. k # 1 => higher[k - 1] = active[k - 1]
                    BY <1>4, <5>3
                <5> QED BY <5>4, <5>5, <5>6
            <4>4. a < b + 1
                BY <4>1
            <4> QED BY <4>1, <4>2, <4>3, <4>4
        <3>2. CASE k \notin 1..m
            <4>1. k = m + 1 /\ higher[k] = b /\ b < b + 1
                BY <1>4, <3>2
            <4>2. \A l \in 1..(m + 1) : ~(k < l)
                BY <4>1
            <4>3. ASSUME b < Len(longer)
                  PROVE  longer[b + 1].parent = IF k = 1 THEN {} ELSE {higher[k - 1]}
                <5>1. n < c /\ n = b
                    BY <1>3, <1>4, <4>3
                <5>2. longer[b + 1].parent = IF m = 0 THEN {} ELSE {active[m]}
                    BY <1>5, <5>1
                <5>3. (k = 1 <=> m = 0) /\ k - 1 = m /\ (m # 0 => m \in 1..m)
                    BY <4>1
                <5>4. m # 0 => higher[k - 1] = active[m]
                    BY <1>4, <5>3
                <5> QED BY <5>2, <5>3, <5>4
            <4> QED BY <4>1, <4>2, <4>3
        <3> QED BY <3>1, <3>2
    <2> QED BY <1>2, <1>4, <2>3 DEF Stacked
<1>11. clock + 1 \in Nat /\ begun + 1 \in Nat /\ capacity \in Nat
    BY <1>2
<1> QED BY <1>4, <1>9, <1>10, <1>11, Zenon DEF Tables

(* A new span is a child of the innermost open one, which has lasted longer   *)
(* than its other children.                                                   *)
LEMMA OpenedWithin ==
    ASSUME NEW spans, NEW active, NEW clock, NEW begun, NEW capacity, NEW longer, NEW higher,
           Tables(spans, active, clock, begun, capacity), Within(spans, active, clock),
           Opens(spans, active, clock, begun, capacity, longer, higher)
    PROVE  Within(longer, higher, clock + 1)
<1>0. Tables(longer, higher, clock + 1, begun + 1, capacity)
    BY OpenedTables, Zenon
<1>1. Ordered(spans, active, begun, capacity)
    BY StackIsOrdered, Zenon
<1>2. PICK n \in Nat, m \in Nat, b \in Nat, t \in Nat, c \in Nat :
        n = Len(spans) /\ m = Len(active) /\ b = begun /\ t = clock /\ c = capacity
    BY <1>1 DEF Ordered, Tables
<1>3. n = IF b < c THEN b ELSE c
    BY <1>2 DEF Tables, Numbered
<1>4. /\ Len(longer) = IF n < c THEN n + 1 ELSE n
      /\ \A j \in 1..n : longer[j] = spans[j]
      /\ \A k \in 1..m : higher[k] = active[k]
      /\ DOMAIN higher = 1..(m + 1) /\ DOMAIN active = 1..m /\ higher[m + 1] = b
    <2>1. active \in Seq(Nat) /\ higher \in Seq(Nat) /\ Len(higher) = m + 1
        BY <1>2 DEF Opens, Tables
    <2>2. DOMAIN higher = 1..(m + 1) /\ DOMAIN active = 1..m
        BY <1>2, <2>1
    <2> QED BY <1>2, <2>2 DEF Opens
<1>5. n < c =>
        /\ longer[n + 1].opened = t
        /\ longer[n + 1].parent = IF m = 0 THEN {} ELSE {active[m]}
    BY <1>2 DEF Opens
<1>6. PICK w \in Nat : w = Len(longer)
    BY <1>4
<1> DEFINE aged == [j \in 1..n |-> Age(longer, higher, clock + 1, j)]
<1>7. /\ \A j \in 1..w : Age(longer, higher, clock + 1, j) \in Nat
      /\ \A i \in 1..w, j \in 1..w : ChildAge(longer, higher, clock + 1, i, j) \in Nat
    BY <1>0, <1>6, AgesAreNatural
<1>8. PICK new \in [1..n -> Nat] : \A j \in 1..n : new[j] = Age(longer, higher, clock + 1, j)
    <2>1. aged \in [1..n -> Nat]
        BY <1>4, <1>6, <1>7
    <2>2. \A j \in 1..n : aged[j] = Age(longer, higher, clock + 1, j)
        OBVIOUS
    <2> HIDE DEF aged
    <2> QED BY <2>1, <2>2
<1>9. \A j \in 1..n : new[j] = IF j - 1 \in Range(active)
                               THEN Age(spans, active, clock, j) + 1
                               ELSE Age(spans, active, clock, j)
    <2> TAKE j \in 1..n
    <2>1. j - 1 # b
        BY <1>3
    <2>2. j - 1 \in Range(higher) <=> j - 1 \in Range(active)
        <3>1. \A k \in 1..(m + 1) : k \in 1..m \/ k = m + 1
            OBVIOUS
        <3>2. \A k \in 1..m : k \in 1..(m + 1)
            OBVIOUS
        <3> QED BY <1>4, <2>1, <3>1, <3>2 DEF Range
    <2>3. spans[j].opened \in Nat /\ clock \in Nat
        <3>1. spans[j] \in Spans
            BY <1>2 DEF Tables
        <3> QED BY <1>2, <3>1 DEF Spans
    <2>4. (clock + 1) - spans[j].opened = (clock - spans[j].opened) + 1
        <3>1. PICK o \in Nat : o = spans[j].opened
            BY <2>3
        <3>2. (t + 1) - o = (t - o) + 1
            OBVIOUS
        <3> QED BY <1>2, <3>1, <3>2
    <2> QED BY <1>4, <1>8, <2>2, <2>4 DEF Age
<1>10. ASSUME NEW i \in 1..w
       PROVE  TotalOf([j \in 1..w |-> ChildAge(longer, higher, clock + 1, i, j)])
                  <= Age(longer, higher, clock + 1, i)
    <2>1. PICK g \in [1..w -> Nat] :
              /\ g = [j \in 1..w |-> ChildAge(longer, higher, clock + 1, i, j)]
              /\ \A j \in 1..w : g[j] = ChildAge(longer, higher, clock + 1, i, j)
        <3> DEFINE h == [j \in 1..w |-> ChildAge(longer, higher, clock + 1, i, j)]
        <3>1. h \in [1..w -> Nat]
            BY <1>7
        <3>2. \A j \in 1..w : h[j] = ChildAge(longer, higher, clock + 1, i, j)
            OBVIOUS
        <3>3. h = [j \in 1..w |-> ChildAge(longer, higher, clock + 1, i, j)]
            OBVIOUS
        <3> HIDE DEF h
        <3> QED BY <3>1, <3>2, <3>3
    <2>2. PICK f \in [1..n -> Nat] : \A j \in 1..n : f[j] = g[j]
        <3> DEFINE h == [j \in 1..n |-> g[j]]
        <3>1. h \in [1..n -> Nat]
            BY <1>4, <1>6
        <3>2. \A j \in 1..n : h[j] = g[j]
            OBVIOUS
        <3> HIDE DEF h
        <3> QED BY <3>1, <3>2
    <2>3. \A j \in 1..n : f[j] = IF spans[j].parent = {i - 1} THEN new[j] ELSE 0
        <3>1. \A j \in 1..n : j \in 1..w
            BY <1>4, <1>6
        <3> QED BY <1>4, <1>8, <2>1, <2>2, <3>1 DEF ChildAge
    <2>4. CASE i \in 1..n
        <3>1. /\ TotalOf(f) \in Nat /\ TotalOf(f) <= new[i]
              /\ m \in 1..m /\ active[m] = i - 1 => TotalOf(f) + 1 <= new[i]
            <4>1. /\ active \in Seq(Nat) /\ Len(active) <= Len(active)
                  /\ \A k \in 1..Len(active) : active[k] = active[k]
                BY <1>2 DEF Tables
            <4>2. Passing(spans, active, clock, active, n, i, new, f)
                BY <1>2, <1>9, <2>3, <4>1, Zenon DEF Passing
            <4>3. TimeLeft(active, i, f, new)
                BY <2>4, <4>1, <4>2, TimePasses, Zenon
            <4> QED BY <1>2, <4>3 DEF TimeLeft
        <3>2. PICK a \in Nat, d \in Nat : a = TotalOf(f) /\ d = new[i]
            BY <2>4, <3>1
        <3>3. CASE n < c
            <4>1. w = n + 1 /\ n + 1 \in 1..w
                BY <1>4, <1>6, <3>3
            <4>2. TotalOf(g) = TotalOf(f) + g[n + 1]
                <5>1. g \in [1..(n + 1) -> Nat] /\ \A j \in 1..n : g[j] = f[j]
                    BY <2>2, <4>1
                <5> QED BY <5>1, TotalOfOneMoreAge
            <4>3. g[n + 1] = IF longer[n + 1].parent = {i - 1}
                             THEN Age(longer, higher, clock + 1, n + 1) ELSE 0
                BY <2>1, <4>1 DEF ChildAge
            <4>4. Age(longer, higher, clock + 1, n + 1) = 1
                <5>1. (n + 1) - 1 = b /\ m + 1 \in 1..(m + 1)
                    BY <1>3, <3>3
                <5>2. (n + 1) - 1 \in Range(higher)
                    BY <1>4, <5>1 DEF Range
                <5>3. (clock + 1) - longer[n + 1].opened = 1
                    BY <1>2, <1>5, <3>3
                <5> QED BY <5>2, <5>3 DEF Age
            <4>5. CASE longer[n + 1].parent = {i - 1}
                <5>1. m # 0 /\ active[m] = i - 1
                    BY <1>5, <3>3, <4>5
                <5>2. m \in 1..m
                    BY <5>1
                <5>3. a + 1 <= d
                    BY <3>1, <3>2, <5>1, <5>2
                <5>4. TotalOf(g) = a + 1
                    BY <3>2, <4>2, <4>3, <4>4, <4>5
                <5> QED BY <1>8, <2>1, <2>4, <3>2, <5>3, <5>4
            <4>6. CASE longer[n + 1].parent # {i - 1}
                <5>1. TotalOf(g) = a /\ a <= d
                    BY <3>1, <3>2, <4>2, <4>3, <4>6
                <5> QED BY <1>8, <2>1, <2>4, <3>2, <5>1
            <4> QED BY <4>5, <4>6
        <3>4. CASE ~(n < c)
            <4>1. w = n
                BY <1>4, <1>6, <3>4
            <4>2. f = g
                BY <2>2, <4>1
            <4> QED BY <1>8, <2>1, <2>4, <3>1, <4>2
        <3> QED BY <3>3, <3>4
    <2>5. CASE i \notin 1..n
        <3>1. i = n + 1 /\ w = n + 1
            BY <1>4, <1>6, <2>5
        <3>2. ASSUME NEW j \in 1..w PROVE g[j] = 0
            <4>1. \A p \in longer[j].parent : p < j - 1
                BY <1>0, <1>6 DEF Tables, Numbered
            <4>2. ~(i - 1 < j - 1)
                BY <3>1
            <4>3. longer[j].parent # {i - 1}
                BY <4>1, <4>2
            <4> QED BY <2>1, <4>3 DEF ChildAge
        <3>3. TotalOf(g) = 0
            BY <3>2, TotalOfNothing
        <3>4. PICK d \in Nat : d = Age(longer, higher, clock + 1, i)
            BY <1>7
        <3> QED BY <2>1, <3>3, <3>4
    <2> QED BY <2>4, <2>5
<1> QED BY <1>6, <1>10 DEF Within

(* What close does to the tables: the innermost open span is taken off the    *)
(* stack and, where it is in the table, gets its duration.                    *)
Closes(spans, active, clock, ended, lower) ==
    /\ ended \in Seq(Spans) /\ lower \in Seq(Nat)
    /\ Len(active) = Len(lower) + 1
    /\ \A k \in 1..Len(lower) : lower[k] = active[k]
    /\ Len(ended) = Len(spans)
    /\ \A j \in 1..Len(spans) :
        /\ ended[j].sequence = spans[j].sequence /\ ended[j].parent = spans[j].parent
        /\ ended[j].opened = spans[j].opened
        /\ ended[j].duration = IF j - 1 = active[Len(active)]
                               THEN clock - spans[j].opened ELSE spans[j].duration

(* A span that ends keeps the tables in order.                                *)
LEMMA ClosedTables ==
    ASSUME NEW spans, NEW active, NEW clock, NEW begun, NEW capacity, NEW ended, NEW lower,
           Tables(spans, active, clock, begun, capacity),
           Closes(spans, active, clock, ended, lower)
    PROVE  Tables(ended, lower, clock + 1, begun, capacity)
<1>1. Ordered(spans, active, begun, capacity)
    BY StackIsOrdered, Zenon
<1>2. PICK n \in Nat, m \in Nat, b \in Nat, t \in Nat, c \in Nat :
        n = Len(spans) /\ m = Len(active) /\ b = begun /\ t = clock /\ c = capacity
    BY <1>1 DEF Ordered, Tables
<1>3. PICK l \in Nat : l = Len(lower)
    <2>1. lower \in Seq(Nat)
        BY DEF Closes
    <2>2. Len(lower) \in Nat
        BY <2>1
    <2> QED BY <2>2
<1>4. /\ m = l + 1 /\ Len(ended) = n
      /\ \A k \in 1..l : lower[k] = active[k]
      /\ \A j \in 1..n :
          /\ ended[j].sequence = spans[j].sequence /\ ended[j].parent = spans[j].parent
          /\ ended[j].opened = spans[j].opened
          /\ ended[j].duration = IF j - 1 = active[m]
                                 THEN t - spans[j].opened ELSE spans[j].duration
    BY <1>2, <1>3 DEF Closes
<1>5. \A j \in 1..n : /\ spans[j].sequence = j - 1 /\ spans[j].opened <= t
                      /\ spans[j].duration \in Nat
                      /\ \A p \in spans[j].parent : p < j - 1
    BY <1>2 DEF Tables, Numbered
<1>6. \A j \in 1..n : spans[j].opened \in Nat
    <2>1. \A j \in 1..n : spans[j] \in Spans
        BY <1>2 DEF Tables
    <2> QED BY <2>1 DEF Spans
<1>7. Numbered(ended, clock + 1, begun, capacity)
    <2>1. Len(ended) = IF b < c THEN b ELSE c
        BY <1>2, <1>4 DEF Tables, Numbered
    <2>2. ASSUME NEW j \in 1..n
          PROVE  /\ ended[j].sequence = j - 1 /\ ended[j].opened <= t + 1
                 /\ ended[j].duration \in Nat
                 /\ \A p \in ended[j].parent : p < j - 1
        <3>1. PICK o \in Nat : o = spans[j].opened
            BY <1>6
        <3>2. o <= t
            BY <1>5, <3>1
        <3>3. o <= t + 1 /\ t - o \in Nat
            BY <3>2
        <3>4. ended[j].duration \in Nat
            BY <1>4, <1>5, <3>1, <3>3
        <3> QED BY <1>4, <1>5, <3>1, <3>3, <3>4
    <2> QED BY <1>2, <1>4, <2>1, <2>2 DEF Numbered
<1>8. Stacked(ended, lower, begun)
    <2>1. \A k \in 1..m, i \in 1..m : k < i => active[k] < active[i]
        BY <1>1, <1>2 DEF Ordered
    <2>2. \A k \in 1..m : active[k] < n =>
              spans[active[k] + 1].parent = IF k = 1 THEN {} ELSE {active[k - 1]}
        BY <1>1, <1>2 DEF Ordered
    <2>3. \A k \in 1..m : active[k] \in Nat /\ active[k] < b
        BY <1>1, <1>2 DEF Ordered
    <2>4. \A k \in 1..l : k \in 1..m
        BY <1>4
    <2>5. ASSUME NEW k \in 1..l
          PROVE  /\ lower[k] < b
                 /\ \A i \in 1..l : k < i => lower[k] < lower[i]
                 /\ lower[k] < n =>
                     ended[lower[k] + 1].parent = IF k = 1 THEN {} ELSE {lower[k - 1]}
        <3>1. k \in 1..m /\ lower[k] = active[k] /\ active[k] \in Nat
            BY <1>4, <2>3, <2>4
        <3>2. \A i \in 1..l : k < i => lower[k] < lower[i]
            BY <1>4, <2>1, <2>4, <3>1
        <3>3. ASSUME active[k] < n
              PROVE  ended[active[k] + 1].parent = IF k = 1 THEN {} ELSE {lower[k - 1]}
            <4>1. active[k] + 1 \in 1..n
                BY <3>1, <3>3
            <4>2. k # 1 => k - 1 \in 1..l
                OBVIOUS
            <4>3. k # 1 => lower[k - 1] = active[k - 1]
                BY <1>4, <4>2
            <4>4. ended[active[k] + 1].parent = spans[active[k] + 1].parent
                BY <1>4, <4>1
            <4>5. spans[active[k] + 1].parent = IF k = 1 THEN {} ELSE {active[k - 1]}
                BY <2>2, <3>1, <3>3
            <4> QED BY <4>3, <4>4, <4>5
        <3> QED BY <2>3, <3>1, <3>2, <3>3
    <2> QED BY <1>2, <1>3, <1>4, <2>5 DEF Stacked
<1>9. clock + 1 \in Nat /\ begun \in Nat /\ capacity \in Nat
    BY <1>2
<1>10. ended \in Seq(Spans) /\ lower \in Seq(Nat)
    BY DEF Closes
<1> QED BY <1>7, <1>8, <1>9, <1>10, Zenon DEF Tables

(* The span that ends has lasted as long as it had; the others that are open  *)
(* go on.                                                                     *)
LEMMA ClosedWithin ==
    ASSUME NEW spans, NEW active, NEW clock, NEW begun, NEW capacity, NEW ended, NEW lower,
           Tables(spans, active, clock, begun, capacity), Within(spans, active, clock),
           Closes(spans, active, clock, ended, lower)
    PROVE  Within(ended, lower, clock + 1)
<1>0. Tables(ended, lower, clock + 1, begun, capacity)
    BY ClosedTables, Zenon
<1>1. Ordered(spans, active, begun, capacity)
    BY StackIsOrdered, Zenon
<1>2. PICK n \in Nat, m \in Nat, b \in Nat, t \in Nat, c \in Nat :
        n = Len(spans) /\ m = Len(active) /\ b = begun /\ t = clock /\ c = capacity
    BY <1>1 DEF Ordered, Tables
<1>3. PICK l \in Nat : l = Len(lower)
    <2>1. lower \in Seq(Nat)
        BY DEF Closes
    <2>2. Len(lower) \in Nat
        BY <2>1
    <2> QED BY <2>2
<1>4. /\ m = l + 1 /\ Len(ended) = n
      /\ \A k \in 1..l : lower[k] = active[k]
      /\ DOMAIN active = 1..m /\ DOMAIN lower = 1..l
    <2>1. active \in Seq(Nat) /\ lower \in Seq(Nat)
        BY DEF Closes, Tables
    <2>2. DOMAIN active = 1..m /\ DOMAIN lower = 1..l
        BY <1>2, <1>3, <2>1
    <2> QED BY <1>2, <1>3, <2>2 DEF Closes
<1>5. \A j \in 1..n :
          /\ ended[j].parent = spans[j].parent
          /\ ended[j].opened = spans[j].opened
          /\ ended[j].duration = IF j - 1 = active[m]
                                 THEN t - spans[j].opened ELSE spans[j].duration
    BY <1>2 DEF Closes
<1> DEFINE aged == [j \in 1..n |-> Age(ended, lower, clock + 1, j)]
<1>7. /\ \A j \in 1..n : Age(ended, lower, clock + 1, j) \in Nat
      /\ \A i \in 1..n, j \in 1..n : ChildAge(ended, lower, clock + 1, i, j) \in Nat
    BY <1>0, <1>4, AgesAreNatural
<1>8. PICK new \in [1..n -> Nat] : \A j \in 1..n : new[j] = Age(ended, lower, clock + 1, j)
    <2>1. aged \in [1..n -> Nat]
        BY <1>7
    <2>2. \A j \in 1..n : aged[j] = Age(ended, lower, clock + 1, j)
        OBVIOUS
    <2> HIDE DEF aged
    <2> QED BY <2>1, <2>2
<1>9. \A j \in 1..n : new[j] = IF j - 1 \in Range(lower)
                               THEN Age(spans, active, clock, j) + 1
                               ELSE Age(spans, active, clock, j)
    <2> TAKE j \in 1..n
    <2>1. PICK o \in Nat : o = spans[j].opened
        <3>1. spans[j] \in Spans
            BY <1>2 DEF Tables
        <3> QED BY <3>1 DEF Spans
    <2>2. (t + 1) - o = (t - o) + 1
        OBVIOUS
    <2>3. m \in 1..m /\ (\A k \in 1..l : k \in 1..m /\ k < m)
          /\ \A k \in 1..m : k \in 1..l \/ k = m
        BY <1>4
    <2>4. j - 1 \in Range(active) <=> j - 1 \in Range(lower) \/ j - 1 = active[m]
        BY <1>4, <2>3 DEF Range
    <2>5. ASSUME j - 1 \in Range(lower) PROVE j - 1 # active[m]
        <3>1. PICK k \in 1..l : lower[k] = j - 1
            BY <1>4, <2>5 DEF Range
        <3>2. active[k] < active[m]
            BY <1>1, <1>2, <2>3 DEF Ordered
        <3>3. ~(j - 1 < j - 1)
            OBVIOUS
        <3> QED BY <1>4, <3>1, <3>2, <3>3
    <2>6. CASE j - 1 \in Range(lower)
        <3>1. new[j] = (t + 1) - o
            BY <1>2, <1>5, <1>8, <2>1, <2>6 DEF Age
        <3>2. Age(spans, active, clock, j) = t - o
            BY <1>2, <2>1, <2>4, <2>6 DEF Age
        <3> QED BY <2>2, <2>6, <3>1, <3>2
    <2>7. CASE j - 1 \notin Range(lower)
        <3>1. new[j] = ended[j].duration
            BY <1>8, <2>7 DEF Age
        <3>2. Age(spans, active, clock, j) = IF j - 1 = active[m] THEN t - o
                                             ELSE spans[j].duration
            BY <1>2, <2>1, <2>4, <2>7 DEF Age
        <3> QED BY <1>5, <2>1, <2>7, <3>1, <3>2
    <2> QED BY <2>6, <2>7
<1>10. ASSUME NEW i \in 1..n
       PROVE  TotalOf([j \in 1..n |-> ChildAge(ended, lower, clock + 1, i, j)])
                  <= Age(ended, lower, clock + 1, i)
    <2>1. PICK g \in [1..n -> Nat] :
              /\ g = [j \in 1..n |-> ChildAge(ended, lower, clock + 1, i, j)]
              /\ \A j \in 1..n : g[j] = ChildAge(ended, lower, clock + 1, i, j)
        <3> DEFINE h == [j \in 1..n |-> ChildAge(ended, lower, clock + 1, i, j)]
        <3>1. h \in [1..n -> Nat]
            BY <1>7
        <3>2. \A j \in 1..n : h[j] = ChildAge(ended, lower, clock + 1, i, j)
            OBVIOUS
        <3>3. h = [j \in 1..n |-> ChildAge(ended, lower, clock + 1, i, j)]
            OBVIOUS
        <3> HIDE DEF h
        <3> QED BY <3>1, <3>2, <3>3
    <2>2. \A j \in 1..n : g[j] = IF spans[j].parent = {i - 1} THEN new[j] ELSE 0
        BY <1>5, <1>8, <2>1 DEF ChildAge
    <2>3. /\ lower \in Seq(Nat) /\ Len(lower) <= Len(active)
          /\ \A k \in 1..Len(lower) : lower[k] = active[k]
        <3>1. l <= m
            BY <1>4
        <3> QED BY <1>2, <1>3, <1>4, <3>1 DEF Closes
    <2>4. Passing(spans, active, clock, lower, n, i, new, g)
        BY <1>2, <1>9, <2>2, <2>3, Zenon DEF Passing
    <2>5. TimeLeft(lower, i, g, new)
        BY <2>3, <2>4, TimePasses, Zenon
    <2> QED BY <1>8, <2>1, <2>5 DEF TimeLeft
<1> QED BY <1>4, <1>10 DEF Within

(* A good recorder has its spans and its stack in order.                      *)
LEMMA GoodTables ==
    ASSUME NEW r, Good(r)
    PROVE  /\ Tables(r.spans, r.active, r.clock, r.nextSpan, r.capacity)
           /\ Within(r.spans, r.active, r.clock)
BY Zenon DEF Good, IsRecorder, Nested, Tables

(* A method that leaves the spans, the stack and the clock alone.             *)
LEMMA SameNesting ==
    ASSUME NEW r, NEW s, Nested(r), s.spans = r.spans, s.active = r.active,
           s.clock = r.clock, s.nextSpan = r.nextSpan, s.capacity = r.capacity
    PROVE  Nested(s)
BY Zenon DEF Nested

Tokens == [sequence : Nat, index : Nat]

(* The token of a span has the place of its sequence number.                  *)
LEMMA TokensHavePlaces ==
    ASSUME NEW r, Good(r)
    PROVE  /\ NextToken(r) \in Tokens /\ NextToken(r).sequence = r.nextSpan
           /\ NextToken(r).index = IF Len(r.spans) < r.capacity THEN Len(r.spans) + 1 ELSE 0
           /\ NextToken(r).index = Place(r.capacity, NextToken(r).sequence)
<1>1. PICK n \in Nat, b \in Nat, c \in Nat :
          n = Len(r.spans) /\ b = r.nextSpan /\ c = r.capacity
    BY TablesHaveLengths
<1>2. n = IF b < c THEN b ELSE c
    BY <1>1, GoodTables DEF Tables, Numbered
<1>3. PICK index \in Nat : index = IF n < c THEN n + 1 ELSE 0
    OBVIOUS
<1>4. NextToken(r) = [sequence |-> b, index |-> index]
    BY <1>1, <1>3 DEF NextToken
<1>5. index = IF b < c THEN b + 1 ELSE 0
    BY <1>2, <1>3
<1> QED BY <1>1, <1>3, <1>4, <1>5 DEF Tokens, Place

-------------------------------------------------------------------------------
(* Spans                                                                      *)

(* An event that is kept, or counted where its table is full.                 *)
LEMMA KeepSpan ==
    ASSUME NEW r, IsRecorder(r), NEW e \in Spans, NEW t, t = Keep(r, "spans", e)
    PROVE  /\ IsRecorder(t) /\ Changes(r, t, {"spans", "dropped"})
           /\ IF Len(r.spans) < r.capacity
              THEN t.spans = Append(r.spans, e) /\ t.dropped = r.dropped
              ELSE t.spans = r.spans /\ t.dropped = r.dropped + 1
<1>1. CASE Len(r.spans) < r.capacity
  <2>1. t = [r EXCEPT !.spans = Append(@, e)]
    BY <1>1 DEF Keep
  <2>2. t.spans = Append(r.spans, e) /\ t.dropped = r.dropped
    BY <2>1 DEF IsRecorder, Fields
  <2>3. Changes(r, t, {"spans"})
    BY <2>1 DEF IsRecorder, Fields, Changes
  <2>4. /\ t.capacity = r.capacity /\ t.clock = r.clock
        /\ t.active = r.active /\ t.buffers = r.buffers
        /\ t.copies = r.copies /\ t.nextSpan = r.nextSpan
        /\ t.nextBuffer = r.nextBuffer /\ t.nextCopy = r.nextCopy
        /\ t.dropped = r.dropped /\ t.live = r.live /\ t.peak = r.peak
        /\ t.retained = r.retained /\ t.outcome = r.outcome
        /\ t.category = r.category
    BY <2>3 DEF Changes, Fields
  <2>5. t.spans \in Seq(Spans)
    <3>1. r.spans \in Seq(Spans)
      BY DEF IsRecorder
    <3>2. QED
      BY <2>2, <3>1, SMTT(40)
  <2>6. IsRecorder(t)
    BY <2>3, <2>4, <2>5, Zenon DEF IsRecorder, Changes
  <2>7. QED
    BY <1>1, <2>2, <2>3, <2>6 DEF Changes
<1>2. CASE ~(Len(r.spans) < r.capacity)
  <2>1. t = [r EXCEPT !.dropped = @ + 1]
    BY <1>2 DEF Keep
  <2>2. t.spans = r.spans /\ t.dropped = r.dropped + 1
    BY <2>1 DEF IsRecorder, Fields
  <2>3. Changes(r, t, {"dropped"})
    BY <2>1 DEF IsRecorder, Fields, Changes
  <2>4. /\ t.capacity = r.capacity /\ t.clock = r.clock
        /\ t.spans = r.spans /\ t.active = r.active
        /\ t.buffers = r.buffers /\ t.copies = r.copies
        /\ t.nextSpan = r.nextSpan /\ t.nextBuffer = r.nextBuffer
        /\ t.nextCopy = r.nextCopy /\ t.live = r.live /\ t.peak = r.peak
        /\ t.retained = r.retained /\ t.outcome = r.outcome
        /\ t.category = r.category
    BY <2>3 DEF Changes, Fields
  <2>5. t.dropped \in Nat
    <3>1. r.dropped \in Nat
      BY DEF IsRecorder
    <3>2. QED
      BY <2>2, <3>1
  <2>6. IsRecorder(t)
    BY <2>3, <2>4, <2>5, Zenon DEF IsRecorder, Changes
  <2>7. QED
    BY <1>2, <2>2, <2>3, <2>6 DEF Changes
<1>3. QED
  BY <1>1, <1>2

(* What a table of buffers is after one more event: longer, or full and a     *)
(* drop counted.                                                              *)
LEMMA KeepBuffer ==
    ASSUME NEW r, IsRecorder(r), NEW e \in BufferEvents, NEW t, t = Keep(r, "buffers", e)
    PROVE  /\ IsRecorder(t) /\ Changes(r, t, {"buffers", "dropped"})
           /\ IF Len(r.buffers) < r.capacity
              THEN t.buffers = Append(r.buffers, e) /\ t.dropped = r.dropped
              ELSE t.buffers = r.buffers /\ t.dropped = r.dropped + 1
<1>1. CASE Len(r.buffers) < r.capacity
  <2>1. t = [r EXCEPT !.buffers = Append(@, e)]
    BY <1>1 DEF Keep
  <2>2. t.buffers = Append(r.buffers, e) /\ t.dropped = r.dropped
    BY <2>1 DEF IsRecorder, Fields
  <2>3. Changes(r, t, {"buffers"})
    BY <2>1 DEF IsRecorder, Fields, Changes
  <2>4. /\ t.capacity = r.capacity /\ t.clock = r.clock
        /\ t.spans = r.spans /\ t.active = r.active /\ t.copies = r.copies
        /\ t.nextSpan = r.nextSpan /\ t.nextBuffer = r.nextBuffer
        /\ t.nextCopy = r.nextCopy /\ t.dropped = r.dropped
        /\ t.live = r.live /\ t.peak = r.peak /\ t.retained = r.retained
        /\ t.outcome = r.outcome /\ t.category = r.category
    BY <2>3 DEF Changes, Fields
  <2>5. t.buffers \in Seq(BufferEvents)
    <3>1. r.buffers \in Seq(BufferEvents)
      BY DEF IsRecorder
    <3>2. QED
      BY <2>2, <3>1, SMTT(40)
  <2>6. IsRecorder(t)
    BY <2>3, <2>4, <2>5, Zenon DEF IsRecorder, Changes
  <2>7. QED
    BY <1>1, <2>2, <2>3, <2>6 DEF Changes
<1>2. CASE ~(Len(r.buffers) < r.capacity)
  <2>1. t = [r EXCEPT !.dropped = @ + 1]
    BY <1>2 DEF Keep
  <2>2. t.buffers = r.buffers /\ t.dropped = r.dropped + 1
    BY <2>1 DEF IsRecorder, Fields
  <2>3. Changes(r, t, {"dropped"})
    BY <2>1 DEF IsRecorder, Fields, Changes
  <2>4. /\ t.capacity = r.capacity /\ t.clock = r.clock
        /\ t.spans = r.spans /\ t.active = r.active
        /\ t.buffers = r.buffers /\ t.copies = r.copies
        /\ t.nextSpan = r.nextSpan /\ t.nextBuffer = r.nextBuffer
        /\ t.nextCopy = r.nextCopy /\ t.live = r.live /\ t.peak = r.peak
        /\ t.retained = r.retained /\ t.outcome = r.outcome
        /\ t.category = r.category
    BY <2>3 DEF Changes, Fields
  <2>5. t.dropped \in Nat
    <3>1. r.dropped \in Nat
      BY DEF IsRecorder
    <3>2. QED
      BY <2>2, <3>1
  <2>6. IsRecorder(t)
    BY <2>3, <2>4, <2>5, Zenon DEF IsRecorder, Changes
  <2>7. QED
    BY <1>2, <2>2, <2>3, <2>6 DEF Changes
<1>3. QED
  BY <1>1, <1>2

(* What the table of copies is after one more event.                          *)
LEMMA KeepCopy ==
    ASSUME NEW r, IsRecorder(r), NEW e \in CopyEvents, NEW t, t = Keep(r, "copies", e)
    PROVE  /\ IsRecorder(t) /\ Changes(r, t, {"copies", "dropped"})
           /\ IF Len(r.copies) < r.capacity
              THEN t.copies = Append(r.copies, e) /\ t.dropped = r.dropped
              ELSE t.copies = r.copies /\ t.dropped = r.dropped + 1
<1>1. CASE Len(r.copies) < r.capacity
  <2>1. t = [r EXCEPT !.copies = Append(@, e)]
    BY <1>1 DEF Keep
  <2>2. t.copies = Append(r.copies, e) /\ t.dropped = r.dropped
    BY <2>1 DEF IsRecorder, Fields
  <2>3. Changes(r, t, {"copies"})
    BY <2>1 DEF IsRecorder, Fields, Changes
  <2>4. /\ t.capacity = r.capacity /\ t.clock = r.clock
        /\ t.spans = r.spans /\ t.active = r.active
        /\ t.buffers = r.buffers /\ t.nextSpan = r.nextSpan
        /\ t.nextBuffer = r.nextBuffer /\ t.nextCopy = r.nextCopy
        /\ t.dropped = r.dropped /\ t.live = r.live /\ t.peak = r.peak
        /\ t.retained = r.retained /\ t.outcome = r.outcome
        /\ t.category = r.category
    BY <2>3 DEF Changes, Fields
  <2>5. t.copies \in Seq(CopyEvents)
    <3>1. r.copies \in Seq(CopyEvents)
      BY DEF IsRecorder
    <3>2. QED
      BY <2>2, <3>1, SMTT(40)
  <2>6. IsRecorder(t)
    BY <2>3, <2>4, <2>5, Zenon DEF IsRecorder, Changes
  <2>7. QED
    BY <1>1, <2>2, <2>3, <2>6 DEF Changes
<1>2. CASE ~(Len(r.copies) < r.capacity)
  <2>1. t = [r EXCEPT !.dropped = @ + 1]
    BY <1>2 DEF Keep
  <2>2. t.copies = r.copies /\ t.dropped = r.dropped + 1
    BY <2>1 DEF IsRecorder, Fields
  <2>3. Changes(r, t, {"dropped"})
    BY <2>1 DEF IsRecorder, Fields, Changes
  <2>4. /\ t.capacity = r.capacity /\ t.clock = r.clock
        /\ t.spans = r.spans /\ t.active = r.active
        /\ t.buffers = r.buffers /\ t.copies = r.copies
        /\ t.nextSpan = r.nextSpan /\ t.nextBuffer = r.nextBuffer
        /\ t.nextCopy = r.nextCopy /\ t.live = r.live /\ t.peak = r.peak
        /\ t.retained = r.retained /\ t.outcome = r.outcome
        /\ t.category = r.category
    BY <2>3 DEF Changes, Fields
  <2>5. t.dropped \in Nat
    <3>1. r.dropped \in Nat
      BY DEF IsRecorder
    <3>2. QED
      BY <2>2, <3>1
  <2>6. IsRecorder(t)
    BY <2>3, <2>4, <2>5, Zenon DEF IsRecorder, Changes
  <2>7. QED
    BY <1>2, <2>2, <2>3, <2>6 DEF Changes
<1>3. QED
  BY <1>1, <1>2

(* The books after one more event, kept or not.                               *)
LEMMA SpanAccounted ==
    ASSUME NEW r, NEW s, Accounted(r), r.capacity \in Nat, r.dropped \in Nat,
           Len(r.spans) \in Nat, Len(r.buffers) \in Nat, Len(r.copies) \in Nat,
           r.nextSpan \in Nat, r.nextBuffer \in Nat, r.nextCopy \in Nat,
           IF Len(r.spans) < r.capacity
           THEN Len(s.spans) = Len(r.spans) + 1 /\ s.dropped = r.dropped
           ELSE Len(s.spans) = Len(r.spans) /\ s.dropped = r.dropped + 1,
           Len(s.buffers) = Len(r.buffers), Len(s.copies) = Len(r.copies),
           s.capacity = r.capacity, s.nextSpan = r.nextSpan + 1,
           s.nextBuffer = r.nextBuffer, s.nextCopy = r.nextCopy
    PROVE  Accounted(s)
<1>1. PICK a \in Nat, b \in Nat, c \in Nat, d \in Nat, x \in Nat, y \in Nat,
           z \in Nat, k \in Nat :
        /\ a = Len(r.spans) /\ b = Len(r.buffers) /\ c = Len(r.copies) /\ d = r.dropped
        /\ x = r.nextSpan /\ y = r.nextBuffer /\ z = r.nextCopy /\ k = r.capacity
  OBVIOUS
<1>2. a + b + c + d = x + y + z /\ a <= k /\ b <= k /\ c <= k
  BY <1>1 DEF Accounted
<1>3. PICK p \in Nat, q \in Nat : p = Len(s.spans) /\ q = s.dropped
  BY <1>1, SMTT(40)
<1>4. IF a < k THEN p = a + 1 /\ q = d ELSE p = a /\ q = d + 1
  BY <1>1, <1>3
<1>5. p + b + c + q = (x + 1) + y + z /\ p <= k
  BY <1>2, <1>4
<1>6. QED
  BY <1>1, <1>2, <1>3, <1>5 DEF Accounted

(* A buffer event that is kept or dropped leaves the accounts right.          *)
LEMMA BufferAccounted ==
    ASSUME NEW r, NEW s, Accounted(r), r.capacity \in Nat, r.dropped \in Nat,
           Len(r.spans) \in Nat, Len(r.buffers) \in Nat, Len(r.copies) \in Nat,
           r.nextSpan \in Nat, r.nextBuffer \in Nat, r.nextCopy \in Nat,
           IF Len(r.buffers) < r.capacity
           THEN Len(s.buffers) = Len(r.buffers) + 1 /\ s.dropped = r.dropped
           ELSE Len(s.buffers) = Len(r.buffers) /\ s.dropped = r.dropped + 1,
           Len(s.spans) = Len(r.spans), Len(s.copies) = Len(r.copies),
           s.capacity = r.capacity, s.nextBuffer = r.nextBuffer + 1,
           s.nextSpan = r.nextSpan, s.nextCopy = r.nextCopy
    PROVE  Accounted(s)
<1>1. PICK a \in Nat, b \in Nat, c \in Nat, d \in Nat, x \in Nat, y \in Nat,
           z \in Nat, k \in Nat :
        /\ a = Len(r.spans) /\ b = Len(r.buffers) /\ c = Len(r.copies) /\ d = r.dropped
        /\ x = r.nextSpan /\ y = r.nextBuffer /\ z = r.nextCopy /\ k = r.capacity
  OBVIOUS
<1>2. a + b + c + d = x + y + z /\ a <= k /\ b <= k /\ c <= k
  BY <1>1 DEF Accounted
<1>3. PICK p \in Nat, q \in Nat : p = Len(s.buffers) /\ q = s.dropped
  BY <1>1, SMTT(40)
<1>4. IF b < k THEN p = b + 1 /\ q = d ELSE p = b /\ q = d + 1
  BY <1>1, <1>3
<1>5. a + p + c + q = x + (y + 1) + z /\ p <= k
  BY <1>2, <1>4
<1>6. QED
  BY <1>1, <1>2, <1>3, <1>5 DEF Accounted

(* A copy event that is kept or dropped leaves the accounts right.            *)
LEMMA CopyAccounted ==
    ASSUME NEW r, NEW s, Accounted(r), r.capacity \in Nat, r.dropped \in Nat,
           Len(r.spans) \in Nat, Len(r.buffers) \in Nat, Len(r.copies) \in Nat,
           r.nextSpan \in Nat, r.nextBuffer \in Nat, r.nextCopy \in Nat,
           IF Len(r.copies) < r.capacity
           THEN Len(s.copies) = Len(r.copies) + 1 /\ s.dropped = r.dropped
           ELSE Len(s.copies) = Len(r.copies) /\ s.dropped = r.dropped + 1,
           Len(s.spans) = Len(r.spans), Len(s.buffers) = Len(r.buffers),
           s.capacity = r.capacity, s.nextCopy = r.nextCopy + 1,
           s.nextSpan = r.nextSpan, s.nextBuffer = r.nextBuffer
    PROVE  Accounted(s)
<1>1. PICK a \in Nat, b \in Nat, c \in Nat, d \in Nat, x \in Nat, y \in Nat,
           z \in Nat, k \in Nat :
        /\ a = Len(r.spans) /\ b = Len(r.buffers) /\ c = Len(r.copies) /\ d = r.dropped
        /\ x = r.nextSpan /\ y = r.nextBuffer /\ z = r.nextCopy /\ k = r.capacity
  OBVIOUS
<1>2. a + b + c + d = x + y + z /\ a <= k /\ b <= k /\ c <= k
  BY <1>1 DEF Accounted
<1>3. PICK p \in Nat, q \in Nat : p = Len(s.copies) /\ q = s.dropped
  BY <1>1, SMTT(40)
<1>4. IF c < k THEN p = c + 1 /\ q = d ELSE p = c /\ q = d + 1
  BY <1>1, <1>3
<1>5. a + b + p + q = x + y + (z + 1) /\ p <= k
  BY <1>2, <1>4
<1>6. QED
  BY <1>1, <1>2, <1>3, <1>5 DEF Accounted

(* A span that begins: the stack has its sequence on top.                     *)
LEMMA BeginOpens ==
    ASSUME NEW r, Good(r), NEW stage \in Stages, NEW scope \in Scopes, NEW s,
           s = Begin(r, stage, scope)
    PROVE  /\ Good(s) /\ s.capacity = r.capacity
           /\ s.active = Append(r.active, r.nextSpan)
           /\ Extends(r, s) /\ Clean(r, s) /\ SameOutputs(r, s) /\ s.live = r.live
           /\ IF r.capacity > Len(r.spans) THEN Len(s.spans) = Len(r.spans) + 1
              ELSE Len(s.spans) = Len(r.spans)
<1>0. IsRecorder(r) /\ Accounted(r)
  BY DEF Good
<1>1. PICK span : span = NewSpan(r, stage, scope)
  OBVIOUS
<1>2. Parent(r) \in SUBSET Nat
  BY <1>0 DEF Parent, NoParent, IsRecorder, Last
<1>3. span \in Spans /\ span.outcome = "Success"
  BY <1>0, <1>1, <1>2 DEF NewSpan, Spans, IsRecorder, Outcomes
<1>4. PICK t : t = Keep(r, "spans", span)
  OBVIOUS
<1>5. s = [t EXCEPT !.nextSpan = @ + 1, !.clock = @ + 1,
                    !.active = Append(@, r.nextSpan)]
  BY <1>1, <1>4 DEF Begin
<1>6. /\ IsRecorder(t) /\ Changes(r, t, {"spans", "dropped"})
      /\ IF Len(r.spans) < r.capacity
         THEN t.spans = Append(r.spans, span) /\ t.dropped = r.dropped
         ELSE t.spans = r.spans /\ t.dropped = r.dropped + 1
  BY <1>0, <1>3, <1>4, KeepSpan
<1>7. /\ Changes(t, s, {"nextSpan", "clock", "active"})
      /\ s.nextSpan = t.nextSpan + 1 /\ s.clock = t.clock + 1
      /\ s.active = Append(t.active, r.nextSpan)
  BY <1>5, <1>6 DEF IsRecorder, Fields, Changes
<1>8. /\ s.capacity = t.capacity /\ s.dropped = t.dropped /\ s.nextBuffer = t.nextBuffer
      /\ s.nextCopy = t.nextCopy /\ s.live = t.live /\ s.peak = t.peak
      /\ s.retained = t.retained /\ s.spans = t.spans /\ s.buffers = t.buffers
      /\ s.copies = t.copies /\ s.outcome = t.outcome /\ s.category = t.category
  BY <1>7 DEF Fields, Changes
<1>9. IsRecorder(s)
  <2>1. t.nextSpan \in Nat /\ t.clock \in Nat /\ t.active \in Seq(Nat) /\ r.nextSpan \in Nat
    BY <1>0, <1>6 DEF IsRecorder
  <2>2. s.nextSpan \in Nat
    BY <1>7, <2>1
  <2>3. s.clock \in Nat
    BY <1>7, <2>1
  <2>4. s.active \in Seq(Nat)
    BY <1>7, <2>1
  <2>5. QED
    BY <1>6, <1>7, <1>8, <2>2, <2>3, <2>4, Zenon DEF IsRecorder, Changes
<1>10. /\ s.buffers = r.buffers /\ s.copies = r.copies /\ s.capacity = r.capacity
       /\ s.nextBuffer = r.nextBuffer /\ s.nextSpan = r.nextSpan + 1
       /\ s.nextCopy = r.nextCopy /\ s.outcome = r.outcome /\ s.category = r.category
       /\ s.live = r.live /\ s.retained = r.retained
       /\ s.active = Append(r.active, r.nextSpan)
  BY <1>6, <1>7, <1>8 DEF Fields, Changes
<1>11. /\ Len(r.spans) \in Nat /\ Len(r.buffers) \in Nat /\ Len(r.copies) \in Nat
       /\ r.capacity \in Nat /\ r.dropped \in Nat
       /\ r.nextSpan \in Nat /\ r.nextBuffer \in Nat /\ r.nextCopy \in Nat
  BY TablesHaveLengths
<1>12. r.spans \in Seq(Spans)
  BY <1>0 DEF IsRecorder
<1>13. IF Len(r.spans) < r.capacity
       THEN /\ Len(s.spans) = Len(r.spans) + 1 /\ s.spans[Len(r.spans) + 1] = span
            /\ s.dropped = r.dropped /\ \A i \in 1..Len(r.spans) : s.spans[i] = r.spans[i]
       ELSE s.spans = r.spans /\ s.dropped = r.dropped + 1
  BY <1>3, <1>6, <1>8, <1>12
<1>14. Accounted(s)
  <2>1. Len(s.buffers) = Len(r.buffers) /\ Len(s.copies) = Len(r.copies)
    BY <1>10
  <2>2. IF Len(r.spans) < r.capacity
        THEN Len(s.spans) = Len(r.spans) + 1 /\ s.dropped = r.dropped
        ELSE Len(s.spans) = Len(r.spans) /\ s.dropped = r.dropped + 1
    BY <1>13
  <2>3. QED
    BY <1>0, <1>10, <1>11, <2>1, <2>2, SpanAccounted
<1>15. Extends(r, s) /\ Clean(r, s)
  BY <1>3, <1>10, <1>11, <1>13, SMTT(40) DEF Extends, Clean
<1>16. SameOutputs(r, s)
  BY <1>10 DEF SameOutputs, Outputless
<1>17. Nested(s)
  <2>1. Tables(r.spans, r.active, r.clock, r.nextSpan, r.capacity)
        /\ Within(r.spans, r.active, r.clock)
    BY GoodTables
  <2>2. PICK m \in Nat : m = Len(r.active)
    BY TablesHaveLengths
  <2>3. span.parent = IF m = 0 THEN {} ELSE {r.active[m]}
    <3>1. r.active \in Seq(Nat)
      BY <1>0 DEF IsRecorder
    <3>2. r.active = <<>> <=> m = 0
      BY <2>2, <3>1
    <3>3. span.parent = Parent(r)
      BY <1>1 DEF NewSpan
    <3>4. QED
      BY <2>2, <3>2, <3>3 DEF Parent, NoParent, Last
  <2>4. span.sequence = r.nextSpan /\ span.opened = r.clock /\ span.duration = 0
    BY <1>1 DEF NewSpan
  <2>5. /\ Len(s.active) = m + 1 /\ s.active[m + 1] = r.nextSpan
        /\ \A k \in 1..m : s.active[k] = r.active[k]
    <3>1. r.active \in Seq(Nat) /\ r.nextSpan \in Nat
      BY <1>0 DEF IsRecorder
    <3>2. QED
      BY <1>10, <2>2, <3>1
  <2>6. s.spans \in Seq(Spans) /\ s.active \in Seq(Nat)
    BY <1>9 DEF IsRecorder
  <2>7. PICK n \in Nat, c \in Nat : n = Len(r.spans) /\ c = r.capacity
    BY <1>11
  <2>8. /\ Len(s.spans) = IF n < c THEN n + 1 ELSE n
        /\ \A j \in 1..n : s.spans[j] = r.spans[j]
        /\ n < c => s.spans[n + 1] = span
    BY <1>13, <2>7
  <2>9. Opens(r.spans, r.active, r.clock, r.nextSpan, r.capacity, s.spans, s.active)
    BY <2>2, <2>3, <2>4, <2>5, <2>6, <2>7, <2>8 DEF Opens
  <2>10. /\ Tables(s.spans, s.active, r.clock + 1, r.nextSpan + 1, r.capacity)
         /\ Within(s.spans, s.active, r.clock + 1)
    BY <2>1, <2>9, OpenedTables, OpenedWithin, Zenon
  <2>11. s.clock = r.clock + 1
    BY <1>6, <1>7 DEF Fields, Changes
  <2>12. QED
    BY <1>10, <2>10, <2>11, Zenon DEF Tables, Nested
<1>18. QED
  BY <1>9, <1>10, <1>11, <1>13, <1>14, <1>15, <1>16, <1>17 DEF Good

(* Taking the top off the stack.                                              *)
LEMMA WithoutTheTop ==
    ASSUME NEW a \in Seq(Nat), NEW n \in Nat
    PROVE  Without(Append(a, n), n) = a
<1> DEFINE b == Append(a, n)
           found == {i \in DOMAIN b : b[i] = n}
<1>1. /\ Len(a) \in Nat /\ Len(b) = Len(a) + 1 /\ DOMAIN b = 1..(Len(a) + 1)
      /\ b \in Seq(Nat) /\ b[Len(a) + 1] = n
  OBVIOUS
<1>2. Len(b) \in found /\ \A j \in found : Len(b) >= j
  BY <1>1
<1>3. Latest(found) = Len(b)
  <2>1. found \subseteq Nat /\ Len(b) \in Nat
    BY <1>1
  <2> HIDE DEF found, b
  <2>2. Latest(found) \in found /\ \A j \in found : Latest(found) >= j
    BY <1>2 DEF Latest
  <2>3. PICK m \in Nat : m = Latest(found)
    BY <2>1, <2>2
  <2>4. m >= Len(b) /\ Len(b) >= m
    BY <1>2, <2>2, <2>3
  <2>5. QED
    BY <2>1, <2>3, <2>4
<1>4. Without(b, n) = RemoveAt(b, Len(b))
  BY <1>2, <1>3 DEF Without
<1>5. RemoveAt(b, Len(b)) = SubSeq(b, 1, Len(a)) \o SubSeq(b, Len(b) + 1, Len(b))
  BY <1>1 DEF RemoveAt
<1>6. SubSeq(b, 1, Len(a)) = a /\ SubSeq(b, Len(b) + 1, Len(b)) = <<>>
  BY <1>1
<1>7. a \o <<>> = a
  OBVIOUS
<1>8. QED
  BY <1>4, <1>5, <1>6, <1>7

(* The span of the token has ended with the verdict, and nothing else has.    *)
Ended(t, s, token, verdict) ==
    /\ Good(s) /\ s.capacity = t.capacity /\ Len(s.spans) = Len(t.spans)
    /\ \A i \in 1..Len(t.spans) : i # token.index => s.spans[i] = t.spans[i]
    /\ token.index > 0 =>
         /\ s.spans[token.index].outcome = IF verdict = OkVerdict THEN "Success" ELSE "Error"
         /\ verdict # OkVerdict => s.spans[token.index].category = verdict
    /\ SameOutputs(t, s) /\ s.live = t.live
    /\ IF verdict = OkVerdict THEN s.outcome = t.outcome /\ s.category = t.category
       ELSE s.outcome = "Error" /\ s.category = verdict

(* Closing the innermost span takes it off the stack and writes its outcome   *)
(* and nothing else.                                                          *)
LEMMA CloseEnds ==
    ASSUME NEW t, Good(t), NEW token \in Tokens, token.index <= Len(t.spans),
           token.index = Place(t.capacity, token.sequence),
           NEW a \in Seq(Nat), t.active = Append(a, token.sequence),
           NEW outcome \in Outcomes, NEW category \in Refusals \cup {NoCategory},
           NEW s, s = Close(t, token, outcome, category)
    PROVE  /\ Good(s) /\ s.active = a /\ s.capacity = t.capacity
           /\ Len(s.spans) = Len(t.spans)
           /\ \A i \in 1..Len(t.spans) : i # token.index => s.spans[i] = t.spans[i]
           /\ token.index > 0 => /\ s.spans[token.index].outcome = outcome
                                 /\ s.spans[token.index].category = category
           /\ s.buffers = t.buffers /\ s.retained = t.retained /\ s.live = t.live
           /\ s.outcome = t.outcome /\ s.category = t.category
<1>1. IsRecorder(t) /\ Accounted(t)
  BY DEF Good
<1>2. PICK u : u = [t EXCEPT !.clock = @ + 1, !.active = Without(@, token.sequence)]
  OBVIOUS
<1>3. Without(t.active, token.sequence) = a
  BY WithoutTheTop DEF Tokens
<1>4. Changes(t, u, {"clock", "active"}) /\ u.clock = t.clock + 1 /\ u.active = a
  BY <1>1, <1>2, <1>3 DEF IsRecorder, Fields, Changes
<1>5. PICK spans \in Seq(Spans) :
          /\ s = [u EXCEPT !.spans = spans] /\ Len(spans) = Len(t.spans)
          /\ \A i \in 1..Len(t.spans) : i # token.index => spans[i] = t.spans[i]
          /\ token.index > 0 =>
               /\ spans[token.index].outcome = outcome
               /\ spans[token.index].category = category
               /\ spans[token.index].sequence = t.spans[token.index].sequence
               /\ spans[token.index].parent = t.spans[token.index].parent
               /\ spans[token.index].opened = t.spans[token.index].opened
               /\ spans[token.index].duration = t.clock - t.spans[token.index].opened
  <2>1. t.spans \in Seq(Spans) /\ u.spans = t.spans /\ "spans" \in DOMAIN u
    BY <1>1, <1>4 DEF IsRecorder, Changes, Fields
  <2>2. CASE token.index = 0
    <3>1. s = u
      BY <1>2, <2>2 DEF Close
    <3>2. s = [u EXCEPT !.spans = u.spans]
      BY <1>2, <2>1, <3>1
    <3>3. ~(token.index > 0)
      BY <2>2
    <3>4. QED
      BY <2>1, <3>2, <3>3
  <2>3. CASE token.index # 0
    <3>1. token.index \in 1..Len(t.spans) /\ t.spans[token.index] \in Spans
      BY <2>1, <2>3 DEF Tokens
    <3>2. PICK span : span = FinishedSpan(t, t.spans[token.index], outcome, category)
      OBVIOUS
    <3>3. /\ span \in Spans /\ span.outcome = outcome /\ span.category = category
          /\ span.sequence = t.spans[token.index].sequence
          /\ span.parent = t.spans[token.index].parent
          /\ span.opened = t.spans[token.index].opened
          /\ span.duration = t.clock - t.spans[token.index].opened
      <4>1. t.clock \in Nat
        BY <1>1 DEF IsRecorder
      <4>2. PICK old : old = t.spans[token.index] /\ old \in Spans
        BY <3>1
      <4>3. PICK d \in Int : d = t.clock - old.opened
        <5>1. old.opened \in Nat
          BY <4>2 DEF Spans
        <5>2. t.clock - old.opened \in Int
          BY <4>1, <5>1
        <5>3. QED
          BY <5>2
      <4>4. span = [old EXCEPT !.duration = d, !.outcome = outcome, !.category = category]
        BY <3>2, <4>2, <4>3 DEF FinishedSpan
      <4>5. QED
        BY <4>2, <4>3, <4>4 DEF Spans
    <3>4. s = [u EXCEPT !.spans[token.index] =
                   FinishedSpan(t, @, outcome, category)]
      BY <1>2, <2>3 DEF Close
    <3>5. s = [u EXCEPT !.spans = [t.spans EXCEPT ![token.index] = span]]
      BY <2>1, <3>2, <3>4
    <3>6. PICK after : after = [t.spans EXCEPT ![token.index] = span]
      OBVIOUS
    <3>7. /\ after \in Seq(Spans) /\ Len(after) = Len(t.spans)
          /\ after[token.index] = span
          /\ \A i \in 1..Len(t.spans) : i # token.index => after[i] = t.spans[i]
      BY <2>1, <3>1, <3>3, <3>6
    <3>8. QED
      BY <3>3, <3>5, <3>6, <3>7
  <2>4. QED
    BY <2>2, <2>3
<1>6. Changes(t, s, {"clock", "active", "spans"}) /\ s.clock = t.clock + 1
      /\ s.active = a /\ s.spans = spans
  BY <1>4, <1>5 DEF Changes, Fields
<1>7. /\ s.capacity = t.capacity /\ s.dropped = t.dropped /\ s.nextBuffer = t.nextBuffer
      /\ s.nextCopy = t.nextCopy /\ s.live = t.live /\ s.peak = t.peak
      /\ s.retained = t.retained /\ s.nextSpan = t.nextSpan /\ s.buffers = t.buffers
      /\ s.copies = t.copies /\ s.outcome = t.outcome /\ s.category = t.category
  BY <1>6 DEF Fields, Changes
<1>8. IsRecorder(s)
  <2>1. t.clock \in Nat
    BY <1>1 DEF IsRecorder
  <2>2. s.clock \in Nat
    BY <1>6, <2>1
  <2>3. s.spans \in Seq(Spans) /\ s.active \in Seq(Nat)
    BY <1>6
  <2>4. QED
    BY <1>1, <1>6, <1>7, <2>2, <2>3, Zenon DEF IsRecorder, Changes
<1>9. Accounted(s)
  BY <1>1, <1>5, <1>6, <1>7, Zenon DEF Accounted
<1>10. Nested(s)
  <2>1. Tables(t.spans, t.active, t.clock, t.nextSpan, t.capacity)
        /\ Within(t.spans, t.active, t.clock)
    BY GoodTables
  <2>2. PICK n \in Nat, x \in Nat, c \in Nat, m \in Nat :
            n = Len(t.spans) /\ x = token.sequence /\ c = t.capacity /\ m = Len(a)
    <3>1. Len(a) \in Nat /\ token.sequence \in Nat
      BY DEF Tokens
    <3>2. QED
      BY <3>1, TablesHaveLengths
  <2>3. n <= c
    BY <1>1, <2>2 DEF Accounted
  <2>4. /\ Len(t.active) = m + 1 /\ t.active[m + 1] = x
        /\ \A k \in 1..m : a[k] = t.active[k]
    BY <2>2
  <2>5. ASSUME NEW j \in 1..n
        PROVE  /\ spans[j].sequence = t.spans[j].sequence
               /\ spans[j].parent = t.spans[j].parent
               /\ spans[j].opened = t.spans[j].opened
               /\ spans[j].duration = IF j - 1 = x THEN t.clock - t.spans[j].opened
                                      ELSE t.spans[j].duration
    <3>1. CASE j = token.index
      <4>0. j = IF x < c THEN x + 1 ELSE 0
        BY <2>2, <3>1, Zenon DEF Place
      <4>1. token.index > 0 /\ j - 1 = x
        BY <3>1, <4>0
      <4>2. QED
        BY <1>5, <3>1, <4>1
    <3>2. CASE j # token.index
      <4>0. j # IF x < c THEN x + 1 ELSE 0
        BY <2>2, <3>2, Zenon DEF Place
      <4>1. j - 1 # x
        BY <2>3, <4>0
      <4>2. QED
        BY <1>5, <2>2, <3>2, <4>1
    <3>3. QED
      BY <3>1, <3>2
  <2>6. Closes(t.spans, t.active, t.clock, spans, a)
    BY <1>5, <2>2, <2>4, <2>5 DEF Closes
  <2>7. /\ Tables(spans, a, t.clock + 1, t.nextSpan, t.capacity)
        /\ Within(spans, a, t.clock + 1)
    BY <2>1, <2>6, ClosedTables, ClosedWithin, Zenon
  <2>8. QED
    BY <1>6, <1>7, <2>7, Zenon DEF Tables, Nested
<1>11. QED
  BY <1>5, <1>6, <1>7, <1>8, <1>9, <1>10 DEF Good

(* Finishing the innermost span closes it and, after a failure, names the     *)
(* category in the report.                                                    *)
LEMMA FinishEnds ==
    ASSUME NEW t, Good(t), NEW token \in Tokens, token.index <= Len(t.spans),
           token.index = Place(t.capacity, token.sequence),
           NEW a \in Seq(Nat), t.active = Append(a, token.sequence),
           NEW verdict \in Refusals \cup {OkVerdict},
           NEW s, s = Finish(t, token, verdict)
    PROVE  Ended(t, s, token, verdict) /\ s.active = a
<1>1. CASE verdict = OkVerdict
  <2>1. s = Close(t, token, "Success", NoCategory)
    BY <1>1 DEF Finish
  <2>2. /\ Good(s) /\ s.active = a /\ s.capacity = t.capacity
        /\ Len(s.spans) = Len(t.spans)
        /\ \A i \in 1..Len(t.spans) : i # token.index => s.spans[i] = t.spans[i]
        /\ token.index > 0 => s.spans[token.index].outcome = "Success"
        /\ s.buffers = t.buffers /\ s.retained = t.retained /\ s.live = t.live
        /\ s.outcome = t.outcome /\ s.category = t.category
    BY <2>1, CloseEnds DEF Outcomes
  <2>3. QED
    BY <1>1, <2>2 DEF Ended, SameOutputs, Outputless
<1>2. CASE verdict # OkVerdict
  <2>1. PICK u : u = Close(t, token, "Error", verdict)
    OBVIOUS
  <2>2. s = [u EXCEPT !.outcome = "Error", !.category = verdict]
    BY <1>2, <2>1 DEF Finish, MarkError
  <2>3. verdict \in Refusals
    BY <1>2
  <2>4. /\ Good(u) /\ u.active = a /\ u.capacity = t.capacity
        /\ Len(u.spans) = Len(t.spans)
        /\ \A i \in 1..Len(t.spans) : i # token.index => u.spans[i] = t.spans[i]
        /\ token.index > 0 => /\ u.spans[token.index].outcome = "Error"
                              /\ u.spans[token.index].category = verdict
        /\ u.buffers = t.buffers /\ u.retained = t.retained /\ u.live = t.live
    BY <2>1, <2>3, CloseEnds, SMTT(40) DEF Outcomes
  <2>5. /\ Changes(u, s, {"outcome", "category"})
        /\ s.outcome = "Error" /\ s.category = verdict
    BY <2>2, <2>4 DEF Good, IsRecorder, Fields, Changes
  <2>6. /\ s.capacity = u.capacity /\ s.clock = u.clock /\ s.dropped = u.dropped
        /\ s.nextSpan = u.nextSpan /\ s.nextBuffer = u.nextBuffer
        /\ s.nextCopy = u.nextCopy /\ s.live = u.live /\ s.peak = u.peak
        /\ s.retained = u.retained /\ s.spans = u.spans /\ s.active = u.active
        /\ s.buffers = u.buffers /\ s.copies = u.copies
    BY <2>5 DEF Fields, Changes
  <2>7. Good(s)
    <3>1. s.outcome \in Outcomes /\ s.category \in Refusals \cup {NoCategory}
      BY <2>3, <2>5 DEF Outcomes
    <3>2. Nested(s)
      BY <2>4, <2>6, SameNesting DEF Good
    <3>3. QED
      BY <2>4, <2>5, <2>6, <3>1, <3>2, Zenon DEF Good, IsRecorder, Accounted, Changes
  <2>8. QED
    BY <1>2, <2>4, <2>5, <2>6, <2>7 DEF Ended, SameOutputs, Outputless
<1>3. QED
  BY <1>1, <1>2

(* What happens within a span, from its begin to its end.                     *)
LEMMA WithinAQuietSpan ==
    ASSUME NEW r, Good(r), NEW stage \in Stages, NEW scope \in Scopes,
           NEW b, b = Begin(r, stage, scope), NEW t, Quiet(b, t),
           NEW verdict \in Refusals \cup {OkVerdict},
           verdict = OkVerdict => Clean(b, t),
           NEW s, s = Finish(t, NextToken(r), verdict)
    PROVE  /\ Quiet(r, s) /\ Ends(r, s, verdict)
           /\ SameOutputs(t, s) /\ s.live = t.live
<1>1. /\ Good(b) /\ b.capacity = r.capacity /\ b.active = Append(r.active, r.nextSpan)
      /\ Extends(r, b) /\ Clean(r, b) /\ SameOutputs(r, b)
      /\ IF r.capacity > Len(r.spans) THEN Len(b.spans) = Len(r.spans) + 1
         ELSE Len(b.spans) = Len(r.spans)
  BY BeginOpens
<1>2. Good(t)
  BY DEF Quiet
<1>3. PICK p \in Nat, q \in Nat, l \in Nat, k \in Nat :
          p = Len(r.spans) /\ q = Len(t.spans) /\ l = Len(b.spans) /\ k = r.capacity
  <2>1. Len(r.spans) \in Nat /\ r.capacity \in Nat
    BY TablesHaveLengths
  <2>2. Len(b.spans) \in Nat
    BY <1>1, TablesHaveLengths
  <2>3. Len(t.spans) \in Nat
    BY <1>2, TablesHaveLengths
  <2>4. QED
    BY <2>1, <2>2, <2>3
<1>4. q >= l /\ \A i \in 1..l : t.spans[i] = b.spans[i]
  BY <1>3 DEF Quiet, Extends
<1>5. l >= p /\ (\A i \in 1..p : b.spans[i] = r.spans[i])
      /\ IF p < k THEN l = p + 1 ELSE l = p
  BY <1>1, <1>3 DEF Extends
<1>6. PICK token \in Tokens :
          /\ token = NextToken(r) /\ token.sequence = r.nextSpan
          /\ token.index = IF p < k THEN p + 1 ELSE 0
          /\ token.index = Place(k, token.sequence)
  BY <1>3, TokensHavePlaces
<1>7. token.index <= Len(t.spans)
  <2>1. token.index <= q
    BY <1>4, <1>5, <1>6
  <2>2. QED
    BY <1>3, <2>1
<1>8. s = Finish(t, token, verdict)
  BY <1>6
<1>9. r.active \in Seq(Nat) /\ t.active = Append(r.active, token.sequence)
  BY <1>1, <1>6 DEF Quiet, Good, IsRecorder
<1>10. Ended(t, s, token, verdict) /\ s.active = r.active
  <2>1. PICK a \in Seq(Nat) : a = r.active
    BY <1>9
  <2>2. t.active = Append(a, token.sequence)
    BY <1>9, <2>1
  <2>3. token.index = Place(t.capacity, token.sequence)
    BY <1>1, <1>3, <1>6 DEF Quiet
  <2> HIDE <1>1, <1>3, <1>4, <1>5, <1>6
  <2>4. Ended(t, s, token, verdict) /\ s.active = a
    BY <1>2, <1>7, <1>8, <2>2, <2>3, FinishEnds
  <2>5. QED
    BY <2>1, <2>4
<1>11. Len(s.spans) = q /\ \A i \in 1..q : i # token.index => s.spans[i] = t.spans[i]
  BY <1>3, <1>10 DEF Ended
<1>12. \A i \in 1..p : s.spans[i] = r.spans[i]
  <2> SUFFICES ASSUME NEW i \in 1..p PROVE s.spans[i] = r.spans[i]
    OBVIOUS
  <2>1. i # token.index /\ i \in 1..l /\ i \in 1..q
    BY <1>4, <1>5, <1>6
  <2>2. QED
    BY <1>4, <1>5, <1>11, <2>1
<1>13. Quiet(r, s)
  <2>1. Good(s) /\ s.capacity = r.capacity
    BY <1>1, <1>10 DEF Ended, Quiet
  <2>2. Extends(r, s)
    BY <1>3, <1>4, <1>5, <1>11, <1>12 DEF Extends
  <2>3. QED
    BY <1>10, <2>1, <2>2 DEF Quiet
<1>14. SameOutputs(t, s) /\ s.live = t.live
  BY <1>10 DEF Ended
<1>15. Ends(r, s, verdict)
  <2>1. CASE verdict # OkVerdict
    BY <1>10, <2>1 DEF Ended, Ends
  <2>2. CASE verdict = OkVerdict
    <3>1. /\ s.outcome = r.outcome /\ s.category = r.category
          /\ \A i \in 1..q : i > l => t.spans[i].outcome = "Success"
          /\ \A i \in 1..l : i > p => b.spans[i].outcome = "Success"
      BY <1>1, <1>3, <1>10, <2>2 DEF Ended, Clean
    <3>2. ASSUME NEW i \in 1..q, i > p PROVE s.spans[i].outcome = "Success"
      <4>1. CASE i = token.index
        BY <1>6, <1>10, <2>2, <4>1 DEF Ended
      <4>2. CASE i # token.index
        <5>1. s.spans[i] = t.spans[i]
          BY <1>11, <4>2
        <5>2. CASE i > l
          BY <3>1, <5>1, <5>2
        <5>3. CASE ~(i > l)
          <6>1. i \in 1..l
            BY <5>3
          <6>2. QED
            BY <1>4, <3>1, <3>2, <5>1, <6>1
        <5>4. QED
          BY <5>2, <5>3
      <4>3. QED
        BY <4>1, <4>2
    <3>3. QED
      BY <1>3, <1>11, <2>2, <3>1, <3>2 DEF Ends, Clean
  <2>3. QED
    BY <2>1, <2>2
<1>16. QED
  BY <1>13, <1>14, <1>15

(* A span around a known effect has that effect and the verdict it is         *)
(* finished with.                                                             *)
LEMMA WithinASpan ==
    ASSUME NEW r, Good(r), NEW stage \in Stages, NEW scope \in Scopes,
           NEW b, b = Begin(r, stage, scope), NEW t, NEW inner, NEW live,
           Effect(b, t, inner, live), NEW verdict \in Refusals \cup {OkVerdict},
           verdict = OkVerdict => inner = OkVerdict
    PROVE  Effect(r, Finish(t, NextToken(r), verdict), verdict, live)
<1>1. PICK s : s = Finish(t, NextToken(r), verdict)
    OBVIOUS
<1>2. Quiet(b, t) /\ SameOutputs(b, t) /\ t.live = live
    BY DEF Effect
<1>3. verdict = OkVerdict => Clean(b, t)
    BY DEF Effect, Ends
<1>4. /\ Quiet(r, s) /\ Ends(r, s, verdict)
      /\ SameOutputs(t, s) /\ s.live = t.live
    BY <1>1, <1>2, <1>3, WithinAQuietSpan
<1>5. SameOutputs(r, b)
    BY BeginOpens
<1> QED BY <1>1, <1>2, <1>4, <1>5 DEF Effect, SameOutputs

(* A stage with nothing recorded inside it.                                   *)
LEMMA SpannedHasItsVerdict ==
    ASSUME NEW r, Good(r), NEW stage \in Stages, NEW scope \in Scopes,
           NEW verdict \in Refusals \cup {OkVerdict}
    PROVE  Effect(r, Spanned(r, stage, scope, verdict), verdict, r.live)
<1>1. PICK b : b = Begin(r, stage, scope)
  OBVIOUS
<1>2. Good(b) /\ b.live = r.live
  BY <1>1, BeginOpens
<1>3. Effect(b, b, OkVerdict, r.live)
  BY <1>2, NoEffect
<1>4. QED
  BY <1>1, <1>3, WithinASpan DEF Spanned

-------------------------------------------------------------------------------
(* Buffers and copies                                                         *)

(* A change to the buffers already in the table and to the counters.          *)
LEMMA OnlyBuffersChange ==
    ASSUME NEW r, Good(r), NEW s,
           Changes(r, s, {"buffers", "live", "retained", "peak", "visualCalls"}),
           s.buffers \in Seq(BufferEvents), Len(s.buffers) = Len(r.buffers),
           s.live \in Nat, s.retained \in Nat, s.peak \in Nat
    PROVE  Quiet(r, s) /\ Clean(r, s)
<1>1. IsRecorder(r) /\ Accounted(r)
  BY DEF Good
<1>2. /\ s.capacity = r.capacity /\ s.clock = r.clock /\ s.dropped = r.dropped
      /\ s.nextSpan = r.nextSpan /\ s.nextBuffer = r.nextBuffer
      /\ s.nextCopy = r.nextCopy /\ s.spans = r.spans /\ s.active = r.active
      /\ s.copies = r.copies /\ s.outcome = r.outcome /\ s.category = r.category
  BY DEF Fields, Changes
<1>3. IsRecorder(s)
  BY <1>1, <1>2, Zenon DEF IsRecorder, Changes
<1>4. Accounted(s)
  BY <1>1, <1>2, Zenon DEF Accounted
<1>5. Len(r.spans) \in Nat
  BY TablesHaveLengths
<1>6. Extends(r, s) /\ Clean(r, s)
  BY <1>2, <1>5 DEF Extends, Clean
<1>7. Nested(s)
  BY <1>2, SameNesting DEF Good
<1>8. QED
  BY <1>2, <1>3, <1>4, <1>6, <1>7 DEF Good, Quiet

(* An allocation raises one counter, that of its class.                       *)
LEMMA AllocationIsRecorded ==
    ASSUME NEW r, Good(r), NEW name \in Names, NEW class \in Classes,
           NEW scope \in Scopes, NEW bytes \in Nat,
           NEW s, s = RecordAllocation(r, name, class, scope, bytes)
    PROVE  /\ Quiet(r, s) /\ Clean(r, s)
           /\ IF class = "RetainedOutput"
              THEN s.live = r.live /\ s.retained = r.retained + bytes
              ELSE s.live = r.live + bytes /\ SameOutputs(r, s)
<1>1. IsRecorder(r) /\ Accounted(r)
  BY DEF Good
<1>2. PICK c : c = CountAllocation(r, class, bytes)
  OBVIOUS
<1>3. /\ Changes(r, c, {"live", "retained", "peak"})
      /\ c.live \in Nat /\ c.retained \in Nat /\ c.peak \in Nat
      /\ IF class = "RetainedOutput"
         THEN c.live = r.live /\ c.retained = r.retained + bytes
         ELSE c.live = r.live + bytes /\ c.retained = r.retained
  <2>1. r.live \in Nat /\ r.retained \in Nat /\ r.peak \in Nat /\ DOMAIN r = Fields
    BY <1>1 DEF IsRecorder
  <2>2. CASE class = "RetainedOutput"
    <3>1. c = [r EXCEPT !.retained = @ + bytes]
      BY <1>2, <2>2 DEF CountAllocation
    <3>2. /\ Changes(r, c, {"live", "retained", "peak"}) /\ c.live = r.live
          /\ c.peak = r.peak /\ c.retained = r.retained + bytes
      BY <2>1, <3>1 DEF Changes, Fields
    <3>3. QED
      BY <2>1, <2>2, <3>2
  <2>3. CASE class # "RetainedOutput"
    <3>1. c = [r EXCEPT !.live = @ + bytes,
                        !.peak = IF r.live + bytes > @ THEN r.live + bytes ELSE @]
      BY <1>2, <2>3 DEF CountAllocation
    <3>2. /\ Changes(r, c, {"live", "retained", "peak"}) /\ c.retained = r.retained
          /\ c.live = r.live + bytes
          /\ c.peak = IF r.live + bytes > r.peak THEN r.live + bytes ELSE r.peak
      BY <2>1, <3>1 DEF Changes, Fields
    <3>3. QED
      BY <2>1, <2>3, <3>2
  <2>4. QED
    BY <2>2, <2>3
<1>4. /\ c.capacity = r.capacity /\ c.clock = r.clock /\ c.dropped = r.dropped
      /\ c.nextSpan = r.nextSpan /\ c.nextBuffer = r.nextBuffer
      /\ c.nextCopy = r.nextCopy /\ c.spans = r.spans /\ c.active = r.active
      /\ c.copies = r.copies /\ c.buffers = r.buffers /\ c.outcome = r.outcome
      /\ c.category = r.category
  BY <1>3 DEF Fields, Changes
<1>5. IsRecorder(c)
  BY <1>1, <1>3, <1>4, Zenon DEF IsRecorder, Changes
<1>6. PICK e \in BufferEvents : e = NewBuffer(c, name, class, scope, bytes) /\ e.class = class
  <2>1. c.nextBuffer \in Nat
    BY <1>5 DEF IsRecorder
  <2>2. PICK e : e = [sequence |-> c.nextBuffer, name |-> name, class |-> class,
                      scope |-> scope, bytes |-> bytes, released |-> FALSE]
    OBVIOUS
  <2>3. e \in BufferEvents
    BY <2>1, <2>2 DEF BufferEvents
  <2>4. e = NewBuffer(c, name, class, scope, bytes) /\ e.class = class
    BY <2>2 DEF NewBuffer
  <2>5. QED
    BY <2>3, <2>4
<1>7. NewBuffer(r, name, class, scope, bytes) = e
  BY <1>4, <1>6 DEF NewBuffer
<1>8. PICK t : t = Keep(c, "buffers", e)
  OBVIOUS
<1>9. s = [t EXCEPT !.nextBuffer = @ + 1]
  BY <1>2, <1>7, <1>8 DEF RecordAllocation
<1>10. /\ IsRecorder(t) /\ Changes(c, t, {"buffers", "dropped"})
       /\ IF Len(c.buffers) < c.capacity
          THEN t.buffers = Append(c.buffers, e) /\ t.dropped = c.dropped
          ELSE t.buffers = c.buffers /\ t.dropped = c.dropped + 1
  BY <1>5, <1>6, <1>8, KeepBuffer
<1>11. Changes(t, s, {"nextBuffer"}) /\ s.nextBuffer = t.nextBuffer + 1
  BY <1>9, <1>10 DEF IsRecorder, Fields, Changes
<1>12. /\ s.capacity = t.capacity /\ s.clock = t.clock /\ s.dropped = t.dropped
       /\ s.nextSpan = t.nextSpan /\ s.nextCopy = t.nextCopy /\ s.spans = t.spans
       /\ s.active = t.active /\ s.copies = t.copies /\ s.buffers = t.buffers
       /\ s.outcome = t.outcome /\ s.category = t.category /\ s.live = t.live
       /\ s.peak = t.peak /\ s.retained = t.retained
  BY <1>11 DEF Fields, Changes
<1>13. IsRecorder(s)
  <2>1. t.nextBuffer \in Nat
    BY <1>10 DEF IsRecorder
  <2>2. s.nextBuffer \in Nat
    BY <1>11, <2>1
  <2>3. QED
    BY <1>10, <1>11, <1>12, <2>2, Zenon DEF IsRecorder, Changes
<1>14. /\ s.capacity = r.capacity /\ s.nextSpan = r.nextSpan /\ s.nextCopy = r.nextCopy
       /\ s.nextBuffer = r.nextBuffer + 1 /\ s.spans = r.spans /\ s.active = r.active
       /\ s.copies = r.copies /\ s.outcome = r.outcome /\ s.category = r.category
       /\ s.live = c.live /\ s.retained = c.retained
       /\ IF Len(r.buffers) < r.capacity
          THEN s.buffers = Append(r.buffers, e) /\ s.dropped = r.dropped
          ELSE s.buffers = r.buffers /\ s.dropped = r.dropped + 1
  <2>1. /\ t.capacity = c.capacity /\ t.nextSpan = c.nextSpan /\ t.nextCopy = c.nextCopy
        /\ t.nextBuffer = c.nextBuffer /\ t.spans = c.spans /\ t.active = c.active
        /\ t.copies = c.copies /\ t.outcome = c.outcome /\ t.category = c.category
        /\ t.live = c.live /\ t.retained = c.retained
    BY <1>10 DEF Fields, Changes
  <2>2. QED
    BY <1>4, <1>10, <1>11, <1>12, <2>1
<1>15. r.buffers \in Seq(BufferEvents)
  BY <1>1 DEF IsRecorder
<1>16. IF Len(r.buffers) < r.capacity
       THEN /\ Len(s.buffers) = Len(r.buffers) + 1 /\ s.buffers[Len(r.buffers) + 1] = e
            /\ s.dropped = r.dropped
            /\ \A i \in 1..Len(r.buffers) : s.buffers[i] = r.buffers[i]
       ELSE s.buffers = r.buffers /\ s.dropped = r.dropped + 1
  BY <1>6, <1>14, <1>15
<1>17. Accounted(s)
  <2>1. Len(s.spans) = Len(r.spans) /\ Len(s.copies) = Len(r.copies)
    BY <1>14
  <2>2. IF Len(r.buffers) < r.capacity
        THEN Len(s.buffers) = Len(r.buffers) + 1 /\ s.dropped = r.dropped
        ELSE Len(s.buffers) = Len(r.buffers) /\ s.dropped = r.dropped + 1
    BY <1>16
  <2>3. /\ Len(r.spans) \in Nat /\ Len(r.buffers) \in Nat /\ Len(r.copies) \in Nat
        /\ r.capacity \in Nat /\ r.dropped \in Nat
        /\ r.nextSpan \in Nat /\ r.nextBuffer \in Nat /\ r.nextCopy \in Nat
    BY TablesHaveLengths
  <2>4. QED
    BY <1>1, <1>14, <2>1, <2>2, <2>3, BufferAccounted
<1>18. Len(r.spans) \in Nat /\ Len(r.buffers) \in Nat
  BY TablesHaveLengths
<1>n. Nested(s)
  <2>1. t.clock = c.clock
    BY <1>10 DEF Fields, Changes
  <2>2. s.clock = r.clock
    BY <1>4, <1>12, <2>1
  <2>3. QED
    BY <1>14, <2>2, SameNesting DEF Good
<1>19. Quiet(r, s) /\ Clean(r, s)
  BY <1>13, <1>14, <1>17, <1>18, <1>n DEF Good, Quiet, Extends, Clean
<1>20. class # "RetainedOutput" => (Outputless(r) => Outputless(s))
  BY <1>6, <1>16, <1>18, SMTT(40) DEF Outputless
<1>21. QED
  BY <1>3, <1>14, <1>19, <1>20 DEF SameOutputs

(* A transient is live once it is recorded.                                   *)
LEMMA TransientIsRecorded ==
    ASSUME NEW r, Good(r), NEW name \in Names, NEW scope \in Scopes, NEW bytes \in Nat
    PROVE  Effect(r, RecordTransient(r, name, scope, bytes), OkVerdict, r.live + bytes)
<1>1. PICK s : s = RecordAllocation(r, name, "Transient", scope, bytes)
  OBVIOUS
<1>2. Quiet(r, s) /\ Clean(r, s) /\ s.live = r.live + bytes /\ SameOutputs(r, s)
  <2>1. PICK class \in Classes : class = "Transient" /\ class # "RetainedOutput"
    BY DEF Classes
  <2>2. s = RecordAllocation(r, name, class, scope, bytes)
    BY <1>1, <2>1
  <2>3. /\ Quiet(r, s) /\ Clean(r, s)
        /\ IF class = "RetainedOutput"
           THEN s.live = r.live /\ s.retained = r.retained + bytes
           ELSE s.live = r.live + bytes /\ SameOutputs(r, s)
    BY <2>2, AllocationIsRecorded
  <2>4. QED
    BY <2>1, <2>3
<1>3. QED
  BY <1>1, <1>2 DEF RecordTransient, Effect, Ends

(* The earliest and the latest of some places are among them.                 *)
LEMMA EarliestIsOne ==
    ASSUME NEW S \in SUBSET Nat, S # {}
    PROVE  Earliest(S) \in S
BY LeastMember DEF Earliest

(* The latest of some places is one of them.                                  *)
LEMMA LatestIsOne ==
    ASSUME NEW n \in Nat, NEW S \in SUBSET (1..n), S # {}
    PROVE  Latest(S) \in S
<1> DEFINE T == {n - i : i \in S}
<1>1. T \in SUBSET Nat /\ T # {}
  <2>1. \A i \in 1..n : n - i \in Nat
    OBVIOUS
  <2>2. QED
    BY <2>1
<1>2. PICK t \in T : \A u \in T : t <= u
  <2> HIDE DEF T
  <2>1. QED
    BY <1>1, LeastMember
<1>3. PICK i \in S : t = n - i
  BY <1>2
<1>4. \A j \in S : i >= j
  <2> SUFFICES ASSUME NEW j \in S PROVE i >= j
    OBVIOUS
  <2>1. n - j \in T /\ i \in Nat /\ j \in Nat
    BY <1>3
  <2>3. n - i <= n - j
    BY <1>2, <1>3, <2>1
  <2>4. QED
    BY <2>1, <2>3
<1>5. QED
  BY <1>3, <1>4 DEF Latest

(* The live transients of a name are events of the table.                     *)
LEMMA MatchesArePlaces ==
    ASSUME NEW r, Good(r), NEW name, NEW scope
    PROVE  /\ LiveMatches(r, name, scope) \in SUBSET (1..Len(r.buffers))
           /\ r.buffers \in Seq(BufferEvents) /\ Len(r.buffers) \in Nat
           /\ \A i \in LiveMatches(r, name, scope) : r.buffers[i].class = "Transient"
BY SMTT(40) DEF LiveMatches, Good, IsRecorder


(* Bytes given back: the counter falls, whether or not an event is found.     *)
LEMMA ReleaseIsRecorded ==
    ASSUME NEW r, Good(r), NEW name \in Names, NEW scope \in Scopes, NEW bytes \in Nat
    PROVE  Effect(r, ReleaseTransient(r, name, scope, bytes), OkVerdict,
                  SaturatingSub(r.live, bytes))
<1>1. PICK s : s = ReleaseTransient(r, name, scope, bytes)
  OBVIOUS
<1>2. PICK matches : matches = LiveMatches(r, name, scope)
  OBVIOUS
<1>3. /\ matches \in SUBSET (1..Len(r.buffers)) /\ r.buffers \in Seq(BufferEvents)
      /\ Len(r.buffers) \in Nat
  BY <1>2, MatchesArePlaces
<1>4. PICK left \in Nat : left = SaturatingSub(r.live, bytes)
  <2>1. r.live \in Nat
    BY TablesHaveLengths
  <2>2. QED
    BY <2>1 DEF SaturatingSub
<1>5. IsRecorder(r)
  BY DEF Good
<1>6. PICK buffers \in Seq(BufferEvents) :
          /\ s = [r EXCEPT !.live = left, !.buffers = buffers]
          /\ Len(buffers) = Len(r.buffers)
          /\ \A i \in 1..Len(r.buffers) : buffers[i].class = r.buffers[i].class
  <2>1. PICK freed : freed = [r EXCEPT !.live = left]
    OBVIOUS
  <2>2. [r EXCEPT !.live = SaturatingSub(@, bytes)] = freed
    BY <1>4, <2>1
  <2>3. freed.buffers = r.buffers /\ DOMAIN r = Fields /\ "buffers" \in DOMAIN freed
    BY <1>5, <2>1 DEF IsRecorder, Fields
  <2>4. CASE matches = {}
    <3>1. s = freed
      BY <1>1, <1>2, <2>2, <2>4 DEF ReleaseTransient
    <3>2. s = [r EXCEPT !.live = left, !.buffers = r.buffers]
      BY <2>1, <2>3, <3>1
    <3>3. QED
      BY <1>3, <3>2
  <2>5. CASE matches # {}
    <3>1. PICK i \in 1..Len(r.buffers) : i = Earliest(matches)
      <4>1. matches \in SUBSET Nat
        BY <1>3
      <4>2. Earliest(matches) \in matches
        BY <2>5, <4>1, EarliestIsOne
      <4>3. QED
        BY <1>3, <4>2
    <3>2. s = [freed EXCEPT !.buffers[i].released = TRUE]
      BY <1>1, <1>2, <2>2, <2>5, <3>1 DEF ReleaseTransient
    <3>3. PICK e : e = [r.buffers[i] EXCEPT !.released = TRUE]
      OBVIOUS
    <3>4. e \in BufferEvents /\ e.class = r.buffers[i].class
      <4>1. r.buffers[i] \in BufferEvents
        BY <1>3
      <4>2. QED
        BY <3>3, <4>1 DEF BufferEvents
    <3>5. PICK after : after = [r.buffers EXCEPT ![i] = e]
      OBVIOUS
    <3>6. s = [r EXCEPT !.live = left, !.buffers = after]
      BY <2>1, <2>3, <3>2, <3>3, <3>5
    <3>7. /\ after \in Seq(BufferEvents) /\ Len(after) = Len(r.buffers)
          /\ \A j \in 1..Len(r.buffers) : after[j].class = r.buffers[j].class
      BY <1>3, <3>4, <3>5
    <3>8. QED
      BY <3>6, <3>7
  <2>6. QED
    BY <2>4, <2>5
<1>7. Changes(r, s, {"buffers", "live", "retained", "peak", "visualCalls"})
      /\ s.buffers = buffers /\ s.live = left /\ s.retained = r.retained /\ s.peak = r.peak
  BY <1>5, <1>6 DEF IsRecorder, Fields, Changes
<1>8. r.retained \in Nat /\ r.peak \in Nat
  BY <1>5 DEF IsRecorder
<1>9. Quiet(r, s) /\ Clean(r, s)
  BY <1>4, <1>6, <1>7, <1>8, OnlyBuffersChange
<1>10. SameOutputs(r, s)
  BY <1>3, <1>6, <1>7 DEF SameOutputs, Outputless
<1>11. QED
  BY <1>1, <1>4, <1>7, <1>9, <1>10 DEF Effect, Ends

(* A rename moves no counter, found or not.                                   *)
LEMMA RenameIsRecorded ==
    ASSUME NEW r, Good(r), NEW old \in Names, NEW new \in Names, NEW scope \in Scopes
    PROVE  Effect(r, RenameLiveTransient(r, old, new, scope), OkVerdict, r.live)
<1>1. PICK s : s = RenameLiveTransient(r, old, new, scope)
  OBVIOUS
<1>2. PICK matches : matches = LiveMatches(r, old, scope)
  OBVIOUS
<1>3. /\ matches \in SUBSET (1..Len(r.buffers)) /\ r.buffers \in Seq(BufferEvents)
      /\ Len(r.buffers) \in Nat
  BY <1>2, MatchesArePlaces
<1>4. IsRecorder(r)
  BY DEF Good
<1>5. CASE matches = {}
  BY <1>1, <1>2, <1>5, NoEffect DEF RenameLiveTransient
<1>6. CASE matches # {}
  <2>1. PICK i \in 1..Len(r.buffers) : i = Latest(matches)
    BY <1>3, <1>6, LatestIsOne
  <2>2. s = [r EXCEPT !.buffers[i].name = new]
    BY <1>1, <1>2, <1>6, <2>1 DEF RenameLiveTransient
  <2>3. PICK e : e = [r.buffers[i] EXCEPT !.name = new]
    OBVIOUS
  <2>4. e \in BufferEvents /\ e.class = r.buffers[i].class
    <3>1. r.buffers[i] \in BufferEvents
      BY <1>3
    <3>2. QED
      BY <2>3, <3>1 DEF BufferEvents
  <2>5. PICK after : after = [r.buffers EXCEPT ![i] = e]
    OBVIOUS
  <2>6. s = [r EXCEPT !.buffers = after]
    BY <2>2, <2>3, <2>5
  <2>7. /\ after \in Seq(BufferEvents) /\ Len(after) = Len(r.buffers)
        /\ \A j \in 1..Len(r.buffers) : after[j].class = r.buffers[j].class
    BY <1>3, <2>4, <2>5
  <2>8. /\ Changes(r, s, {"buffers", "live", "retained", "peak", "visualCalls"})
        /\ s.buffers = after /\ s.live = r.live /\ s.retained = r.retained
        /\ s.peak = r.peak
    BY <1>4, <2>6 DEF IsRecorder, Fields, Changes
  <2>9. r.retained \in Nat /\ r.peak \in Nat /\ r.live \in Nat
    BY <1>4 DEF IsRecorder
  <2>10. Quiet(r, s) /\ Clean(r, s)
    BY <2>7, <2>8, <2>9, OnlyBuffersChange
  <2>11. SameOutputs(r, s)
    BY <1>3, <2>7, <2>8 DEF SameOutputs, Outputless
  <2>12. QED
    BY <1>1, <2>8, <2>10, <2>11 DEF Effect, Ends
<1>7. QED
  BY <1>5, <1>6

(* The sweep of an outer entry: nothing is live any more.                     *)
LEMMA SweepIsRecorded ==
    ASSUME NEW r, Good(r)
    PROVE  Effect(r, ReleaseAllTransients(r), OkVerdict, 0)
<1>1. PICK s : s = ReleaseAllTransients(r)
  OBVIOUS
<1>2. IsRecorder(r)
  BY DEF Good
<1>3. r.buffers \in Seq(BufferEvents) /\ Len(r.buffers) \in Nat
      /\ DOMAIN r.buffers = 1..Len(r.buffers)
  BY <1>2 DEF IsRecorder
<1>4. PICK after : after = [i \in DOMAIN r.buffers |->
                               IF r.buffers[i].class = "Transient"
                               THEN [r.buffers[i] EXCEPT !.released = TRUE]
                               ELSE r.buffers[i]]
  OBVIOUS
<1>5. s = [r EXCEPT !.live = 0, !.buffers = after]
  BY <1>1, <1>4 DEF ReleaseAllTransients
<1>6. \A i \in 1..Len(r.buffers) :
          after[i] \in BufferEvents /\ after[i].class = r.buffers[i].class
  <2> SUFFICES ASSUME NEW i \in 1..Len(r.buffers)
               PROVE  after[i] \in BufferEvents /\ after[i].class = r.buffers[i].class
    OBVIOUS
  <2>1. r.buffers[i] \in BufferEvents
    BY <1>3
  <2>2. [r.buffers[i] EXCEPT !.released = TRUE] \in BufferEvents
        /\ [r.buffers[i] EXCEPT !.released = TRUE].class = r.buffers[i].class
    BY <2>1 DEF BufferEvents
  <2>3. QED
    BY <1>3, <1>4, <2>1, <2>2
<1>7. after \in Seq(BufferEvents) /\ Len(after) = Len(r.buffers)
  <2>1. DOMAIN after = 1..Len(r.buffers)
    BY <1>3, <1>4
  <2>2. after \in [1..Len(r.buffers) -> BufferEvents]
    BY <1>4, <1>6, <2>1
  <2>3. QED
    BY <1>3, <2>2
<1>8. /\ Changes(r, s, {"buffers", "live", "retained", "peak", "visualCalls"})
      /\ s.buffers = after /\ s.live = 0 /\ s.retained = r.retained /\ s.peak = r.peak
  BY <1>2, <1>5 DEF IsRecorder, Fields, Changes
<1>9. r.retained \in Nat /\ r.peak \in Nat
  BY <1>2 DEF IsRecorder
<1>10. Quiet(r, s) /\ Clean(r, s)
  BY <1>7, <1>8, <1>9, OnlyBuffersChange
<1>11. SameOutputs(r, s)
  BY <1>6, <1>7, <1>8 DEF SameOutputs, Outputless
<1>12. QED
  BY <1>1, <1>8, <1>10, <1>11 DEF Effect, Ends

(* The outputs of a call that fails are discarded.                            *)
LEMMA DiscardIsRecorded ==
    ASSUME NEW r, Good(r), NEW s, s = DiscardRetainedOutputs(r)
    PROVE  /\ Quiet(r, s) /\ Clean(r, s) /\ s.live = r.live
           /\ s.retained = 0 /\ Outputless(s)
<1>2. IsRecorder(r)
  BY DEF Good
<1>3. r.buffers \in Seq(BufferEvents) /\ Len(r.buffers) \in Nat
      /\ DOMAIN r.buffers = 1..Len(r.buffers)
  BY <1>2 DEF IsRecorder
<1>4. PICK after : after = [i \in DOMAIN r.buffers |->
                               IF r.buffers[i].class = "RetainedOutput"
                               THEN [r.buffers[i] EXCEPT !.class = "DiscardedOutput",
                                                         !.released = TRUE]
                               ELSE r.buffers[i]]
  OBVIOUS
<1>5. s = [r EXCEPT !.retained = 0, !.buffers = after]
  BY <1>4 DEF DiscardRetainedOutputs
<1>6. \A i \in 1..Len(r.buffers) :
          after[i] \in BufferEvents /\ after[i].class # "RetainedOutput"
  <2> SUFFICES ASSUME NEW i \in 1..Len(r.buffers)
               PROVE  after[i] \in BufferEvents /\ after[i].class # "RetainedOutput"
    OBVIOUS
  <2>1. r.buffers[i] \in BufferEvents
    BY <1>3
  <2>2. PICK e : e = [r.buffers[i] EXCEPT !.class = "DiscardedOutput", !.released = TRUE]
    OBVIOUS
  <2>3. e \in BufferEvents /\ e.class = "DiscardedOutput"
    <3>1. PICK old \in BufferEvents : old = r.buffers[i]
      BY <2>1
    <3>2. PICK class \in Classes : class = "DiscardedOutput"
      BY DEF Classes
    <3>3. e = [old EXCEPT !.class = class, !.released = TRUE]
      BY <2>2, <3>1, <3>2
    <3>4. e \in BufferEvents /\ e.class = class
      BY <3>3 DEF BufferEvents
    <3>5. QED
      BY <3>2, <3>4
  <2>4. after[i] = IF r.buffers[i].class = "RetainedOutput" THEN e ELSE r.buffers[i]
    BY <1>3, <1>4, <2>2
  <2>5. QED
    BY <2>1, <2>3, <2>4
<1>7. after \in Seq(BufferEvents) /\ Len(after) = Len(r.buffers)
  <2>1. DOMAIN after = 1..Len(r.buffers)
    BY <1>3, <1>4
  <2>2. after \in [1..Len(r.buffers) -> BufferEvents]
    BY <1>4, <1>6, <2>1
  <2>3. QED
    BY <1>3, <2>2
<1>8. /\ Changes(r, s, {"buffers", "live", "retained", "peak", "visualCalls"})
      /\ s.buffers = after /\ s.live = r.live /\ s.retained = 0 /\ s.peak = r.peak
  BY <1>2, <1>5 DEF IsRecorder, Fields, Changes
<1>9. r.live \in Nat /\ r.peak \in Nat
  BY <1>2 DEF IsRecorder
<1>10. Quiet(r, s) /\ Clean(r, s)
  BY <1>7, <1>8, <1>9, OnlyBuffersChange
<1>11. Outputless(s)
  BY <1>6, <1>7, <1>8 DEF Outputless
<1>12. QED
  BY <1>8, <1>10, <1>11

(* Counting a visual call moves no other counter.                             *)
LEMMA VisualCallIsCounted ==
    ASSUME NEW r, Good(r)
    PROVE  Effect(r, CountVisualCall(r), OkVerdict, r.live)
<1>1. PICK s : s = CountVisualCall(r)
  OBVIOUS
<1>2. IsRecorder(r)
  BY DEF Good
<1>3. /\ Changes(r, s, {"buffers", "live", "retained", "peak", "visualCalls"})
      /\ s.buffers = r.buffers /\ s.live = r.live /\ s.retained = r.retained
      /\ s.peak = r.peak
  BY <1>1, <1>2 DEF CountVisualCall, IsRecorder, Fields, Changes
<1>4. /\ r.live \in Nat /\ r.peak \in Nat /\ r.retained \in Nat
      /\ r.buffers \in Seq(BufferEvents)
  BY <1>2 DEF IsRecorder
<1>5. Quiet(r, s) /\ Clean(r, s)
  BY <1>3, <1>4, OnlyBuffersChange
<1>6. QED
  BY <1>1, <1>3, <1>5 DEF Effect, Ends, SameOutputs, Outputless

-------------------------------------------------------------------------------
(* Loops                                                                      *)

(* The recorder after each element of a loop.                                 *)
Loop(after, r, events, n) ==
    after = [k \in 0..n |-> IF k = 0 THEN r ELSE Recorded(after[k - 1], events[k])]

(* The recorders after each turn of a loop exist.                             *)
LEMMA LoopsExist ==
    ASSUME NEW r, NEW events, NEW n \in Nat
    PROVE  \E after : Loop(after, r, events, n)
<1> DEFINE S == {m \in Nat : \E after : Loop(after, r, events, m)}
<1>1. 0 \in S
    <2>1. Loop([k \in 0..0 |-> r], r, events, 0)
        BY DEF Loop
    <2> QED BY <2>1
<1>2. ASSUME NEW m \in Nat, m \in S PROVE m + 1 \in S
    <2>1. PICK f : Loop(f, r, events, m)
        BY <1>2
    <2> DEFINE g == [k \in 0..(m + 1) |->
                        IF k <= m THEN f[k] ELSE Recorded(f[m], events[k])]
    <2>2. \A k \in 0..m : g[k] = f[k]
        OBVIOUS
    <2>3. \A k \in 0..(m + 1) :
              g[k] = IF k = 0 THEN r ELSE Recorded(g[k - 1], events[k])
        <3> TAKE k \in 0..(m + 1)
        <3>1. CASE k <= m
            <4>0. k \in 0..m
                BY <3>1
            <4>1. f[k] = IF k = 0 THEN r ELSE Recorded(f[k - 1], events[k])
                BY <2>1, <4>0, Zenon DEF Loop
            <4>2. k # 0 => k - 1 \in 0..m
                BY <3>1
            <4>3. g[k] = f[k] /\ (k # 0 => g[k - 1] = f[k - 1])
                BY <2>2, <3>1, <4>2
            <4> QED BY <4>1, <4>3
        <3>2. CASE k = m + 1
            <4>1. k # 0 /\ k - 1 = m /\ ~(k <= m) /\ m \in 0..m
                BY <3>2
            <4>2. g[k - 1] = f[m]
                BY <2>2, <4>1
            <4> QED BY <4>1, <4>2
        <3> QED BY <3>1, <3>2
    <2> HIDE DEF g
    <2>4. Loop(g, r, events, m + 1)
        <3>1. g = [k \in 0..(m + 1) |-> g[k]]
            BY DEF g
        <3> QED BY <2>3, <3>1 DEF Loop
    <2> QED BY <2>4
<1>3. Nat \subseteq S
    BY <1>1, <1>2, NaturalsByInduction
<1> QED BY <1>3

(* A loop ends with the recorder after its last turn.                         *)
LEMMA InTurnIsALoop ==
    ASSUME NEW r, NEW events, Len(events) \in Nat
    PROVE  \E after : Loop(after, r, events, Len(events))
                      /\ InTurn(r, events) = after[Len(events)]
<1>1. InTurn(r, events)
          = (CHOOSE after : Loop(after, r, events, Len(events)))[Len(events)]
    BY Zenon DEF InTurn, Loop
<1>2. \E after : Loop(after, r, events, Len(events))
    BY LoopsExist
<1> QED BY <1>1, <1>2

(* A controlled copy moves no counter.                                        *)
LEMMA CopyIsRecorded ==
    ASSUME NEW r, Good(r), NEW name \in Names, NEW scope \in Scopes, NEW bytes \in Nat
    PROVE  Effect(r, RecordCopy(r, name, scope, bytes), OkVerdict, r.live)
<1>1. IsRecorder(r) /\ Accounted(r)
  BY DEF Good
<1>2. PICK e : e = [sequence |-> r.nextCopy, name |-> name, scope |-> scope, bytes |-> bytes]
  OBVIOUS
<1>3. e \in CopyEvents
  <2>1. r.nextCopy \in Nat
    BY <1>1 DEF IsRecorder
  <2>2. QED
    BY <1>2, <2>1 DEF CopyEvents
<1>4. PICK t : t = Keep(r, "copies", e)
  OBVIOUS
<1>5. PICK s : s = RecordCopy(r, name, scope, bytes)
  OBVIOUS
<1>6. s = [t EXCEPT !.nextCopy = @ + 1]
  BY <1>2, <1>4, <1>5 DEF RecordCopy
<1>7. /\ IsRecorder(t) /\ Changes(r, t, {"copies", "dropped"})
      /\ IF Len(r.copies) < r.capacity
         THEN t.copies = Append(r.copies, e) /\ t.dropped = r.dropped
         ELSE t.copies = r.copies /\ t.dropped = r.dropped + 1
  BY <1>1, <1>3, <1>4, KeepCopy
<1>8. Changes(t, s, {"nextCopy"}) /\ s.nextCopy = t.nextCopy + 1
  BY <1>6, <1>7 DEF IsRecorder, Fields, Changes
<1>9. /\ s.capacity = t.capacity /\ s.clock = t.clock /\ s.dropped = t.dropped
      /\ s.nextSpan = t.nextSpan /\ s.nextBuffer = t.nextBuffer /\ s.spans = t.spans
      /\ s.active = t.active /\ s.copies = t.copies /\ s.buffers = t.buffers
      /\ s.outcome = t.outcome /\ s.category = t.category /\ s.live = t.live
      /\ s.peak = t.peak /\ s.retained = t.retained
  BY <1>8 DEF Fields, Changes
<1>10. IsRecorder(s)
  <2>1. t.nextCopy \in Nat
    BY <1>7 DEF IsRecorder
  <2>2. s.nextCopy \in Nat
    BY <1>8, <2>1
  <2>3. QED
    BY <1>7, <1>8, <1>9, <2>2, Zenon DEF IsRecorder, Changes
<1>11. /\ s.capacity = r.capacity /\ s.nextSpan = r.nextSpan /\ s.nextBuffer = r.nextBuffer
       /\ s.nextCopy = r.nextCopy + 1 /\ s.spans = r.spans /\ s.active = r.active
       /\ s.buffers = r.buffers /\ s.outcome = r.outcome /\ s.category = r.category
       /\ s.live = r.live /\ s.retained = r.retained
  <2>1. /\ t.capacity = r.capacity /\ t.nextSpan = r.nextSpan /\ t.nextCopy = r.nextCopy
        /\ t.nextBuffer = r.nextBuffer /\ t.spans = r.spans /\ t.active = r.active
        /\ t.buffers = r.buffers /\ t.outcome = r.outcome /\ t.category = r.category
        /\ t.live = r.live /\ t.retained = r.retained
    BY <1>7 DEF Fields, Changes
  <2>2. QED
    BY <1>8, <1>9, <2>1
<1>12. r.copies \in Seq(CopyEvents)
  BY <1>1 DEF IsRecorder
<1>13. IF Len(r.copies) < r.capacity
       THEN Len(s.copies) = Len(r.copies) + 1 /\ s.dropped = r.dropped
       ELSE Len(s.copies) = Len(r.copies) /\ s.dropped = r.dropped + 1
  BY <1>3, <1>7, <1>9, <1>12
<1>14. Accounted(s)
  <2>1. Len(s.spans) = Len(r.spans) /\ Len(s.buffers) = Len(r.buffers)
    BY <1>11
  <2>2. /\ Len(r.spans) \in Nat /\ Len(r.buffers) \in Nat /\ Len(r.copies) \in Nat
        /\ r.capacity \in Nat /\ r.dropped \in Nat
        /\ r.nextSpan \in Nat /\ r.nextBuffer \in Nat /\ r.nextCopy \in Nat
    BY TablesHaveLengths
  <2>3. QED
    BY <1>1, <1>11, <1>13, <2>1, <2>2, CopyAccounted
<1>15. Len(r.spans) \in Nat
  BY TablesHaveLengths
<1>16. Nested(s)
  <2>1. t.clock = r.clock
    BY <1>7 DEF Fields, Changes
  <2>2. s.clock = r.clock
    BY <1>9, <2>1
  <2>3. QED
    BY <1>11, <2>2, SameNesting DEF Good
<1>17. QED
  BY <1>5, <1>10, <1>11, <1>14, <1>15, <1>16
     DEF Good, Effect, Quiet, Extends, Ends, Clean, SameOutputs, Outputless

(* What each element of a loop may be.                                        *)
Events ==
    [does : {"own", "release", "retain"}, name : Names, scope : Scopes, bytes : Nat]
    \cup [does : {"run"}, name : Stages, scope : Scopes, bytes : Nat]

(* What a loop over such elements has done to the counters.                   *)
Amounts(r, s, does, total) ==
    CASE does = "own" -> Effect(r, s, OkVerdict, r.live + total)
      [] does = "release" -> Effect(r, s, OkVerdict, SaturatingSub(r.live, total))
      [] does = "retain" -> /\ Quiet(r, s) /\ Clean(r, s) /\ s.live = r.live
                            /\ s.retained = r.retained + total
      [] OTHER -> Effect(r, s, OkVerdict, r.live)

(* One more turn of a loop moves its counter by that turn's bytes.            *)
LEMMA AmountsOfOneMore ==
    ASSUME NEW r, Good(r), NEW s, NEW total \in Nat, NEW e \in Events,
           Amounts(r, s, e.does, total)
    PROVE  Amounts(r, Recorded(s, e), e.does, total + e.bytes)
<1>1. Good(s) /\ Quiet(r, s) /\ Clean(r, s)
  BY DEF Amounts, Effect, Quiet, Ends
<1>2. PICK n \in Nat : n = e.bytes
  BY DEF Events
<1>3. PICK a \in Nat, b \in Nat : a = r.live /\ b = s.live
  BY <1>1, TablesHaveLengths
<1>4. CASE e.does = "own"
  <2>1. PICK u : u = RecordTransient(s, e.name, e.scope, n)
    OBVIOUS
  <2>2. e.name \in Names /\ e.scope \in Scopes
    BY <1>4 DEF Events
  <2>3. Effect(s, u, OkVerdict, b + n)
    BY <1>1, <1>3, <2>1, <2>2, TransientIsRecorded
  <2>4. Good(u) /\ u.live = b + n
    BY <2>3 DEF Effect, Quiet
  <2>5. PICK v : v = RecordCopy(u, e.name, e.scope, n)
    OBVIOUS
  <2>6. Effect(u, v, OkVerdict, b + n)
    BY <2>2, <2>4, <2>5, CopyIsRecorded
  <2>7. Effect(r, s, OkVerdict, a + total) /\ b = a + total
    BY <1>3, <1>4 DEF Amounts, Effect
  <2>8. Effect(r, v, OkVerdict, b + n)
    BY <2>3, <2>6, <2>7, ThenAnother
  <2>9. v = Recorded(s, e)
    BY <1>2, <1>4, <2>1, <2>5 DEF Recorded
  <2>10. b + n = a + (total + n)
    BY <2>7
  <2>11. QED
    BY <1>2, <1>3, <1>4, <2>8, <2>9, <2>10 DEF Amounts
<1>5. CASE e.does = "release"
  <2>1. PICK u : u = ReleaseTransient(s, e.name, e.scope, n)
    OBVIOUS
  <2>2. e.name \in Names /\ e.scope \in Scopes
    BY <1>5 DEF Events
  <2>3. Effect(s, u, OkVerdict, SaturatingSub(b, n))
    BY <1>1, <1>3, <2>1, <2>2, ReleaseIsRecorded
  <2>4. Effect(r, s, OkVerdict, SaturatingSub(a, total)) /\ b = SaturatingSub(a, total)
    BY <1>3, <1>5 DEF Amounts, Effect
  <2>5. Effect(r, u, OkVerdict, SaturatingSub(b, n))
    BY <2>3, <2>4, ThenAnother
  <2>6. u = Recorded(s, e)
    BY <1>2, <1>5, <2>1 DEF Recorded
  <2>7. SaturatingSub(b, n) = SaturatingSub(a, total + n)
    BY <2>4 DEF SaturatingSub
  <2>8. QED
    BY <1>2, <1>3, <1>5, <2>5, <2>6, <2>7 DEF Amounts
<1>6. CASE e.does = "retain"
  <2>1. PICK u : u = RecordAllocation(s, e.name, "RetainedOutput", e.scope, n)
    OBVIOUS
  <2>2. e.name \in Names /\ e.scope \in Scopes
    BY <1>6 DEF Events
  <2>3. /\ Quiet(s, u) /\ Clean(s, u) /\ u.live = s.live
        /\ u.retained = s.retained + n
    <3>1. PICK class \in Classes : class = "RetainedOutput"
      BY DEF Classes
    <3>2. u = RecordAllocation(s, e.name, class, e.scope, n)
      BY <2>1, <3>1
    <3>3. /\ Quiet(s, u) /\ Clean(s, u)
          /\ IF class = "RetainedOutput"
             THEN u.live = s.live /\ u.retained = s.retained + n
             ELSE u.live = s.live + n /\ SameOutputs(s, u)
      BY <1>1, <2>2, <3>2, AllocationIsRecorded
    <3>4. QED
      BY <3>1, <3>3
  <2>4. s.live = r.live /\ s.retained = r.retained + total
    BY <1>6 DEF Amounts
  <2>5. Quiet(r, u) /\ Clean(r, u)
    BY <1>1, <2>3, QuietAndClean
  <2>6. u.live = r.live /\ u.retained = r.retained + (total + n)
    <3>1. r.retained \in Nat
      BY TablesHaveLengths
    <3>2. QED
      BY <2>3, <2>4, <3>1
  <2>7. u = Recorded(s, e)
    BY <1>2, <1>6, <2>1 DEF Recorded
  <2>8. QED
    BY <1>2, <1>6, <2>5, <2>6, <2>7 DEF Amounts
<1>7. CASE e.does = "run"
  <2>1. PICK u : u = Spanned(s, e.name, e.scope, OkVerdict)
    OBVIOUS
  <2>2. e.name \in Stages /\ e.scope \in Scopes
    BY <1>7 DEF Events
  <2>3. Effect(s, u, OkVerdict, s.live)
    BY <1>1, <2>1, <2>2, SpannedHasItsVerdict
  <2>4. Effect(r, s, OkVerdict, r.live) /\ s.live = r.live
    BY <1>7 DEF Amounts, Effect
  <2>5. Effect(r, u, OkVerdict, r.live)
    BY <2>3, <2>4, ThenAnother
  <2>6. u = Recorded(s, e)
    BY <1>7, <2>1 DEF Recorded
  <2>7. QED
    BY <1>7, <2>5, <2>6 DEF Amounts
<1>8. QED
  BY <1>4, <1>5, <1>6, <1>7 DEF Events


(* A loop over events of one kind.                                            *)
LEMMA LoopAmounts ==
    ASSUME NEW r, Good(r), NEW events \in Seq(Events),
           NEW does \in {"own", "release", "retain", "run"},
           \A i \in DOMAIN events : events[i].does = does
    PROVE  Amounts(r, InTurn(r, events), does,
                   TotalOf([i \in DOMAIN events |-> events[i].bytes]))
<1>1. PICK l \in Nat : l = Len(events)
    <2>1. Len(events) \in Nat
        OBVIOUS
    <2> QED BY <2>1
<1>2. DOMAIN events = 1..l
    BY <1>1
<1>3. PICK sizes \in Seq(Nat) :
          sizes = [i \in DOMAIN events |-> events[i].bytes] /\ Len(sizes) = l
    <2>1. \A i \in 1..l : events[i].bytes \in Nat
        <3>1. \A i \in 1..l : events[i] \in Events
            BY <1>1
        <3> QED BY <3>1 DEF Events
    <2> DEFINE g == [i \in 1..l |-> events[i].bytes]
    <2>2. g \in Seq(Nat) /\ Len(g) = l
        BY <2>1
    <2> QED BY <1>2, <2>2
<1>4. PICK after : Loop(after, r, events, l) /\ InTurn(r, events) = after[l]
    BY <1>1, InTurnIsALoop
<1>5. PICK sums : Sums(sums, sizes, l) /\ TotalOf(sizes) = sums[l]
    BY <1>3, TotalIsASum
<1>6. /\ \A k \in 0..l : after[k] = IF k = 0 THEN r
                                   ELSE Recorded(after[k - 1], events[k])
      /\ \A k \in 0..l : sums[k] = IF k = 0 THEN 0 ELSE sums[k - 1] + sizes[k]
    BY <1>4, <1>5, Zenon DEF Loop, Sums
<1> DEFINE S == {k \in Nat : k <= l => sums[k] \in Nat
                                     /\ Amounts(r, after[k], does, sums[k])}
<1>7. 0 \in S
    <2>1. after[0] = r /\ sums[0] = 0
        BY <1>6
    <2>2. Effect(r, r, OkVerdict, r.live) /\ r.live \in Nat /\ r.retained \in Nat
        BY NoEffect, TablesHaveLengths
    <2>3. r.live + 0 = r.live /\ SaturatingSub(r.live, 0) = r.live
          /\ r.retained + 0 = r.retained
        BY <2>2 DEF SaturatingSub
    <2>4. Amounts(r, r, does, 0)
        BY <2>2, <2>3 DEF Amounts, Effect, Ends
    <2> QED BY <2>1, <2>4
<1>8. ASSUME NEW k \in Nat, k \in S PROVE k + 1 \in S
    <2> SUFFICES ASSUME k + 1 <= l
                 PROVE  sums[k + 1] \in Nat
                        /\ Amounts(r, after[k + 1], does, sums[k + 1])
        OBVIOUS
    <2>1. k + 1 \in 0..l /\ k + 1 \in 1..l /\ k + 1 # 0 /\ (k + 1) - 1 = k
        OBVIOUS
    <2>2. PICK total \in Nat : total = sums[k]
        BY <1>8, <2>1
    <2>3. PICK e \in Events : e = events[k + 1]
        BY <1>1, <2>1
    <2>4. e.does = does
        BY <1>2, <2>1, <2>3
    <2>5. e.bytes \in Nat /\ sizes[k + 1] = e.bytes
        BY <1>2, <1>3, <2>1, <2>3 DEF Events
    <2>6. after[k + 1] = Recorded(after[k], e) /\ sums[k + 1] = total + e.bytes
        BY <1>6, <2>1, <2>2, <2>3, <2>5
    <2>7. PICK s : s = after[k]
        OBVIOUS
    <2>8. Amounts(r, s, e.does, total)
        BY <1>8, <2>1, <2>2, <2>4, <2>7
    <2>9. Amounts(r, Recorded(s, e), e.does, total + e.bytes)
        BY <2>8, AmountsOfOneMore
    <2> QED BY <2>4, <2>5, <2>6, <2>7, <2>9
<1>9. Nat \subseteq S
    <2> HIDE DEF S
    <2> QED BY <1>7, <1>8, NaturalsByInduction
<1> QED BY <1>3, <1>4, <1>5, <1>9

(* What is held of each kind.                                                 *)
OwnedBytes(list) == TotalOf([i \in DOMAIN list |-> Bytes.owned])
ImageBytes(media, list) ==
    TotalOf([i \in DOMAIN list |-> PreparedBytes(media[list[i]])])
VideoBytes(list) == TotalOf([i \in DOMAIN list |-> Bytes.video])

(* Every buffer has a natural number of bytes, and a video has some.          *)
LEMMA BytesAreNatural ==
    /\ {Bytes.owned, Bytes.decoded, Bytes.destination, Bytes.scratch, Bytes.video,
        Bytes.output} \subseteq Nat
    /\ Bytes.video > 0
    /\ \A m : PreparedBytes(m) \in Nat
BY BytesAssumption DEF Buffers, PreparedBytes

(* Inputs and videos are of one size: their bytes are a product.              *)
LEMMA EqualBytes ==
    ASSUME NEW S, NEW list \in Seq(S)
    PROVE  /\ OwnedBytes(list) = Len(list) * Bytes.owned
           /\ VideoBytes(list) = Len(list) * Bytes.video
<1>1. DOMAIN list = 1..Len(list) /\ Len(list) \in Nat
    OBVIOUS
<1>2. Bytes.owned \in Nat /\ Bytes.video \in Nat
    BY BytesAreNatural
<1>3. PICK l \in Nat, a \in Nat, b \in Nat :
          l = Len(list) /\ a = Bytes.owned /\ b = Bytes.video
    BY <1>1, <1>2
<1>4. TotalOf([i \in 1..l |-> a]) = l * a /\ TotalOf([i \in 1..l |-> b]) = l * b
    BY TotalOfEqual
<1> QED BY <1>1, <1>3, <1>4 DEF OwnedBytes, VideoBytes

(* The bytes of the prepared images grow by those of the image that is added. *)
LEMMA ImageBytesOfOneMore ==
    ASSUME NEW media, NEW S, NEW list \in Seq(S), NEW k \in S
    PROVE  /\ ImageBytes(media, list) \in Nat
           /\ ImageBytes(media, Append(list, k))
                = ImageBytes(media, list) + PreparedBytes(media[k])
<1>1. PICK l \in Nat : l = Len(list)
    <2>1. Len(list) \in Nat
        OBVIOUS
    <2> QED BY <2>1
<1>2. PICK s \in Seq(Nat) :
          s = [i \in DOMAIN list |-> PreparedBytes(media[list[i]])] /\ Len(s) = l
    <2> DEFINE g == [i \in 1..l |-> PreparedBytes(media[list[i]])]
    <2>1. g \in Seq(Nat) /\ Len(g) = l
        BY BytesAreNatural
    <2>2. DOMAIN list = 1..l
        BY <1>1
    <2>3. g = [i \in DOMAIN list |-> PreparedBytes(media[list[i]])]
        BY <2>2
    <2> QED BY <2>1, <2>3
<1>3. PICK n \in Nat : n = PreparedBytes(media[k])
    BY BytesAreNatural
<1>4. [i \in DOMAIN Append(list, k) |-> PreparedBytes(media[Append(list, k)[i]])]
          = Append(s, n)
    <2>1. PICK t \in Seq(S) : t = Append(list, k)
        <3>1. Append(list, k) \in Seq(S)
            OBVIOUS
        <3> QED BY <3>1
    <2>2. Len(t) = l + 1 /\ t[l + 1] = k /\ \A i \in 1..l : t[i] = list[i]
        BY <1>1, <2>1
    <2>3. DOMAIN t = 1..(l + 1) /\ DOMAIN list = 1..l
        BY <1>1, <2>2
    <2>4. /\ DOMAIN Append(s, n) = 1..(l + 1) /\ Append(s, n)[l + 1] = n
          /\ \A i \in 1..l : Append(s, n)[i] = s[i]
          /\ Append(s, n) = [i \in 1..(l + 1) |-> Append(s, n)[i]]
        BY <1>2
    <2> DEFINE g == [i \in DOMAIN t |-> PreparedBytes(media[t[i]])]
    <2>5. \A i \in 1..(l + 1) : g[i] = Append(s, n)[i]
        <3> TAKE i \in 1..(l + 1)
        <3>1. CASE i = l + 1
            BY <1>3, <2>2, <2>3, <2>4, <3>1
        <3>2. CASE i # l + 1
            <4>1. i \in 1..l
                BY <3>2
            <4> QED BY <1>2, <2>2, <2>3, <2>4, <4>1
        <3> QED BY <3>1, <3>2
    <2>6. g = [i \in 1..(l + 1) |-> g[i]]
        BY <2>3
    <2> HIDE DEF g
    <2>7. g = Append(s, n)
        BY <2>4, <2>5, <2>6
    <2> QED BY <2>1, <2>7 DEF g
<1>5. TotalOf(s) \in Nat /\ TotalOf(Append(s, n)) = TotalOf(s) + n
    BY TotalOfOneMore
<1> QED BY <1>2, <1>3, <1>4, <1>5 DEF ImageBytes

(* Empty lists hold no bytes.                                                 *)
LEMMA NothingHeld ==
    ASSUME NEW media
    PROVE  /\ OwnedBytes(<<>>) = 0 /\ VideoBytes(<<>>) = 0
           /\ ImageBytes(media, <<>>) = 0
<1>1. /\ [i \in DOMAIN <<>> |-> Bytes.owned] = <<>>
      /\ [i \in DOMAIN <<>> |-> Bytes.video] = <<>>
      /\ [i \in DOMAIN <<>> |-> PreparedBytes(media[(<<>>)[i]])] = <<>>
    OBVIOUS
<1> QED BY <1>1, TotalOfNone DEF OwnedBytes, VideoBytes, ImageBytes

-------------------------------------------------------------------------------
(* Images                                                                     *)

(* The scopes of a call are scopes a recorder knows.                          *)
LEMMA ScopesAreKnown ==
    /\ CallScope \in Scopes
    /\ \A k \in Nat : /\ RequestScope(k) \in Scopes
                      /\ MediaScope(k) \in Scopes
                      /\ InputScope(k) \in Scopes
BY DEF Scopes, CallScope, RequestScope, MediaScope, InputScope

(* What becomes of a medium is a verdict.                                     *)
LEMMA MediaVerdicts ==
    ASSUME NEW m \in AllMedia
    PROVE  /\ ResizeVerdict(m) \in Verdicts /\ ImageVerdict(m) \in Verdicts
           /\ m.plan \in Verdicts /\ m.decode \in Verdicts
<1>1. m.plan \in Verdicts /\ m.decode \in Verdicts
    BY DEF AllMedia
<1>2. ResizeVerdict(m) \in Verdicts
    BY DEF ResizeVerdict, Verdicts, Categories
<1> QED BY <1>1, <1>2 DEF ImageVerdict

(* A verdict is a refusal or Ok, and never both; a call that has no answer    *)
(* yet has neither.                                                           *)
LEMMA VerdictsAreKnown ==
    /\ Verdicts \subseteq Refusals \cup {OkVerdict}
    /\ OkVerdict \notin Refusals /\ Unanswered \notin Refusals \cup {OkVerdict}
    /\ {"memory_error", "python_conversion"} \subseteq Refusals
BY DEF Verdicts, Refusals, Categories, OkVerdict, Unanswered

(* What was added and is given back leaves what there was.                    *)
LEMMA GiveBack ==
    ASSUME NEW a \in Nat, NEW b \in Nat
    PROVE  SaturatingSub(a + b, b) = a
BY DEF SaturatingSub

(* A recorder after an effect is a good one with that many bytes live.        *)
LEMMA EffectsAreGood ==
    ASSUME NEW r, Good(r), NEW s, NEW verdict, NEW n, Effect(r, s, verdict, n)
    PROVE  Good(s) /\ s.live = n /\ n \in Nat
BY TablesHaveLengths DEF Effect, Quiet

(* The copy of an image of the right size leaves a destination live.          *)
LEMMA NoopCopyEffect ==
    ASSUME NEW r, Good(r), NEW scope \in Scopes
    PROVE  Effect(r, NoopCopy(r, scope), OkVerdict, r.live + Bytes.destination)
<1>1. PICK n \in Nat : n = Bytes.destination
    BY BytesAreNatural
<1>2. PICK name \in Names : name = "resize.noop.source_copy"
    BY DEF Names
<1>3. PICK new \in Names : new = "prepared_rgb"
    BY DEF Names
<1>4. PICK s : s = RecordTransient(r, name, scope, n)
    OBVIOUS
<1>5. Effect(r, s, OkVerdict, r.live + n)
    BY <1>4, TransientIsRecorded
<1>6. Good(s) /\ s.live = r.live + n
    BY <1>5, EffectsAreGood
<1>7. PICK t : t = RecordCopy(s, name, scope, n)
    OBVIOUS
<1>8. Effect(s, t, OkVerdict, r.live + n)
    BY <1>6, <1>7, CopyIsRecorded
<1>9. Good(t) /\ t.live = r.live + n
    BY <1>6, <1>8, EffectsAreGood
<1>10. PICK u : u = RenameLiveTransient(t, name, new, scope)
    OBVIOUS
<1>11. Effect(t, u, OkVerdict, r.live + n)
    BY <1>9, <1>10, RenameIsRecorded
<1>12. Effect(r, t, OkVerdict, r.live + n)
    BY <1>5, <1>8, ThenAnother
<1>13. Effect(r, u, OkVerdict, r.live + n)
    BY <1>11, <1>12, ThenAnother
<1>14. u = NoopCopy(r, scope)
    BY <1>1, <1>2, <1>3, <1>4, <1>7, <1>10, Zenon DEF NoopCopy
<1> QED BY <1>1, <1>13, <1>14

(* Scratch is dropped as soon as it was used.                                 *)
LEMMA ScratchEffect ==
    ASSUME NEW r, Good(r), NEW scope \in Scopes
    PROVE  Effect(r, DropScratch(AddScratch(r, scope), scope), OkVerdict, r.live)
<1>1. PICK n \in Nat : n = Bytes.scratch
    BY BytesAreNatural
<1>2. PICK name \in Names : name = "scratch"
    BY DEF Names
<1>3. PICK a \in Nat : a = r.live
    BY TablesHaveLengths
<1>4. PICK s : s = AddScratch(r, scope)
    OBVIOUS
<1>5. Effect(r, s, OkVerdict, a + n)
    BY <1>1, <1>2, <1>3, <1>4, TransientIsRecorded DEF AddScratch
<1>6. Good(s) /\ s.live = a + n
    BY <1>5, EffectsAreGood
<1>7. PICK t : t = DropScratch(s, scope)
    OBVIOUS
<1>8. Effect(s, t, OkVerdict, SaturatingSub(a + n, n))
    BY <1>1, <1>2, <1>6, <1>7, ReleaseIsRecorded DEF DropScratch
<1>9. Effect(r, t, OkVerdict, a)
    BY <1>5, <1>8, ThenAnother, GiveBack
<1> QED BY <1>3, <1>4, <1>7, <1>9

(* A scaled image leaves its destination live, a failed one nothing.          *)
LEMMA ScaleEffect ==
    ASSUME NEW r, Good(r), NEW m \in AllMedia, m.resize # "same", NEW scope \in Scopes
    PROVE  Effect(r, Scale(r, m, scope), OkVerdict,
                  IF ResizeVerdict(m) = OkVerdict THEN r.live + Bytes.destination
                  ELSE r.live)
<1>1. PICK n \in Nat : n = Bytes.destination
    BY BytesAreNatural
<1>2. PICK name \in Names : name = "destination"
    BY DEF Names
<1>3. PICK new \in Names : new = "prepared_rgb"
    BY DEF Names
<1>4. PICK a \in Nat : a = r.live
    BY TablesHaveLengths
<1>5. PICK placed : placed = RecordTransient(r, name, scope, n)
    OBVIOUS
<1>6. Effect(r, placed, OkVerdict, a + n)
    BY <1>4, <1>5, TransientIsRecorded
<1>7. Good(placed) /\ placed.live = a + n
    BY <1>6, EffectsAreGood
<1>8. PICK worked : worked = IF m.resize = "scratchless" THEN placed
                             ELSE DropScratch(AddScratch(placed, scope), scope)
    OBVIOUS
<1>9. Effect(placed, worked, OkVerdict, a + n)
    BY <1>7, <1>8, NoEffect, ScratchEffect
<1>10. Effect(r, worked, OkVerdict, a + n)
    BY <1>6, <1>9, ThenAnother
<1>11. Good(worked) /\ worked.live = a + n
    BY <1>10, EffectsAreGood
<1>12. \A s : Good(s) /\ s.live = a + n
              => Effect(s, DropDestination(s, scope), OkVerdict, a)
    <2> TAKE s
    <2> HAVE Good(s) /\ s.live = a + n
    <2>1. Effect(s, ReleaseTransient(s, name, scope, n), OkVerdict,
                 SaturatingSub(a + n, n))
        BY ReleaseIsRecorded
    <2>2. ReleaseTransient(s, name, scope, n) = DropDestination(s, scope)
        BY <1>1, <1>2 DEF DropDestination
    <2> QED BY <2>1, <2>2, GiveBack
<1>13. CASE m.resize = "noDestination"
    <2>1. Scale(r, m, scope) = r /\ ResizeVerdict(m) # OkVerdict
        BY <1>13 DEF Scale, ResizeVerdict, OkVerdict
    <2> QED BY <2>1, NoEffect
<1>14. CASE m.resize = "noScratch"
    <2>1. ResizeVerdict(m) # OkVerdict
        BY <1>14 DEF ResizeVerdict, OkVerdict
    <2>2. Scale(r, m, scope) = DropDestination(placed, scope)
        BY <1>1, <1>2, <1>5, <1>14 DEF Scale
    <2>3. Effect(placed, DropDestination(placed, scope), OkVerdict, a)
        BY <1>7, <1>12
    <2>4. Effect(r, DropDestination(placed, scope), OkVerdict, a)
        BY <1>6, <2>3, ThenAnother
    <2> QED BY <1>4, <2>1, <2>2, <2>4
<1>15. CASE m.resize = "kernelFails"
    <2>1. ResizeVerdict(m) # OkVerdict
        BY <1>15 DEF ResizeVerdict, OkVerdict
    <2>2. Scale(r, m, scope) = DropDestination(worked, scope)
        BY <1>1, <1>2, <1>5, <1>8, <1>15 DEF Scale
    <2>3. Effect(worked, DropDestination(worked, scope), OkVerdict, a)
        BY <1>11, <1>12
    <2>4. Effect(r, DropDestination(worked, scope), OkVerdict, a)
        BY <1>10, <2>3, ThenAnother
    <2> QED BY <1>4, <2>1, <2>2, <2>4
<1>16. CASE m.resize \in {"scaled", "scratchless"}
    <2>1. ResizeVerdict(m) = OkVerdict
        BY <1>16 DEF ResizeVerdict, OkVerdict
    <2>2. PICK u : u = RenameLiveTransient(worked, name, new, scope)
        OBVIOUS
    <2>3. Scale(r, m, scope) = u
        BY <1>1, <1>2, <1>3, <1>5, <1>8, <1>16, <2>2 DEF Scale
    <2>4. Effect(worked, u, OkVerdict, a + n)
        BY <1>11, <2>2, RenameIsRecorded
    <2>5. Effect(r, u, OkVerdict, a + n)
        BY <1>10, <2>4, ThenAnother
    <2> QED BY <1>1, <1>4, <2>1, <2>3, <2>5
<1> QED BY <1>13, <1>14, <1>15, <1>16 DEF AllMedia

(* The resize span of an image ends with the verdict of the kernel.           *)
LEMMA ResizeWithinEffect ==
    ASSUME NEW r, Good(r), NEW m \in AllMedia, NEW scope \in Scopes
    PROVE  Effect(r, ResizeWithin(r, m, scope), ResizeVerdict(m),
                  IF ResizeVerdict(m) = OkVerdict THEN r.live + Bytes.destination
                  ELSE r.live)
<1>1. PICK stage \in Stages : stage = ResizeSpan
    BY DEF Stages, ResizeSpan
<1>2. PICK b : b = Begin(r, stage, scope)
    OBVIOUS
<1>3. Good(b) /\ b.live = r.live
    BY <1>2, BeginOpens
<1>4. PICK t : t = ResizeImage(b, m, scope)
    OBVIOUS
<1>5. PICK live : live = IF ResizeVerdict(m) = OkVerdict
                         THEN r.live + Bytes.destination ELSE r.live
    OBVIOUS
<1>6. Effect(b, t, OkVerdict, live)
    <2>1. CASE m.resize = "same"
        <3>1. ResizeVerdict(m) = OkVerdict
            BY <2>1 DEF ResizeVerdict, OkVerdict
        <3> QED BY <1>3, <1>4, <1>5, <2>1, <3>1, NoopCopyEffect DEF ResizeImage
    <2>2. CASE m.resize # "same"
        BY <1>3, <1>4, <1>5, <2>2, ScaleEffect DEF ResizeImage
    <2> QED BY <2>1, <2>2
<1>7. PICK verdict \in Refusals \cup {OkVerdict} : verdict = ResizeVerdict(m)
    BY MediaVerdicts, VerdictsAreKnown
<1>8. Effect(r, Finish(t, NextToken(r), verdict), verdict, live)
    BY <1>2, <1>6, WithinASpan
<1>9. ResizeWithin(r, m, scope) = Finish(t, NextToken(r), verdict)
    BY <1>1, <1>2, <1>4, <1>7, Zenon DEF ResizeWithin
<1> QED BY <1>5, <1>7, <1>8, <1>9

(* An image is prepared or leaves nothing behind.                             *)
LEMMA ExecuteRawEffect ==
    ASSUME NEW r, Good(r), NEW m \in AllMedia, NEW scope \in Scopes
    PROVE  Effect(r, ExecuteRaw(r, m, scope), ImageVerdict(m),
                  IF ImageVerdict(m) = OkVerdict THEN r.live + Bytes.destination
                  ELSE r.live)
<1>1. PICK stage \in Stages : stage = DecodeSpan
    BY DEF Stages, DecodeSpan
<1>2. PICK verdict \in Refusals \cup {OkVerdict} : verdict = m.decode
    BY MediaVerdicts, VerdictsAreKnown
<1>3. PICK d : d = Spanned(r, stage, scope, verdict)
    OBVIOUS
<1>4. Effect(r, d, verdict, r.live)
    BY <1>3, SpannedHasItsVerdict
<1>5. Good(d) /\ d.live = r.live
    BY <1>4, EffectsAreGood
<1>6. CASE m.decode # OkVerdict
    <2>1. ExecuteRaw(r, m, scope) = d /\ ImageVerdict(m) = m.decode
        BY <1>1, <1>2, <1>3, <1>6 DEF ExecuteRaw, ImageVerdict
    <2> QED BY <1>2, <1>4, <1>6, <2>1
<1>7. CASE m.decode = OkVerdict
    <2>1. ExecuteRaw(r, m, scope) = ResizeWithin(d, m, scope)
          /\ ImageVerdict(m) = ResizeVerdict(m)
        BY <1>1, <1>2, <1>3, <1>7 DEF ExecuteRaw, ImageVerdict
    <2>2. PICK live : live = IF ResizeVerdict(m) = OkVerdict
                             THEN r.live + Bytes.destination ELSE r.live
        OBVIOUS
    <2>3. Effect(d, ResizeWithin(d, m, scope), ResizeVerdict(m), live)
        BY <1>5, <2>2, ResizeWithinEffect
    <2>4. Effect(r, ResizeWithin(d, m, scope), ResizeVerdict(m), live)
        BY <1>2, <1>4, <1>7, <2>3, ThenAnother
    <2> QED BY <2>1, <2>2, <2>4
<1> QED BY <1>6, <1>7

(* An encoded image leaves its prepared pixels live, or nothing when it       *)
(* fails.                                                                     *)
LEMMA ExecuteEncodedEffect ==
    ASSUME NEW r, Good(r), NEW m \in AllMedia, m.source = "encoded",
           NEW scope \in Scopes
    PROVE  Effect(r, ExecuteEncoded(r, m, scope), ImageVerdict(m),
                  IF ImageVerdict(m) = OkVerdict THEN r.live + PreparedBytes(m)
                  ELSE r.live)
<1>1. PICK stage \in Stages : stage = DecodeSpan
    BY DEF Stages, DecodeSpan
<1>2. PICK verdict \in Refusals \cup {OkVerdict} : verdict = m.decode
    BY MediaVerdicts, VerdictsAreKnown
<1>3. PICK spanned : spanned = Spanned(r, stage, scope, verdict)
    OBVIOUS
<1>4. PICK a \in Nat, b \in Nat, c \in Nat :
          a = r.live /\ b = Bytes.decoded /\ c = Bytes.destination
    BY BytesAreNatural, TablesHaveLengths
<1>5. Effect(r, spanned, verdict, a)
    BY <1>3, <1>4, SpannedHasItsVerdict
<1>6. Good(spanned) /\ spanned.live = a
    BY <1>5, EffectsAreGood
<1>7. PICK name \in Names : name = "decoded_rgb"
    BY DEF Names
<1>8. PICK new \in Names : new = "prepared_rgb"
    BY DEF Names
<1>9. PICK decoded : decoded = RecordTransient(spanned, name, scope, b)
    OBVIOUS
<1>10. Effect(spanned, decoded, OkVerdict, a + b)
    BY <1>6, <1>9, TransientIsRecorded
<1>11. Good(decoded) /\ decoded.live = a + b
    BY <1>6, <1>10, EffectsAreGood
<1>12. CASE m.decode # OkVerdict
    <2>1. ExecuteEncoded(r, m, scope) = spanned /\ ImageVerdict(m) = m.decode
        BY <1>1, <1>2, <1>3, <1>12 DEF ExecuteEncoded, ImageVerdict
    <2> QED BY <1>2, <1>4, <1>5, <1>12, <2>1
<1>13. m.decode = OkVerdict => Effect(r, decoded, OkVerdict, a + b)
    BY <1>2, <1>5, <1>10, ThenAnother
<1>14. CASE m.decode = OkVerdict /\ m.resize = "same"
    <2>1. PICK resize \in Stages : resize = ResizeSpan
        BY DEF Stages, ResizeSpan
    <2>2. PICK s : s = Spanned(decoded, resize, scope, OkVerdict)
        OBVIOUS
    <2>3. Effect(decoded, s, OkVerdict, a + b)
        BY <1>11, <2>2, SpannedHasItsVerdict
    <2>4. Good(s) /\ s.live = a + b
        BY <1>11, <2>3, EffectsAreGood
    <2>5. PICK u : u = RenameLiveTransient(s, name, new, scope)
        OBVIOUS
    <2>6. Effect(s, u, OkVerdict, a + b)
        BY <2>4, <2>5, RenameIsRecorded
    <2>7. Effect(r, s, OkVerdict, a + b)
        BY <1>13, <1>14, <2>3, ThenAnother
    <2>8. Effect(r, u, OkVerdict, a + b)
        BY <2>6, <2>7, ThenAnother
    <2>9. ExecuteEncoded(r, m, scope) = u
        BY <1>1, <1>2, <1>3, <1>4, <1>7, <1>8, <1>9, <1>14, <2>1, <2>2, <2>5
           DEF ExecuteEncoded
    <2>10. ImageVerdict(m) = OkVerdict /\ PreparedBytes(m) = b
        BY <1>4, <1>14 DEF ImageVerdict, ResizeVerdict, PreparedBytes, OkVerdict
    <2> QED BY <1>4, <2>8, <2>9, <2>10
<1>15. CASE m.decode = OkVerdict /\ m.resize # "same"
    <2>1. PICK v : v = ResizeVerdict(m)
        OBVIOUS
    <2>2. PICK live \in Nat : live = IF v = OkVerdict THEN a + c ELSE a
        OBVIOUS
    <2>3. PICK s : s = ResizeWithin(decoded, m, scope)
        OBVIOUS
    <2>4. Effect(decoded, s, v, live + b)
        <3>1. (IF v = OkVerdict THEN decoded.live + Bytes.destination
               ELSE decoded.live) = live + b
            BY <1>4, <1>11, <2>2
        <3>2. Effect(decoded, s, v, IF v = OkVerdict
                                    THEN decoded.live + Bytes.destination
                                    ELSE decoded.live)
            BY <1>11, <2>1, <2>3, ResizeWithinEffect
        <3> QED BY <3>1, <3>2
    <2>5. Good(s) /\ s.live = live + b
        BY <1>11, <2>4, EffectsAreGood
    <2>6. PICK u : u = ReleaseTransient(s, name, scope, b)
        OBVIOUS
    <2>7. Effect(s, u, OkVerdict, live)
        <3>1. Effect(s, u, OkVerdict, SaturatingSub(live + b, b))
            BY <2>5, <2>6, ReleaseIsRecorded
        <3> QED BY <3>1, GiveBack
    <2>8. Effect(r, s, v, live + b)
        BY <1>13, <1>15, <2>4, ThenAnother
    <2>9. Effect(r, u, v, live)
        BY <2>7, <2>8, ThenCleanUp
    <2>10. ExecuteEncoded(r, m, scope) = u
        BY <1>1, <1>2, <1>3, <1>4, <1>7, <1>9, <1>15, <2>3, <2>6
           DEF ExecuteEncoded
    <2>11. ImageVerdict(m) = v /\ PreparedBytes(m) = c
        BY <1>4, <1>15, <2>1 DEF ImageVerdict, PreparedBytes
    <2> QED BY <1>4, <2>2, <2>9, <2>10, <2>11
<1> QED BY <1>12, <1>14, <1>15

(* So does any image.                                                         *)
LEMMA ExecuteImageEffect ==
    ASSUME NEW r, Good(r), NEW k \in Nat, Media[k] \in AllMedia,
           Media[k].source # "video"
    PROVE  Effect(r, ExecuteImage(r, k), ImageVerdict(Media[k]),
                  IF ImageVerdict(Media[k]) = OkVerdict
                  THEN r.live + PreparedBytes(Media[k]) ELSE r.live)
<1>1. PICK m \in AllMedia : m = Media[k]
    OBVIOUS
<1>2. PICK scope \in Scopes : scope = MediaScope(k)
    BY ScopesAreKnown
<1>3. CASE m.source = "raw"
    <2>1. PreparedBytes(m) = Bytes.destination
        BY <1>3 DEF PreparedBytes
    <2>2. ExecuteImage(r, k) = ExecuteRaw(r, m, scope)
        BY <1>1, <1>2, <1>3 DEF ExecuteImage
    <2> QED BY <1>1, <2>1, <2>2, ExecuteRawEffect
<1>4. CASE m.source = "encoded"
    <2>1. ExecuteImage(r, k) = ExecuteEncoded(r, m, scope)
        BY <1>1, <1>2, <1>4 DEF ExecuteImage
    <2> QED BY <1>1, <1>4, <2>1, ExecuteEncodedEffect
<1> QED BY <1>1, <1>3, <1>4 DEF AllMedia

(* A salvaged image leaves nothing live, whatever becomes of it.              *)
LEMMA SalvagedImageEffect ==
    ASSUME NEW r, Good(r), NEW k \in Nat, Media[k] \in AllMedia,
           Media[k].source # "video"
    PROVE  Effect(r, SalvagedImage(r, k), ImageVerdict(Media[k]), r.live)
<1>1. PICK a \in Nat, b \in Nat : a = r.live /\ b = PreparedBytes(Media[k])
    BY BytesAreNatural, TablesHaveLengths
<1>2. PICK v : v = ImageVerdict(Media[k])
    OBVIOUS
<1>3. PICK s : s = ExecuteImage(r, k)
    OBVIOUS
<1>4. Effect(r, s, v, IF v = OkVerdict THEN a + b ELSE a)
    BY <1>1, <1>2, <1>3, ExecuteImageEffect
<1>5. CASE v # OkVerdict
    BY <1>1, <1>2, <1>3, <1>4, <1>5 DEF SalvagedImage
<1>6. CASE v = OkVerdict
    <2>1. Effect(r, s, v, a + b)
        BY <1>4, <1>6
    <2>2. Good(s) /\ s.live = a + b
        BY <2>1, EffectsAreGood
    <2>3. PICK name \in Names : name = "prepared_rgb"
        BY DEF Names
    <2>4. PICK scope \in Scopes : scope = MediaScope(k)
        BY ScopesAreKnown
    <2>5. Effect(s, ReleaseTransient(s, name, scope, b), OkVerdict, a)
        <3>1. Effect(s, ReleaseTransient(s, name, scope, b), OkVerdict,
                     SaturatingSub(a + b, b))
            BY <2>2, ReleaseIsRecorded
        <3> QED BY <3>1, GiveBack
    <2>6. SalvagedImage(r, k) = ReleaseTransient(s, name, scope, b)
        <3>1. PICK e : e = ReleaseImage(k)
            OBVIOUS
        <3>2. e.does = "release" /\ e.name = name /\ e.scope = scope /\ e.bytes = b
            BY <1>1, <2>3, <2>4, <3>1 DEF ReleaseImage, Event
        <3>3. Recorded(s, e) = ReleaseTransient(s, name, scope, b)
            BY <3>2 DEF Recorded
        <3> QED BY <1>2, <1>3, <1>6, <3>1, <3>3 DEF SalvagedImage
    <2>7. Effect(r, ReleaseTransient(s, name, scope, b), v, a)
        BY <2>1, <2>5, ThenCleanUp
    <2> QED BY <1>1, <1>2, <2>6, <2>7
<1> QED BY <1>5, <1>6

(* Planning an image moves no counter and has the image's verdict.            *)
LEMMA PlanImageSpanEffect ==
    ASSUME NEW r, Good(r), NEW k \in Nat, Media[k] \in AllMedia
    PROVE  Effect(r, PlanImageSpan(r, k), Media[k].plan, r.live)
<1>1. PICK stage \in Stages : stage = "native.media.plan"
    BY DEF Stages
<1>2. PICK decode \in Stages : decode = DecodeSpan
    BY DEF Stages, DecodeSpan
<1>3. PICK scope \in Scopes : scope = MediaScope(k)
    BY ScopesAreKnown
<1>4. PICK verdict \in Refusals \cup {OkVerdict} : verdict = Media[k].plan
    BY MediaVerdicts, VerdictsAreKnown
<1>5. PICK began : began = Begin(r, stage, scope)
    OBVIOUS
<1>6. Good(began) /\ began.live = r.live
    BY <1>5, BeginOpens
<1>7. PICK within : within = IF verdict = "MediaDecode"
                             THEN Spanned(began, decode, scope, verdict) ELSE began
    OBVIOUS
<1>8. \E inner : /\ verdict = OkVerdict => inner = OkVerdict
                 /\ Effect(began, within, inner, r.live)
    <2>1. CASE verdict = "MediaDecode"
        BY <1>6, <1>7, <2>1, SpannedHasItsVerdict
    <2>2. CASE verdict # "MediaDecode"
        <3>1. Effect(began, within, OkVerdict, r.live)
            BY <1>6, <1>7, <2>2, NoEffect
        <3> QED BY <3>1
    <2> QED BY <2>1, <2>2
<1>9. PICK inner : /\ verdict = OkVerdict => inner = OkVerdict
                   /\ Effect(began, within, inner, r.live)
    BY <1>8
<1>10. PICK live : live = r.live
    OBVIOUS
<1>11. Effect(began, within, inner, live)
    BY <1>9, <1>10
<1>12. Effect(r, Finish(within, NextToken(r), verdict), verdict, live)
    BY <1>5, <1>9, <1>11, WithinASpan
<1>13. PlanImageSpan(r, k) = Finish(within, NextToken(r), verdict)
    BY <1>1, <1>2, <1>3, <1>4, <1>5, <1>7, Zenon DEF PlanImageSpan
<1> QED BY <1>4, <1>10, <1>12, <1>13

(* A video that is executed leaves its frames live; one that fails leaves     *)
(* nothing.                                                                   *)
LEMMA VideoEffects ==
    ASSUME NEW r, Good(r), NEW k \in Nat, NEW verdict \in Verdicts
    PROVE  LET began == Begin(r, VideoSpan, MediaScope(k))
               held == RecordTransient(began, "prepared_video_rgb", MediaScope(k),
                                       Bytes.video)
           IN  /\ Effect(r, Finish(held, NextToken(r), OkVerdict), OkVerdict,
                         r.live + Bytes.video)
               /\ Effect(r, Finish(began, NextToken(r), verdict), verdict, r.live)
<1>1. PICK stage \in Stages : stage = VideoSpan
    BY DEF Stages, VideoSpan
<1>2. PICK scope \in Scopes : scope = MediaScope(k)
    BY ScopesAreKnown
<1>3. PICK name \in Names : name = "prepared_video_rgb"
    BY DEF Names
<1>4. PICK n \in Nat, a \in Nat : n = Bytes.video /\ a = r.live
    BY BytesAreNatural, TablesHaveLengths
<1>5. PICK began : began = Begin(r, stage, scope)
    OBVIOUS
<1>6. Good(began) /\ began.live = a
    BY <1>4, <1>5, BeginOpens
<1>7. PICK held : held = RecordTransient(began, name, scope, n)
    OBVIOUS
<1>8. Effect(began, held, OkVerdict, a + n)
    BY <1>6, <1>7, TransientIsRecorded
<1>9. Effect(began, began, OkVerdict, a)
    BY <1>6, NoEffect
<1>10. verdict \in Refusals \cup {OkVerdict}
    BY VerdictsAreKnown
<1>11. Effect(r, Finish(held, NextToken(r), OkVerdict), OkVerdict, a + n)
    <2>1. PICK ok \in Refusals \cup {OkVerdict} : ok = OkVerdict
        OBVIOUS
    <2>2. Effect(r, Finish(held, NextToken(r), ok), ok, a + n)
        BY <1>5, <1>8, <2>1, WithinASpan
    <2> QED BY <2>1, <2>2
<1>12. Effect(r, Finish(began, NextToken(r), verdict), verdict, a)
    <2>1. PICK given \in Refusals \cup {OkVerdict} : given = verdict
        BY <1>10
    <2>2. Effect(r, Finish(began, NextToken(r), given), given, a)
        BY <1>5, <1>9, WithinASpan
    <2> QED BY <2>1, <2>2
<1> QED BY <1>1, <1>2, <1>3, <1>4, <1>5, <1>7, <1>11, <1>12

-------------------------------------------------------------------------------
(* What a call owns, taken and given back                                     *)

(* The calls there are.                                                       *)
LEMMA CallsAreTyped ==
    ASSUME call \in Calls
    PROVE  /\ call.requests \in Seq(Turns) /\ call.media \in Seq(AllMedia)
           /\ call.capacity \in Nat /\ call.parsed \in Nat /\ call.allocated \in Nat
           /\ call.parse \in Verdicts /\ call.preflight \in Verdicts
           /\ call.limits \in Verdicts
           /\ call.convert \in {OkVerdict, "python_conversion"}
           /\ call.entry \in {"plan", "observer", "envelope", "binding"}
           /\ ImagesOf(call) \subseteq Occurrences /\ VideosOf(call) \subseteq Occurrences
           /\ Occurrences \subseteq Nat
           /\ \A k \in Occurrences : Media[k] \in AllMedia
<1>1. IsCall(call)
    BY CallsAssumption
<1>2. call.media \in Seq(AllMedia)
    BY <1>1 DEF IsCall
<1>3. Occurrences \subseteq Nat /\ \A k \in Occurrences : Media[k] \in AllMedia
    BY <1>2 DEF Occurrences, Media
<1> QED BY <1>1, <1>3 DEF IsCall, ImagesOf, VideosOf, Occurrences, Media

(* The loop that gives back something of each of a list of places.            *)
LEMMA ReleaseLoop ==
    ASSUME NEW r, Good(r), NEW events \in Seq(Events),
           \A i \in DOMAIN events : events[i].does = "release"
    PROVE  Effect(r, InTurn(r, events), OkVerdict,
                  SaturatingSub(r.live,
                                TotalOf([i \in DOMAIN events |-> events[i].bytes])))
<1>1. PICK does \in {"own", "release", "retain", "run"} : does = "release"
    OBVIOUS
<1>2. Amounts(r, InTurn(r, events), does,
              TotalOf([i \in DOMAIN events |-> events[i].bytes]))
    BY <1>1, LoopAmounts
<1> QED BY <1>1, <1>2 DEF Amounts

(* Releasing lists of images and videos gives back their bytes.               *)
LEMMA ReleaseAllEffect ==
    ASSUME NEW r, Good(r), call \in Calls, NEW imageList \in Seq(Occurrences),
           NEW videoList \in Seq(Occurrences)
    PROVE  Effect(r, ReleaseAll(r, imageList, videoList), OkVerdict,
                  SaturatingSub(SaturatingSub(r.live, ImageBytes(Media, imageList)),
                                VideoBytes(videoList)))
<1>1. PICK l \in Nat, n \in Nat : l = Len(imageList) /\ n = Len(videoList)
    <2>1. Len(imageList) \in Nat /\ Len(videoList) \in Nat
        OBVIOUS
    <2> QED BY <2>1
<1>2. DOMAIN imageList = 1..l /\ DOMAIN videoList = 1..n
    BY <1>1
<1>3. /\ \A i \in 1..l : imageList[i] \in Nat
      /\ \A i \in 1..n : videoList[i] \in Nat
    BY <1>1, CallsAreTyped
<1>4. PICK f \in Seq(Events) :
          /\ f = [i \in DOMAIN imageList |-> ReleaseImage(imageList[i])]
          /\ DOMAIN f = 1..l
          /\ \A i \in 1..l : f[i].does = "release"
                             /\ f[i].bytes = PreparedBytes(Media[imageList[i]])
    <2> DEFINE g == [i \in 1..l |-> ReleaseImage(imageList[i])]
    <2>1. \A i \in 1..l : g[i] \in Events
        BY <1>3, ScopesAreKnown, BytesAreNatural
           DEF ReleaseImage, Event, Names, Events
    <2>2. g \in Seq(Events)
        BY <2>1
    <2>3. \A i \in 1..l : g[i].does = "release"
                          /\ g[i].bytes = PreparedBytes(Media[imageList[i]])
        BY DEF ReleaseImage, Event
    <2>4. g = [i \in DOMAIN imageList |-> ReleaseImage(imageList[i])]
          /\ DOMAIN g = 1..l
        BY <1>2
    <2> QED BY <2>2, <2>3, <2>4
<1>5. PICK f2 \in Seq(Events) :
          /\ f2 = [i \in DOMAIN videoList |-> ReleaseVideo(videoList[i])]
          /\ DOMAIN f2 = 1..n
          /\ \A i \in 1..n : f2[i].does = "release" /\ f2[i].bytes = Bytes.video
    <2> DEFINE g == [i \in 1..n |-> ReleaseVideo(videoList[i])]
    <2>1. \A i \in 1..n : g[i] \in Events
        BY <1>3, ScopesAreKnown, BytesAreNatural
           DEF ReleaseVideo, Event, Names, Events
    <2>2. g \in Seq(Events)
        BY <2>1
    <2>3. \A i \in 1..n : g[i].does = "release" /\ g[i].bytes = Bytes.video
        BY DEF ReleaseVideo, Event
    <2>4. g = [i \in DOMAIN videoList |-> ReleaseVideo(videoList[i])]
          /\ DOMAIN g = 1..n
        BY <1>2
    <2> QED BY <2>2, <2>3, <2>4
<1>6. PICK s : s = InTurn(r, f)
    OBVIOUS
<1>7. PICK t : t = InTurn(s, f2)
    OBVIOUS
<1>8. ReleaseAll(r, imageList, videoList) = t
    BY <1>4, <1>5, <1>6, <1>7, Zenon DEF ReleaseAll
<1>9. /\ TotalOf([i \in DOMAIN f |-> f[i].bytes]) = ImageBytes(Media, imageList)
      /\ TotalOf([i \in DOMAIN f2 |-> f2[i].bytes]) = VideoBytes(videoList)
    <2>1. [i \in DOMAIN f |-> f[i].bytes]
              = [i \in DOMAIN imageList |-> PreparedBytes(Media[imageList[i]])]
        BY <1>2, <1>4
    <2>2. [i \in DOMAIN f2 |-> f2[i].bytes] = [i \in DOMAIN videoList |-> Bytes.video]
        BY <1>2, <1>5
    <2> QED BY <2>1, <2>2, Zenon DEF ImageBytes, VideoBytes
<1>10. Effect(r, s, OkVerdict, SaturatingSub(r.live, ImageBytes(Media, imageList)))
    BY <1>4, <1>6, <1>9, ReleaseLoop
<1>11. Good(s) /\ s.live = SaturatingSub(r.live, ImageBytes(Media, imageList))
    BY <1>10, EffectsAreGood
<1>12. Effect(s, t, OkVerdict, SaturatingSub(s.live, VideoBytes(videoList)))
    BY <1>5, <1>7, <1>9, <1>11, ReleaseLoop
<1> QED BY <1>8, <1>10, <1>11, <1>12, ThenAnother

(* Executing the plan: a span for each image and video that is shown.         *)
LEMMA ExecuteIntoEffect ==
    ASSUME NEW r, Good(r), call \in Calls, images \in Seq(Occurrences),
           videos \in Seq(Occurrences), NEW verdict \in Verdicts
    PROVE  Effect(r, ExecuteInto(r, verdict), verdict, r.live)
<1>1. PICK stage \in Stages : stage = "native.destination.execute"
    BY DEF Stages
<1>2. PICK scope \in Scopes : scope = CallScope
    BY ScopesAreKnown
<1>3. PICK began : began = Begin(r, stage, scope)
    OBVIOUS
<1>4. Good(began) /\ began.live = r.live
    BY <1>3, BeginOpens
<1>5. PICK shown \in Seq(Occurrences) : shown = images \o videos
    <2>1. images \o videos \in Seq(Occurrences)
        OBVIOUS
    <2> QED BY <2>1
<1>6. PICK events \in Seq(Events) :
          /\ events = [i \in DOMAIN shown |-> Patchify(shown[i])]
          /\ \A i \in DOMAIN events : events[i].does = "run"
    <2>1. PICK l \in Nat : l = Len(shown)
        <3>1. Len(shown) \in Nat
            OBVIOUS
        <3> QED BY <3>1
    <2>2. DOMAIN shown = 1..l /\ \A i \in 1..l : shown[i] \in Nat
        BY <2>1, CallsAreTyped
    <2> DEFINE g == [i \in 1..l |-> Patchify(shown[i])]
    <2>3. \A i \in 1..l : g[i] \in Events /\ g[i].does = "run"
        BY <2>2, ScopesAreKnown DEF Patchify, Event, Stages, Events
    <2>4. g \in Seq(Events) /\ DOMAIN g = 1..l
        BY <2>3
    <2> QED BY <2>2, <2>3, <2>4
<1>7. Effect(began, InTurn(began, events), OkVerdict, began.live)
    <2>1. PICK does \in {"own", "release", "retain", "run"} : does = "run"
        OBVIOUS
    <2>2. \A i \in DOMAIN events : events[i].does = does
        BY <1>6, <2>1
    <2>3. Amounts(began, InTurn(began, events), does,
                  TotalOf([i \in DOMAIN events |-> events[i].bytes]))
        BY <1>4, <2>2, LoopAmounts
    <2> QED BY <2>1, <2>3 DEF Amounts
<1>8. PICK written : written = IF verdict # OkVerdict THEN began
                               ELSE InTurn(began, events)
    OBVIOUS
<1>9. PICK live : live = r.live
    OBVIOUS
<1>10. Effect(began, written, OkVerdict, live)
    BY <1>4, <1>7, <1>8, <1>9, NoEffect
<1>11. PICK given \in Refusals \cup {OkVerdict} : given = verdict
    BY VerdictsAreKnown
<1>12. Effect(r, Finish(written, NextToken(r), given), given, live)
    BY <1>3, <1>10, WithinASpan
<1>13. ExecuteInto(r, verdict) = Finish(written, NextToken(r), given)
    BY <1>1, <1>2, <1>3, <1>5, <1>6, <1>8, <1>11, Zenon DEF ExecuteInto
<1> QED BY <1>9, <1>11, <1>12, <1>13

(* The outputs of a call are named, and as many as their names.               *)
LEMMA OutputsAreNamed ==
    /\ Len(Outputs) \in Nat /\ DOMAIN Outputs = 1..Len(Outputs)
    /\ \A i \in 1..Len(Outputs) : Outputs[i] \in Names
<1>1. /\ <<"input_ids", "attention_mask", "mm_token_type_ids">> \in Seq(Names)
      /\ <<"pixel_values", "image_grid_thw">> \in Seq(Names)
      /\ <<"pixel_values_videos", "video_grid_thw">> \in Seq(Names)
      /\ <<>> \in Seq(Names)
    BY DEF Names
<1>2. Outputs \in Seq(Names)
    BY <1>1 DEF Outputs
<1> QED BY <1>2

(* The destinations that were allocated are retained; nothing else changes.   *)
LEMMA AllocateOutputsEffect ==
    ASSUME NEW r, Good(r), call \in Calls
    PROVE  /\ Quiet(r, AllocateOutputs(r)) /\ Clean(r, AllocateOutputs(r))
           /\ AllocateOutputs(r).live = r.live
           /\ ~AllocateFails =>
                AllocateOutputs(r).retained
                    = r.retained + Len(Outputs) * Bytes.output
<1>1. PICK n \in Nat, all \in Nat, size \in Nat :
          /\ all = Len(Outputs) /\ size = Bytes.output
          /\ n = IF AllocateFails THEN call.allocated ELSE all
    BY OutputsAreNamed, CallsAreTyped, BytesAreNatural
<1>2. n <= all
    BY <1>1, CallsAreTyped DEF AllocateFails
<1>3. PICK events \in Seq(Events) :
          /\ events = [i \in 1..n |-> Event("retain", Outputs[i], CallScope,
                                           Bytes.output)]
          /\ DOMAIN events = 1..n
          /\ \A i \in 1..n : events[i].does = "retain" /\ events[i].bytes = size
    <2> DEFINE g == [i \in 1..n |-> Event("retain", Outputs[i], CallScope,
                                          Bytes.output)]
    <2>1. \A i \in 1..n : Outputs[i] \in Names
        BY <1>1, <1>2, OutputsAreNamed
    <2>2. \A i \in 1..n : g[i] \in Events
        BY <1>1, <2>1, ScopesAreKnown DEF Event, Events
    <2>3. g \in Seq(Events) /\ DOMAIN g = 1..n
        BY <2>2
    <2>4. \A i \in 1..n : g[i].does = "retain" /\ g[i].bytes = size
        BY <1>1 DEF Event
    <2> QED BY <2>3, <2>4
<1>4. AllocateOutputs(r) = InTurn(r, events)
    BY <1>1, <1>3, Zenon DEF AllocateOutputs
<1>5. PICK does \in {"own", "release", "retain", "run"} : does = "retain"
    OBVIOUS
<1>6. \A i \in DOMAIN events : events[i].does = does
    BY <1>3, <1>5
<1>7. Amounts(r, InTurn(r, events), does,
              TotalOf([i \in DOMAIN events |-> events[i].bytes]))
    BY <1>6, LoopAmounts
<1>8. TotalOf([i \in DOMAIN events |-> events[i].bytes]) = n * size
    <2>1. [i \in DOMAIN events |-> events[i].bytes] = [i \in 1..n |-> size]
        BY <1>3
    <2> QED BY <2>1, TotalOfEqual
<1>9. ~AllocateFails => n * size = Len(Outputs) * Bytes.output
    BY <1>1
<1> QED BY <1>4, <1>5, <1>7, <1>8, <1>9 DEF Amounts

(* The inputs the binding copied.                                             *)
LEMMA CopyInputsEffect ==
    ASSUME NEW r, Good(r), NEW n \in Nat, NEW copies, copies = [k \in 1..n |-> k]
    PROVE  /\ copies \in Seq(Nat)
           /\ Effect(r, InTurn(r, [k \in 1..n |-> OwnedMedia("own", k)]), OkVerdict,
                     r.live + OwnedBytes(copies))
<1>1. copies \in Seq(Nat) /\ DOMAIN copies = 1..n
    OBVIOUS
<1>2. PICK events \in Seq(Events) :
          /\ events = [k \in 1..n |-> OwnedMedia("own", k)]
          /\ DOMAIN events = 1..n
          /\ \A i \in 1..n : events[i].does = "own" /\ events[i].bytes = Bytes.owned
    <2> DEFINE g == [k \in 1..n |-> OwnedMedia("own", k)]
    <2>1. \A i \in 1..n : g[i] \in Events
        BY ScopesAreKnown, BytesAreNatural DEF OwnedMedia, Event, Names, Events
    <2>2. g \in Seq(Events) /\ DOMAIN g = 1..n
        BY <2>1
    <2>3. \A i \in 1..n : g[i].does = "own" /\ g[i].bytes = Bytes.owned
        BY DEF OwnedMedia, Event
    <2> QED BY <2>2, <2>3
<1>3. PICK does \in {"own", "release", "retain", "run"} : does = "own"
    OBVIOUS
<1>4. \A i \in DOMAIN events : events[i].does = does
    BY <1>2, <1>3
<1>5. Amounts(r, InTurn(r, events), does,
              TotalOf([i \in DOMAIN events |-> events[i].bytes]))
    BY <1>4, LoopAmounts
<1>6. TotalOf([i \in DOMAIN events |-> events[i].bytes]) = OwnedBytes(copies)
    <2>1. [i \in DOMAIN events |-> events[i].bytes]
              = [i \in DOMAIN copies |-> Bytes.owned]
        BY <1>1, <1>2
    <2> QED BY <2>1 DEF OwnedBytes
<1> QED BY <1>1, <1>2, <1>3, <1>5, <1>6 DEF Amounts

(* Dropping the copied inputs and sweeping leaves nothing live.               *)
LEMMA DropOwnedMediaEffect ==
    ASSUME NEW r, Good(r), owned \in Seq(Nat)
    PROVE  Effect(r, DropOwnedMedia(r), OkVerdict, 0)
<1>1. PICK events \in Seq(Events) :
          /\ events = [i \in DOMAIN owned |-> OwnedMedia("release", owned[i])]
          /\ \A i \in DOMAIN events : events[i].does = "release"
    <2>1. PICK l \in Nat : l = Len(owned)
        <3>1. Len(owned) \in Nat
            OBVIOUS
        <3> QED BY <3>1
    <2>2. DOMAIN owned = 1..l /\ \A i \in 1..l : owned[i] \in Nat
        BY <2>1
    <2> DEFINE g == [i \in 1..l |-> OwnedMedia("release", owned[i])]
    <2>3. \A i \in 1..l : g[i] \in Events /\ g[i].does = "release"
        BY <2>2, ScopesAreKnown, BytesAreNatural
           DEF OwnedMedia, Event, Names, Events
    <2>4. g \in Seq(Events) /\ DOMAIN g = 1..l
        BY <2>3
    <2> QED BY <2>2, <2>3, <2>4
<1>2. PICK s : s = InTurn(r, events)
    OBVIOUS
<1>3. PICK n : Effect(r, s, OkVerdict, n)
    BY <1>1, <1>2, ReleaseLoop
<1>4. Good(s)
    BY <1>3, EffectsAreGood
<1>5. Effect(s, ReleaseAllTransients(s), OkVerdict, 0)
    BY <1>4, SweepIsRecorded
<1>6. DropOwnedMedia(r) = ReleaseAllTransients(s)
    BY <1>1, <1>2, Zenon DEF DropOwnedMedia
<1> QED BY <1>3, <1>5, <1>6, ThenAnother

(* Containment of a failure leaves nothing live and nothing retained.         *)
LEMMA ContainedEffect ==
    ASSUME NEW r, Good(r)
    PROVE  LET s == ReleaseAllTransients(DiscardRetainedOutputs(r))
           IN  /\ Quiet(r, s) /\ Clean(r, s) /\ s.live = 0
               /\ s.retained = 0 /\ Outputless(s)
<1>1. PICK u : u = DiscardRetainedOutputs(r)
    OBVIOUS
<1>2. Quiet(r, u) /\ Clean(r, u) /\ u.retained = 0 /\ Outputless(u)
    BY <1>1, DiscardIsRecorded
<1>3. PICK s : s = ReleaseAllTransients(u)
    OBVIOUS
<1>4. Effect(u, s, OkVerdict, 0)
    BY <1>2, <1>3, SweepIsRecorded DEF Quiet
<1>5. Quiet(u, s) /\ Clean(u, s) /\ s.live = 0 /\ s.retained = 0 /\ Outputless(s)
    BY <1>2, <1>4 DEF Effect, Ends, SameOutputs
<1>6. Quiet(r, s) /\ Clean(r, s)
    BY <1>2, <1>5, QuietAndClean
<1> QED BY <1>1, <1>3, <1>5, <1>6

-------------------------------------------------------------------------------
(* The stack of open spans                                                    *)

(* The recorder's stack is that of the tokens held, each of which is of a     *)
(* span of the table or of none; the outermost one is the table's first.      *)
StackOf(r, o) ==
    /\ o \in Seq(Tokens)
    /\ r.active = [i \in DOMAIN o |-> o[i].sequence]
    /\ \A i \in DOMAIN o : /\ o[i].index <= Len(r.spans)
                           /\ o[i].index = Place(r.capacity, o[i].sequence)
    /\ o # <<>> => o[1].index = IF r.capacity = 0 THEN 0 ELSE 1

NothingFailed(r) ==
    /\ r.outcome = "Success"
    /\ \A i \in 1..Len(r.spans) : r.spans[i].outcome = "Success"

-------------------------------------------------------------------------------
(* The inductive invariant                                                    *)

Outer == IF call.entry \in {"envelope", "binding"} THEN 1 ELSE 0

Planning ==
    {"validate", "preflight", "traverse", "triage", "salvage", "tokenize",
     "text_limits", "images", "videos", "collect"}

(* How many spans the functions on the stack hold in each stage.              *)
Depth ==
    IF phase \in {"enter", "done"} THEN 0
    ELSE IF phase \in Planning THEN Outer + 1 ELSE Outer

Typed ==
    /\ call \in Calls /\ phase \in Phases /\ cursor \in Nat \ {0}
    /\ errors \in Seq(Errors) /\ owned \in Seq(Nat)
    /\ images \in Seq(Occurrences) /\ videos \in Seq(VideosOf(call))

Books ==
    /\ Good(rec) /\ rec.capacity = call.capacity
    /\ StackOf(rec, open) /\ Len(open) = Depth

(* Which calls reach a stage, and with what.                                  *)
Course ==
    /\ phase \in {"parse", "materialize"} => call.entry = "binding"
    /\ phase = "planned" => call.entry = "plan"
    /\ phase \in {"allocate", "execute"} => call.entry # "plan"
    /\ phase \in {"preflight", "traverse", "triage"} => call.requests # <<>>
    /\ phase = "tokenize" => cursor \in DOMAIN call.requests
    /\ phase \in {"enter", "open_plan"} /\ open = <<>> => rec.spans = <<>>

(* An error of a video that was executed.                                     *)
Late(e) == e.place \in VideosOf(call) /\ Media[e.place].plan = OkVerdict

(* What the list of errors says in each stage; at the collection, the first   *)
(* error is that of the first video that failed.                              *)
Listed ==
    /\ phase \notin {"videos", "collect", "unwind", "done"} =>
         \A e \in ErrorsIn(errors) : ~Late(e)
    /\ phase \notin {"traverse", "triage", "salvage", "images", "videos", "collect",
                     "unwind", "done"} => errors = <<>>
    /\ phase = "salvage" => errors # <<>>
    /\ phase \in {"traverse", "triage"} /\ errors = <<>> =>
         \A k \in Occurrences :
            (phase = "traverse" => k < cursor) => Media[k].plan = OkVerdict
    /\ phase \in {"tokenize", "text_limits", "images", "videos"} =>
         \A k \in Occurrences : Media[k].plan = OkVerdict
    /\ phase \in {"videos", "collect"} =>
         /\ \A e \in ErrorsIn(errors) :
              /\ Late(e) /\ ResizeVerdict(Media[e.place]) # OkVerdict
              /\ errors[1].place <= e.place
              /\ phase = "videos" => e.place < cursor
         /\ Range(videos) = {k \in VideosOf(call) :
                               /\ ResizeVerdict(Media[k]) = OkVerdict
                               /\ phase = "videos" => k < cursor}

(* What is held in each stage is what the recorder has live.                  *)
Held ==
    /\ owned # <<>> =>
         call.entry = "binding" /\ phase \notin {"enter", "parse", "done"}
    /\ phase \notin {"images", "videos", "collect", "planned", "allocate", "execute",
                     "drop"} => images = <<>>
    /\ phase \notin {"videos", "collect", "planned", "allocate", "execute", "drop"} =>
         videos = <<>>
    /\ LiveIsHeld

(* What the caller is told, and what the report says of it.                   *)
Answered ==
    /\ phase = "unwind" => answer \in Refusals
    /\ phase = "done" => answer \in Refusals \cup {OkVerdict}
    /\ phase = "drop" =>
         answer \in IF call.entry = "plan" THEN {OkVerdict, "DestinationTooSmall"}
                    ELSE {Unanswered}
    /\ phase \notin {"unwind", "done", "drop"} => answer = Unanswered
    /\ answer = OkVerdict => errors = <<>>
    /\ IF answer \in Refusals THEN rec.outcome = "Error" /\ rec.category = answer
       ELSE errors = <<>> => NothingFailed(rec)
    /\ Swept /\ answer \in Refusals /\ rec.spans # <<>> =>
         rec.spans[1].category = answer

(* All the outputs of the call.                                               *)
OutputBytes == Len(Outputs) * Bytes.output

(* What is retained in each stage.                                            *)
Kept ==
    IF /\ call.entry # "plan"
       /\ \/ phase \in {"execute", "drop", "materialize"}
          \/ phase = "done" /\ answer = OkVerdict
    THEN rec.retained = OutputBytes
    ELSE rec.retained = 0 /\ Outputless(rec)

IInv == Typed /\ Books /\ Course /\ Listed /\ Held /\ Answered /\ Kept

-------------------------------------------------------------------------------
(* Steps of the stack                                                         *)

(* A quiet change leaves the stack of open spans as it was.                   *)
LEMMA QuietStack ==
    ASSUME NEW r, NEW o, Good(r), StackOf(r, o), NEW s, Quiet(r, s)
    PROVE  StackOf(s, o)
<1>1. PICK p \in Nat, q \in Nat : p = Len(r.spans) /\ q = Len(s.spans)
    BY TablesHaveLengths DEF Quiet
<1>2. q >= p
    BY <1>1 DEF Quiet, Extends
<1>3. ASSUME NEW i \in DOMAIN o PROVE o[i].index <= q
    <2>1. o[i] \in Tokens
        BY DEF StackOf
    <2>2. o[i].index \in Nat
        BY <2>1 DEF Tokens
    <2>3. o[i].index <= p
        BY <1>1 DEF StackOf
    <2> QED BY <1>2, <2>2, <2>3
<1> QED BY <1>1, <1>3 DEF StackOf, Quiet

(* A span that is opened is the innermost one.                                *)
LEMMA OpenedStack ==
    ASSUME NEW r, NEW o, Good(r), StackOf(r, o), o = <<>> => r.spans = <<>>,
           NEW stage \in Stages, NEW scope \in Scopes,
           NEW s, s = Begin(r, stage, scope)
    PROVE  /\ Good(s) /\ StackOf(s, Append(o, NextToken(r)))
           /\ Len(Append(o, NextToken(r))) = Len(o) + 1
           /\ Append(o, NextToken(r)) # <<>>
<1>1. /\ Good(s) /\ s.capacity = r.capacity /\ s.active = Append(r.active, r.nextSpan)
      /\ IF r.capacity > Len(r.spans) THEN Len(s.spans) = Len(r.spans) + 1
         ELSE Len(s.spans) = Len(r.spans)
    BY BeginOpens
<1>2. PICK p \in Nat, q \in Nat, k \in Nat :
          p = Len(r.spans) /\ q = Len(s.spans) /\ k = r.capacity
    BY <1>1, TablesHaveLengths
<1>3. (IF k > p THEN q = p + 1 ELSE q = p) /\ p <= k
    BY <1>1, <1>2 DEF Good, Accounted
<1>4. PICK token \in Tokens :
          /\ token = NextToken(r) /\ token.sequence = r.nextSpan
          /\ token.index = IF p < k THEN p + 1 ELSE 0
          /\ token.index = Place(k, token.sequence)
    BY <1>2, TokensHavePlaces
<1>5. o \in Seq(Tokens) /\ Len(o) \in Nat /\ DOMAIN o = 1..Len(o)
    BY DEF StackOf
<1>6. PICK n \in Nat : n = Len(o)
    BY <1>5
<1>7. PICK w \in Seq(Tokens) : w = Append(o, token)
    <2>1. Append(o, token) \in Seq(Tokens)
        BY <1>5
    <2> QED BY <2>1
<1>8. /\ Len(w) = n + 1 /\ DOMAIN w = 1..(n + 1) /\ w[n + 1] = token
      /\ \A i \in 1..n : w[i] = o[i]
    BY <1>5, <1>6, <1>7
<1>9. s.active = [i \in DOMAIN w |-> w[i].sequence]
    <2>1. r.active = [i \in 1..n |-> o[i].sequence]
        BY <1>5, <1>6 DEF StackOf
    <2>2. PICK a \in Seq(Nat) : a = r.active /\ Len(a) = n
        <3>1. r.active \in Seq(Nat)
            BY DEF Good, IsRecorder
        <3>2. PICK a \in Seq(Nat) : a = r.active
            BY <3>1
        <3>3. DOMAIN a = 1..n /\ DOMAIN a = 1..Len(a) /\ Len(a) \in Nat
            BY <2>1, <3>2
        <3>4. Len(a) = n
            BY <3>3
        <3> QED BY <3>2, <3>4
    <2>3. PICK x \in Nat : x = r.nextSpan
        BY TablesHaveLengths
    <2>4. /\ DOMAIN Append(a, x) = 1..(n + 1) /\ Append(a, x)[n + 1] = x
          /\ \A i \in 1..n : Append(a, x)[i] = a[i]
          /\ Append(a, x) = [i \in 1..(n + 1) |-> Append(a, x)[i]]
        BY <2>2, <2>3
    <2>5. \A i \in 1..(n + 1) : Append(a, x)[i] = w[i].sequence
        <3> TAKE i \in 1..(n + 1)
        <3>1. CASE i = n + 1
            BY <1>4, <1>8, <2>3, <2>4, <3>1
        <3>2. CASE i # n + 1
            <4>1. i \in 1..n
                BY <3>2
            <4> QED BY <1>8, <2>1, <2>2, <2>4, <4>1
        <3> QED BY <3>1, <3>2
    <2>6. [i \in DOMAIN w |-> w[i].sequence] = [i \in 1..(n + 1) |-> Append(a, x)[i]]
        BY <1>8, <2>5
    <2> QED BY <1>1, <2>2, <2>3, <2>4, <2>6
<1>10. ASSUME NEW i \in 1..(n + 1) PROVE w[i].index <= q
    <2>1. CASE i = n + 1
        BY <1>3, <1>4, <1>8, <2>1
    <2>2. CASE i # n + 1
        <3>1. i \in 1..n
            BY <2>2
        <3>2. i \in DOMAIN o /\ o[i] \in Tokens
            BY <1>5, <1>6, <3>1
        <3>3. o[i].index \in Nat
            BY <3>2 DEF Tokens
        <3>4. o[i].index <= p
            BY <1>2, <3>2 DEF StackOf
        <3> QED BY <1>3, <1>8, <3>1, <3>3, <3>4
    <2> QED BY <2>1, <2>2
<1>p. ASSUME NEW i \in 1..(n + 1) PROVE w[i].index = Place(k, w[i].sequence)
    <2>1. CASE i = n + 1
        BY <1>4, <1>8, <2>1
    <2>2. CASE i # n + 1
        <3>1. i \in 1..n
            BY <2>2
        <3>2. i \in DOMAIN o
            BY <1>5, <1>6, <3>1
        <3> QED BY <1>2, <1>8, <3>1, <3>2 DEF StackOf
    <2> QED BY <2>1, <2>2
<1>11. w[1].index = IF k = 0 THEN 0 ELSE 1
    <2>1. CASE n = 0
        <3>1. o = <<>>
            BY <1>5, <1>6, <2>1
        <3>2. p = 0
            BY <1>2, <3>1
        <3> QED BY <1>3, <1>4, <1>8, <2>1, <3>2
    <2>2. CASE n # 0
        <3>1. o # <<>> /\ 1 \in 1..n
            BY <1>5, <1>6, <2>2
        <3> QED BY <1>2, <1>8, <3>1 DEF StackOf
    <2> QED BY <2>1, <2>2
<1>12. w # <<>>
    BY <1>8
<1>13. StackOf(s, w)
    <2>1. w # <<>> => w[1].index = IF s.capacity = 0 THEN 0 ELSE 1
        BY <1>1, <1>2, <1>11
    <2>2. \A i \in DOMAIN w : /\ w[i].index <= Len(s.spans)
                             /\ w[i].index = Place(s.capacity, w[i].sequence)
        BY <1>1, <1>2, <1>8, <1>10, <1>p
    <2> QED BY <1>9, <2>1, <2>2, Zenon DEF StackOf
<1> QED BY <1>1, <1>4, <1>6, <1>7, <1>8, <1>12, <1>13

(* A span that is closed was the innermost one, and names its failure; when   *)
(* it was the only one it is the first of the table.                          *)
LEMMA ClosedStack ==
    ASSUME NEW r, NEW o, Good(r), StackOf(r, o), o # <<>>, NEW s, Quiet(r, s),
           NEW verdict \in Refusals \cup {OkVerdict},
           NEW t, t = Finish(s, Last(o), verdict)
    PROVE  /\ Good(t) /\ t.capacity = r.capacity /\ StackOf(t, Front(o))
           /\ Len(Front(o)) = Len(o) - 1 /\ t.live = s.live /\ SameOutputs(s, t)
           /\ verdict = OkVerdict /\ NothingFailed(s) => NothingFailed(t)
           /\ verdict # OkVerdict => /\ t.outcome = "Error" /\ t.category = verdict
                                     /\ Len(o) = 1 /\ t.spans # <<>> =>
                                          t.spans[1].category = verdict
<1>1. Good(s) /\ StackOf(s, o) /\ s.capacity = r.capacity
    BY QuietStack DEF Quiet
<1>2. o \in Seq(Tokens) /\ DOMAIN o = 1..Len(o) /\ Len(o) \in Nat \ {0}
    BY <1>1 DEF StackOf
<1>3. PICK n \in Nat : n = Len(o) - 1 /\ Len(o) = n + 1
    <2>1. PICK l \in Nat : l = Len(o) /\ l # 0
        BY <1>2
    <2>2. l - 1 \in Nat /\ l = (l - 1) + 1
        BY <2>1
    <2> QED BY <2>1, <2>2
<1>4. PICK q \in Nat, k \in Nat : q = Len(s.spans) /\ k = s.capacity
    BY <1>1, TablesHaveLengths
<1>5. PICK token \in Tokens : token = Last(o) /\ token = o[n + 1]
    BY <1>2, <1>3 DEF Last
<1>6. /\ token.index <= Len(s.spans) /\ token.index \in Nat
      /\ token.index = Place(s.capacity, token.sequence)
    <2>1. n + 1 \in DOMAIN o
        BY <1>2, <1>3
    <2>2. /\ token.index <= Len(s.spans)
          /\ token.index = Place(s.capacity, token.sequence)
        BY <1>1, <1>5, <2>1, Zenon DEF StackOf
    <2> QED BY <2>2 DEF Tokens
<1>7. PICK w \in Seq(Tokens) : /\ w = Front(o) /\ Len(w) = n /\ DOMAIN w = 1..n
                               /\ \A i \in 1..n : w[i] = o[i]
    <2>1. Front(o) = SubSeq(o, 1, n)
        BY <1>2, <1>3 DEF Front
    <2>2. /\ SubSeq(o, 1, n) \in Seq(Tokens) /\ Len(SubSeq(o, 1, n)) = n
          /\ \A i \in 1..n : SubSeq(o, 1, n)[i] = o[i]
        BY <1>2, <1>3
    <2>3. DOMAIN SubSeq(o, 1, n) = 1..n
        BY <2>2
    <2> QED BY <2>1, <2>2, <2>3
<1>8. PICK a \in Seq(Nat) : a = [i \in 1..n |-> o[i].sequence] /\ Len(a) = n
    <2> DEFINE g == [i \in 1..n |-> o[i].sequence]
    <2>1. \A i \in 1..n : o[i].sequence \in Nat
        <3>1. \A i \in 1..n : o[i] \in Tokens
            BY <1>2, <1>3
        <3> QED BY <3>1 DEF Tokens
    <2>2. g \in Seq(Nat) /\ Len(g) = n
        BY <2>1
    <2> QED BY <2>2
<1>9. s.active = Append(a, token.sequence)
    <2>1. s.active = [i \in 1..(n + 1) |-> o[i].sequence]
        BY <1>1, <1>2, <1>3 DEF StackOf
    <2>2. PICK x \in Nat : x = token.sequence
        BY DEF Tokens
    <2>3. /\ DOMAIN Append(a, x) = 1..(n + 1) /\ Append(a, x)[n + 1] = x
          /\ \A i \in 1..n : Append(a, x)[i] = a[i]
          /\ Append(a, x) = [i \in 1..(n + 1) |-> Append(a, x)[i]]
        BY <1>8
    <2>4. \A i \in 1..(n + 1) : Append(a, x)[i] = o[i].sequence
        <3> TAKE i \in 1..(n + 1)
        <3>1. CASE i = n + 1
            BY <1>5, <2>2, <2>3, <3>1
        <3>2. CASE i # n + 1
            <4>1. i \in 1..n
                BY <3>2
            <4> QED BY <1>8, <2>3, <4>1
        <3> QED BY <3>1, <3>2
    <2>5. [i \in 1..(n + 1) |-> Append(a, x)[i]] = [i \in 1..(n + 1) |-> o[i].sequence]
        BY <2>4
    <2> QED BY <2>1, <2>2, <2>3, <2>5
<1>10. Ended(s, t, token, verdict) /\ t.active = a
    <2>1. t = Finish(s, token, verdict)
        BY <1>5
    <2> HIDE <1>2, <1>3, <1>4, <1>5, <1>7, <1>8
    <2> QED BY <1>1, <1>6, <1>9, <2>1, FinishEnds
<1>11. /\ Good(t) /\ t.capacity = k /\ Len(t.spans) = q
       /\ t.live = s.live /\ SameOutputs(s, t)
    BY <1>4, <1>10 DEF Ended
<1>12. StackOf(t, w)
    <2>1. t.active = [i \in DOMAIN w |-> w[i].sequence]
        BY <1>7, <1>8, <1>10
    <2>2. \A i \in DOMAIN w : /\ w[i].index <= Len(t.spans)
                             /\ w[i].index = Place(t.capacity, w[i].sequence)
        <3> TAKE i \in DOMAIN w
        <3>1. i \in DOMAIN o /\ w[i] = o[i]
            BY <1>2, <1>3, <1>7, SMTT(40)
        <3> QED BY <1>1, <1>4, <1>11, <3>1 DEF StackOf
    <2>3. w # <<>> => w[1].index = IF t.capacity = 0 THEN 0 ELSE 1
        <3> HAVE w # <<>>
        <3>1. 1 \in 1..n
            BY <1>7
        <3> QED BY <1>1, <1>4, <1>7, <1>11, <3>1 DEF StackOf
    <2> QED BY <2>1, <2>2, <2>3 DEF StackOf
<1>13. verdict = OkVerdict /\ NothingFailed(s) => NothingFailed(t)
    <2> HAVE verdict = OkVerdict /\ NothingFailed(s)
    <2>1. t.outcome = "Success"
        BY <1>10 DEF Ended, NothingFailed
    <2>2. ASSUME NEW i \in 1..q PROVE t.spans[i].outcome = "Success"
        <3>1. CASE i = token.index
            <4>1. token.index > 0
                BY <1>6, <3>1
            <4> QED BY <1>10, <3>1, <4>1 DEF Ended
        <3>2. CASE i # token.index
            BY <1>4, <1>10, <3>2 DEF Ended, NothingFailed
        <3> QED BY <3>1, <3>2
    <2> QED BY <1>11, <2>1, <2>2 DEF NothingFailed
<1>14. ASSUME verdict # OkVerdict
       PROVE  /\ t.outcome = "Error" /\ t.category = verdict
              /\ Len(o) = 1 /\ t.spans # <<>> => t.spans[1].category = verdict
    <2>1. t.outcome = "Error" /\ t.category = verdict
        BY <1>10, <1>14 DEF Ended
    <2>2. ASSUME Len(o) = 1, t.spans # <<>> PROVE t.spans[1].category = verdict
        <3>1. n = 0 /\ token = o[1]
            <4>1. n + 1 = 1
                BY <1>3, <2>2
            <4>2. n = 0
                BY <4>1
            <4> QED BY <1>5, <4>2
        <3>2. token.index = IF k = 0 THEN 0 ELSE 1
            BY <1>1, <1>4, <3>1 DEF StackOf
        <3>3. q # 0
            <4>1. t.spans \in Seq(Spans)
                BY <1>11 DEF Good, IsRecorder
            <4> QED BY <1>11, <2>2, <4>1
        <3>4. q <= k
            BY <1>1, <1>4 DEF Good, Accounted
        <3>5. token.index = 1 /\ token.index > 0
            BY <3>2, <3>3, <3>4
        <3> QED BY <1>10, <1>14, <3>5 DEF Ended
    <2> QED BY <2>1, <2>2
<1> QED BY <1>1, <1>3, <1>4, <1>7, <1>11, <1>12, <1>13, <1>14

(* A change without a failure leaves a record without one.                    *)
LEMMA StillNothingFailed ==
    ASSUME NEW r, NEW s, Good(r), NothingFailed(r), Quiet(r, s), Clean(r, s)
    PROVE  NothingFailed(s)
<1>1. PICK p \in Nat, q \in Nat : p = Len(r.spans) /\ q = Len(s.spans)
    BY TablesHaveLengths DEF Quiet
<1>2. ASSUME NEW i \in 1..q PROVE s.spans[i].outcome = "Success"
    <2>1. CASE i > p
        BY <1>1, <2>1 DEF Clean
    <2>2. CASE ~(i > p)
        <3>1. i \in 1..p
            BY <2>2
        <3> QED BY <1>1, <3>1 DEF Quiet, Extends, NothingFailed
    <2> QED BY <2>1, <2>2
<1> QED BY <1>1, <1>2 DEF NothingFailed, Clean

-------------------------------------------------------------------------------
(* Steps within the call                                                      *)

(* Before a call unwinds, what is live is what it holds.                      *)
LEMMA LiveNow ==
    ASSUME IInv, phase \notin {"unwind", "done"}
    PROVE  /\ rec.live = OwnedBytes(owned) + ImageBytes(Media, images)
                         + VideoBytes(videos)
           /\ OwnedBytes(owned) \in Nat /\ ImageBytes(Media, images) \in Nat
           /\ VideoBytes(videos) \in Nat
<1>1. UncollectedVideos = {}
    BY DEF UncollectedVideos
<1>2. rec.live = HeldBytes
    BY <1>1 DEF IInv, Held, LiveIsHeld
<1>3. /\ owned \in Seq(Nat) /\ images \in Seq(Occurrences)
      /\ videos \in Seq(VideosOf(call))
    BY DEF IInv, Typed
<1>4. OwnedBytes(owned) \in Nat /\ VideoBytes(videos) \in Nat
    <2>1. Len(owned) \in Nat /\ Len(videos) \in Nat
        BY <1>3
    <2>2. PICK a \in Nat, b \in Nat, c \in Nat, d \in Nat :
              a = Len(owned) /\ b = Len(videos) /\ c = Bytes.owned /\ d = Bytes.video
        BY <2>1, BytesAreNatural
    <2>3. OwnedBytes(owned) = a * c /\ VideoBytes(videos) = b * d
        BY <1>3, <2>2, EqualBytes
    <2>4. a * c \in Nat /\ b * d \in Nat
        OBVIOUS
    <2> QED BY <2>3, <2>4
<1>5. ImageBytes(Media, images) \in Nat
    <2>1. CASE images = <<>>
        BY <2>1, NothingHeld
    <2>2. CASE images # <<>>
        <3>1. PICK k \in Occurrences : k = images[1]
            BY <1>3, <2>2
        <3> QED BY <1>3, ImageBytesOfOneMore
    <2> QED BY <2>1, <2>2
<1> QED BY <1>2, <1>4, <1>5, Zenon DEF HeldBytes, OwnedBytes, ImageBytes, VideoBytes

(* Before the images there is nothing but the copied inputs.                  *)
LEMMA LiveIsOwned ==
    ASSUME IInv,
           phase \notin {"images", "videos", "collect", "planned", "allocate",
                         "execute", "drop", "unwind", "done"}
    PROVE  rec.live = OwnedBytes(owned) /\ rec.live \in Nat
<1>1. /\ rec.live = OwnedBytes(owned) + ImageBytes(Media, images)
                    + VideoBytes(videos)
      /\ OwnedBytes(owned) \in Nat
    BY LiveNow
<1>2. images = <<>> /\ videos = <<>>
    BY DEF IInv, Held
<1> QED BY <1>1, <1>2, NothingHeld

(* Where the recorder and the stack of a call are.                            *)
LEMMA Spaces ==
    ASSUME IInv
    PROVE  /\ Good(rec) /\ StackOf(rec, open) /\ open \in Seq(Tokens)
           /\ Len(open) = Depth /\ Outer \in {0, 1} /\ Len(open) \in Nat
           /\ call \in Calls
BY DEF IInv, Typed, Books, StackOf, Outer

(* The plan fails: its span is closed, what it owned is gone, and the         *)
(* category is the answer.                                                    *)
LEMMA FailPlanKeeps ==
    ASSUME IInv, phase \in Planning, NEW r, Quiet(rec, r), SameOutputs(rec, r),
           NEW category \in Refusals, FailPlan(r, category),
           UNCHANGED <<call, errors, owned>>,
           IF UncollectedVideos' = {} THEN r.live = OwnedBytes(owned)
           ELSE r.live > OwnedBytes(owned)
    PROVE  IInv'
<1>1. /\ phase' = "unwind" /\ cursor' = 1 /\ answer' = category
      /\ images' = <<>> /\ videos' = <<>> /\ call' = call /\ errors' = errors
      /\ owned' = owned
      /\ rec' = Finish(r, Last(open), category) /\ open' = Front(open)
    BY DEF FailPlan, Closed, Goto
<1>2. Outer' = Outer /\ Depth' = Outer /\ Depth = Outer + 1
    BY <1>1 DEF Depth, Planning, Outer
<1>3. Good(rec) /\ StackOf(rec, open) /\ Len(open) = Outer + 1 /\ Outer \in {0, 1}
    BY <1>2, Spaces
<1>4. open # <<>>
    BY <1>3
<1>5. category \in Refusals \cup {OkVerdict} /\ category # OkVerdict
    BY VerdictsAreKnown
<1>6. /\ Good(rec') /\ rec'.capacity = rec.capacity /\ StackOf(rec', open')
      /\ Len(open') = Len(open) - 1 /\ rec'.live = r.live /\ SameOutputs(r, rec')
      /\ rec'.outcome = "Error" /\ rec'.category = category
    <2>1. PICK t : t = Finish(r, Last(open), category)
        OBVIOUS
    <2>2. /\ Good(t) /\ t.capacity = rec.capacity /\ StackOf(t, Front(open))
          /\ Len(Front(open)) = Len(open) - 1 /\ t.live = r.live /\ SameOutputs(r, t)
          /\ t.outcome = "Error" /\ t.category = category
        BY <1>3, <1>4, <1>5, <2>1, ClosedStack
    <2> QED BY <1>1, <2>1, <2>2
<1>7. Typed'
    BY <1>1 DEF IInv, Typed, Phases, Occurrences, Media
<1>8. Books'
    BY <1>1, <1>2, <1>3, <1>6 DEF IInv, Books
<1>9. Course' /\ Listed'
    BY <1>1 DEF Course, Listed
<1>10. Held'
    <2>1. HeldBytes' = OwnedBytes(owned)
        <3>1. HeldBytes' = OwnedBytes(owned') + ImageBytes(Media', images')
                           + VideoBytes(videos')
            BY Zenon DEF HeldBytes, OwnedBytes, ImageBytes, VideoBytes
        <3>2. OwnedBytes(owned) \in Nat
            BY LiveNow DEF Planning
        <3>3. ImageBytes(Media', images') = 0 /\ VideoBytes(videos') = 0
            BY <1>1, NothingHeld
        <3>4. OwnedBytes(owned') = OwnedBytes(owned)
            BY <1>1
        <3> QED BY <3>1, <3>2, <3>3, <3>4
    <2>2. LiveIsHeld'
        BY <1>1, <1>6, <2>1 DEF LiveIsHeld, Swept
    <2>3. owned' # <<>> => call'.entry = "binding"
        BY <1>1 DEF IInv, Held
    <2> QED BY <1>1, <2>2, <2>3 DEF Held
<1>11. Answered'
    BY <1>1, <1>5, <1>6 DEF Answered, Swept
<1>12. Kept'
    BY <1>1, <1>6 DEF IInv, Kept, Planning, SameOutputs
<1> QED BY <1>7, <1>8, <1>9, <1>10, <1>11, <1>12 DEF IInv

(* It fails before a video has been executed.                                 *)
LEMMA EarlyFailure ==
    ASSUME IInv, phase \in Planning \ {"videos", "collect"}, NEW r, Quiet(rec, r),
           SameOutputs(rec, r), r.live = OwnedBytes(owned), NEW category \in Refusals,
           FailPlan(r, category), UNCHANGED <<call, errors, owned>>
    PROVE  IInv'
<1>1. \A e \in ErrorsIn(errors) : ~Late(e)
    BY DEF IInv, Listed, Planning
<1>2. UncollectedVideos' = {}
    BY <1>1 DEF UncollectedVideos, Late, Media
<1> QED BY <1>2, FailPlanKeeps

(* Stages that answer nothing and retain nothing.                             *)
LEMMA AnsweredQuietly ==
    ASSUME IInv, phase \notin {"unwind", "done", "drop"},
           phase' \notin {"unwind", "done", "drop"}, UNCHANGED <<call, answer>>,
           errors' = <<>> => errors = <<>> /\ Quiet(rec, rec') /\ Clean(rec, rec')
    PROVE  Answered'
<1>1. answer = Unanswered /\ answer \notin Refusals /\ answer # OkVerdict
    BY VerdictsAreKnown DEF IInv, Answered
<1>2. errors' = <<>> => NothingFailed(rec')
    <2> HAVE errors' = <<>>
    <2>1. NothingFailed(rec)
        BY <1>1 DEF IInv, Answered
    <2> QED BY <2>1, Spaces, StillNothingFailed
<1>3. answer' = Unanswered /\ answer' \notin Refusals /\ answer' # OkVerdict
    BY <1>1
<1> QED BY <1>2, <1>3, Zenon DEF Answered, Swept

(* Away from the destinations nothing is retained.                            *)
LEMMA KeptQuietly ==
    ASSUME IInv, phase \notin {"execute", "drop", "materialize", "done"},
           phase' \notin {"execute", "drop", "materialize", "done"},
           call' = call, SameOutputs(rec, rec')
    PROVE  Kept'
BY DEF IInv, Kept, SameOutputs

(* A quiet change within one stage keeps the recorder and its stack.          *)
LEMMA BooksQuietly ==
    ASSUME IInv, UNCHANGED <<call, open>>, Quiet(rec, rec'), Depth' = Depth
    PROVE  Books'
<1>1. Good(rec) /\ StackOf(rec, open)
    BY Spaces
<1>2. StackOf(rec', open)
    BY <1>1, QuietStack
<1> QED BY <1>2 DEF IInv, Books, Quiet

(* What a call holds after a step that neither fails it nor ends it.          *)
LEMMA HeldIs ==
    ASSUME IInv, phase' \notin {"unwind", "done"}, call' = call
    PROVE  /\ HeldBytes' = OwnedBytes(owned') + ImageBytes(Media, images')
                           + VideoBytes(videos')
           /\ LiveIsHeld' <=> rec'.live = HeldBytes'
<1>1. UncollectedVideos' = {}
    BY DEF UncollectedVideos
<1>2. Media' = Media
    BY DEF Media
<1>3. HeldBytes' = OwnedBytes(owned') + ImageBytes(Media', images')
                   + VideoBytes(videos')
    BY Zenon DEF HeldBytes, OwnedBytes, ImageBytes, VideoBytes
<1> QED BY <1>1, <1>2, <1>3 DEF LiveIsHeld

(* Nothing new is held.                                                       *)
LEMMA HeldQuietly ==
    ASSUME IInv, phase \notin {"unwind", "done"}, phase' \notin {"unwind", "done"},
           UNCHANGED <<call, owned, images, videos>>, rec'.live = rec.live
    PROVE  LiveIsHeld'
<1>1. /\ HeldBytes' = OwnedBytes(owned') + ImageBytes(Media, images')
                      + VideoBytes(videos')
      /\ LiveIsHeld' <=> rec'.live = HeldBytes'
    BY HeldIs
<1>2. rec.live = OwnedBytes(owned) + ImageBytes(Media, images) + VideoBytes(videos)
    BY LiveNow
<1> QED BY <1>1, <1>2

(* An effect that changes nothing.                                            *)
LEMMA QuietlyTheSame ==
    ASSUME IInv, rec' = rec
    PROVE  /\ Quiet(rec, rec') /\ Clean(rec, rec') /\ SameOutputs(rec, rec')
           /\ rec'.live = rec.live
BY Spaces, NoEffect DEF Effect, Ends

-------------------------------------------------------------------------------
(* Entry                                                                      *)

(* A new recorder is a good one with nothing in it.                           *)
LEMMA NewRecorderIsGood ==
    ASSUME NEW n \in Nat, NEW r, r = NewRecorder(n)
    PROVE  /\ Good(r) /\ r.capacity = n /\ r.spans = <<>> /\ r.active = <<>>
           /\ r.live = 0 /\ r.retained = 0 /\ Outputless(r) /\ NothingFailed(r)
<1>1. /\ DOMAIN r = Fields /\ r.capacity = n /\ r.clock = 0 /\ r.dropped = 0
      /\ r.nextSpan = 0 /\ r.nextBuffer = 0 /\ r.nextCopy = 0 /\ r.live = 0
      /\ r.peak = 0 /\ r.retained = 0 /\ r.spans = <<>> /\ r.active = <<>>
      /\ r.buffers = <<>> /\ r.copies = <<>> /\ r.outcome = "Success"
      /\ r.category = NoCategory
    BY DEF NewRecorder, Fields
<1>2. <<>> \in Seq(Spans) /\ <<>> \in Seq(Nat) /\ <<>> \in Seq(BufferEvents)
      /\ <<>> \in Seq(CopyEvents) /\ 0 \in Nat /\ Len(<<>>) = 0
    OBVIOUS
<1>3. "Success" \in Outcomes /\ NoCategory \in Refusals \cup {NoCategory}
    BY DEF Outcomes
<1>4. IsRecorder(r)
    BY <1>1, <1>2, <1>3, Zenon DEF IsRecorder
<1>5. Accounted(r)
    BY <1>1, <1>2 DEF Accounted
<1>6. Outputless(r) /\ NothingFailed(r)
    BY <1>1, <1>2 DEF Outputless, NothingFailed
<1>7. Nested(r)
    <2>1. 0 = IF 0 < n THEN 0 ELSE n
        OBVIOUS
    <2>2. 1..0 = {}
        OBVIOUS
    <2>3. Numbered(<<>>, 0, 0, n)
        BY <1>2, <2>1, <2>2 DEF Numbered
    <2>4. Stacked(<<>>, <<>>, 0) /\ Within(<<>>, <<>>, 0)
        BY <1>2, <2>2 DEF Stacked, Within
    <2> QED BY <1>1, <2>3, <2>4, Zenon DEF Nested
<1> QED BY <1>1, <1>4, <1>5, <1>6, <1>7 DEF Good

(* A call starts with nothing held, nothing open and nothing recorded.        *)
LEMMA InitEstablishes ==
    ASSUME Init
    PROVE  IInv
<1>1. /\ call \in Calls /\ phase = "enter" /\ cursor = 1 /\ errors = <<>>
      /\ owned = <<>> /\ images = <<>> /\ videos = <<>> /\ open = <<>>
      /\ answer = Unanswered /\ rec = NewRecorder(call.capacity)
    BY DEF Init
<1>2. call.capacity \in Nat
    BY <1>1, CallsAreTyped
<1>3. /\ Good(rec) /\ rec.capacity = call.capacity /\ rec.spans = <<>>
      /\ rec.active = <<>> /\ rec.live = 0 /\ rec.retained = 0 /\ Outputless(rec)
      /\ NothingFailed(rec)
    <2>1. PICK n \in Nat : n = call.capacity
        BY <1>2
    <2> QED BY <1>1, <2>1, NewRecorderIsGood
<1>4. Typed
    BY <1>1 DEF Typed, Phases
<1>5. Books
    <2>1. <<>> \in Seq(Tokens) /\ DOMAIN <<>> = {} /\ Len(<<>>) = 0
        OBVIOUS
    <2>2. <<>> = [i \in DOMAIN <<>> |-> (<<>>)[i].sequence]
        BY <2>1
    <2>3. StackOf(rec, open)
        BY <1>1, <1>3, <2>1, <2>2 DEF StackOf
    <2> QED BY <1>1, <1>3, <2>1, <2>3 DEF Books, Depth
<1>6. Course
    BY <1>1, <1>3 DEF Course
<1>7. Listed
    BY <1>1 DEF Listed, ErrorsIn
<1>8. Held
    <2>1. UncollectedVideos = {}
        BY <1>1 DEF UncollectedVideos
    <2>2. HeldBytes = OwnedBytes(owned) + ImageBytes(Media, images)
                      + VideoBytes(videos)
        BY Zenon DEF HeldBytes, OwnedBytes, ImageBytes, VideoBytes
    <2>3. HeldBytes = 0
        BY <1>1, <2>2, NothingHeld
    <2> QED BY <1>1, <1>3, <2>1, <2>3 DEF Held, LiveIsHeld
<1>9. Answered
    BY <1>1, <1>3, VerdictsAreKnown DEF Answered, Swept
<1>10. Kept
    BY <1>1, <1>3 DEF Kept
<1> QED BY <1>4, <1>5, <1>6, <1>7, <1>8, <1>9, <1>10 DEF IInv

(* A span that a function on the stack opens.                                 *)
LEMMA OpenedKeeps ==
    ASSUME IInv, NEW stage \in Stages, Opened(stage),
           open = <<>> => rec.spans = <<>>
    PROVE  /\ Good(rec') /\ rec'.capacity = rec.capacity /\ StackOf(rec', open')
           /\ Len(open') = Len(open) + 1 /\ open' # <<>>
           /\ rec'.live = rec.live /\ SameOutputs(rec, rec')
           /\ NothingFailed(rec) => NothingFailed(rec')
<1>1. Good(rec) /\ StackOf(rec, open) /\ CallScope \in Scopes
    BY Spaces, ScopesAreKnown
<1>2. rec' = Begin(rec, stage, CallScope) /\ open' = Append(open, NextToken(rec))
    BY DEF Opened
<1>3. PICK s : s = Begin(rec, stage, CallScope)
    OBVIOUS
<1>4. /\ Good(s) /\ StackOf(s, Append(open, NextToken(rec)))
      /\ Len(Append(open, NextToken(rec))) = Len(open) + 1
      /\ Append(open, NextToken(rec)) # <<>>
    BY <1>1, <1>3, OpenedStack
<1>5. /\ s.capacity = rec.capacity /\ Extends(rec, s) /\ Clean(rec, s)
      /\ SameOutputs(rec, s) /\ s.live = rec.live
    BY <1>1, <1>3, BeginOpens
<1>6. NothingFailed(rec) => NothingFailed(s)
    <2> HAVE NothingFailed(rec)
    <2>1. PICK p \in Nat, q \in Nat : p = Len(rec.spans) /\ q = Len(s.spans)
        BY <1>1, <1>4, TablesHaveLengths
    <2>2. ASSUME NEW i \in 1..q PROVE s.spans[i].outcome = "Success"
        <3>1. CASE i > p
            BY <1>5, <2>1, <3>1 DEF Clean
        <3>2. CASE ~(i > p)
            <4>1. i \in 1..p
                BY <3>2
            <4> QED BY <1>5, <2>1, <4>1 DEF Extends, NothingFailed
        <3> QED BY <3>1, <3>2
    <2> QED BY <1>5, <2>1, <2>2 DEF Clean, NothingFailed
<1> QED BY <1>2, <1>3, <1>4, <1>5, <1>6

(* Entering a call and opening its plan differ in their spans only.           *)
LEMMA EntryKeeps ==
    ASSUME IInv, phase \in {"enter", "open_plan"}, NEW stage \in Stages,
           \/ Opened(stage)
           \/ UNCHANGED <<rec, open>>,
           Goto(phase'), phase' \in {"parse", "open_plan", "validate"},
           UNCHANGED <<call, errors, owned, images, videos, answer>>,
           phase' = "parse" => call.entry = "binding",
           phase = "enter" => /\ Opened(stage) <=> Outer = 1
                              /\ phase' # "validate",
           phase = "open_plan" => Opened(stage) /\ phase' = "validate"
    PROVE  IInv'
<1>1. /\ errors = <<>> /\ answer = Unanswered /\ images = <<>> /\ videos = <<>>
      /\ open = <<>> => rec.spans = <<>>
    BY DEF IInv, Listed, Answered, Held, Course
<1>2. cursor' = 1 /\ call' = call /\ errors' = <<>> /\ owned' = owned
      /\ images' = <<>> /\ videos' = <<>> /\ answer' = Unanswered
    BY <1>1 DEF Goto
<1>3. /\ Good(rec') /\ rec'.capacity = rec.capacity /\ StackOf(rec', open')
      /\ rec'.live = rec.live /\ SameOutputs(rec, rec')
      /\ NothingFailed(rec) => NothingFailed(rec')
      /\ open' = <<>> => rec'.spans = <<>>
    <2>1. CASE Opened(stage)
        BY <1>1, <2>1, OpenedKeeps
    <2>2. CASE UNCHANGED <<rec, open>>
        BY <1>1, <2>2, Spaces DEF SameOutputs
    <2> QED BY <2>1, <2>2
<1>4. Len(open') = Depth'
    <2>1. Outer' = Outer /\ Outer \in {0, 1} /\ Len(open) = Depth
        BY <1>2, Spaces DEF Outer
    <2>2. CASE phase = "enter"
        <3>1. Depth = 0 /\ Depth' = Outer
            BY <2>1, <2>2 DEF Depth, Planning
        <3>2. CASE Opened(stage)
            BY <1>1, <2>1, <2>2, <3>1, <3>2, OpenedKeeps
        <3>3. CASE UNCHANGED <<rec, open>> /\ ~Opened(stage)
            BY <2>1, <2>2, <3>1, <3>3
        <3> QED BY <3>2, <3>3
    <2>3. CASE phase = "open_plan"
        <3>1. Depth = Outer /\ Depth' = Outer + 1
            BY <2>1, <2>3 DEF Depth, Planning
        <3> QED BY <1>1, <2>1, <2>3, <3>1, OpenedKeeps
    <2> QED BY <2>2, <2>3
<1>5. Typed'
    BY <1>2 DEF IInv, Typed, Phases, Occurrences, Media
<1>6. Books'
    BY <1>2, <1>3, <1>4 DEF IInv, Books
<1>7. Course'
    BY <1>2, <1>3 DEF Course
<1>8. Listed'
    BY <1>2 DEF Listed, ErrorsIn
<1>9. Held'
    <2>1. LiveIsHeld'
        BY <1>1, <1>2, <1>3, HeldQuietly
    <2>2. owned' # <<>> => call'.entry = "binding" /\ phase' \notin {"enter", "parse"}
        <3> HAVE owned' # <<>>
        <3>1. call.entry = "binding" /\ phase = "open_plan"
            BY <1>2 DEF IInv, Held
        <3> QED BY <1>2, <3>1
    <2> QED BY <1>2, <2>1, <2>2 DEF Held
<1>10. Answered'
    <2>1. NothingFailed(rec)
        BY <1>1, VerdictsAreKnown DEF IInv, Answered
    <2> QED BY <1>2, <1>3, <2>1, VerdictsAreKnown DEF Answered, Swept
<1>11. Kept'
    BY <1>2, <1>3, KeptQuietly
<1> QED BY <1>5, <1>6, <1>7, <1>8, <1>9, <1>10, <1>11 DEF IInv

(* Entering a call opens the span of its entry, if it has one.                *)
LEMMA EnterCallKeeps ==
    ASSUME IInv, EnterCall
    PROVE  IInv'
<1>1. /\ phase = "enter"
      /\ UNCHANGED <<call, errors, owned, images, videos, answer>>
      /\ call.entry \in {"plan", "observer", "envelope", "binding"}
    BY Spaces, CallsAreTyped DEF EnterCall
<1>2. CASE call.entry = "envelope"
    <2>1. PICK stage \in Stages : stage = "native.batch.prepare"
        BY DEF Stages
    <2>2. Opened(stage) /\ Goto("open_plan") /\ Outer = 1
        BY <1>2, <2>1 DEF EnterCall, Outer
    <2>3. phase' = "open_plan" /\ Goto(phase')
        BY <2>2 DEF Goto
    <2> QED BY <1>1, <2>2, <2>3, EntryKeeps
<1>3. CASE call.entry = "binding"
    <2>1. PICK stage \in Stages : stage = "binding.prepare_batch"
        BY DEF Stages
    <2>2. Opened(stage) /\ Goto("parse") /\ Outer = 1
        BY <1>3, <2>1 DEF EnterCall, Outer
    <2>3. phase' = "parse" /\ Goto(phase')
        BY <2>2 DEF Goto
    <2> QED BY <1>1, <1>3, <2>2, <2>3, EntryKeeps
<1>4. CASE call.entry \in {"plan", "observer"}
    <2>1. PICK stage \in Stages : stage = "binding.prepare_batch"
        BY DEF Stages
    <2>2. UNCHANGED <<rec, open>> /\ Goto("open_plan") /\ Outer = 0
        BY <1>4 DEF EnterCall, Outer
    <2>3. phase' = "open_plan" /\ Goto(phase')
        BY <2>2 DEF Goto
    <2>4. ~Opened(stage)
        <3> SUFFICES ASSUME Opened(stage) PROVE FALSE
            OBVIOUS
        <3>1. open \in Seq(Tokens) /\ Len(open) = 0
            BY <1>1, Spaces DEF Depth
        <3>2. open = <<>> => rec.spans = <<>>
            BY <1>1 DEF IInv, Course
        <3>3. open' # open
            BY <3>1, <3>2, OpenedKeeps
        <3> QED BY <2>2, <3>3
    <2> QED BY <1>1, <2>2, <2>3, <2>4, EntryKeeps
<1> QED BY <1>1, <1>2, <1>3, <1>4

(* The planning stages run within a span of their own.                        *)
LEMMA OpenPlanKeeps ==
    ASSUME IInv, OpenPlan
    PROVE  IInv'
<1>1. PICK stage \in Stages : stage = "native.batch.plan"
    BY DEF Stages
<1>2. /\ phase = "open_plan" /\ Opened(stage) /\ Goto("validate")
      /\ UNCHANGED <<call, errors, owned, images, videos, answer>>
    BY <1>1 DEF OpenPlan
<1>3. phase' = "validate" /\ Goto(phase')
    BY <1>2 DEF Goto
<1> QED BY <1>2, <1>3, EntryKeeps


(* A span that a function on the stack closes.                                *)
LEMMA ClosedIs ==
    ASSUME Good(rec), StackOf(rec, open), open # <<>>, NEW r, Quiet(rec, r),
           NEW verdict \in Refusals \cup {OkVerdict}, Closed(r, verdict)
    PROVE  /\ Good(rec') /\ rec'.capacity = rec.capacity /\ StackOf(rec', open')
           /\ Len(open') = Len(open) - 1 /\ rec'.live = r.live /\ SameOutputs(r, rec')
           /\ verdict = OkVerdict /\ NothingFailed(r) => NothingFailed(rec')
           /\ verdict # OkVerdict =>
                 /\ rec'.outcome = "Error" /\ rec'.category = verdict
                 /\ Len(open) = 1 /\ rec'.spans # <<>> =>
                      rec'.spans[1].category = verdict
<1>1. PICK t : t = Finish(r, Last(open), verdict)
    OBVIOUS
<1>2. rec' = t /\ open' = Front(open)
    BY <1>1 DEF Closed
<1>3. /\ Good(t) /\ t.capacity = rec.capacity /\ StackOf(t, Front(open))
      /\ Len(Front(open)) = Len(open) - 1 /\ t.live = r.live /\ SameOutputs(r, t)
      /\ verdict = OkVerdict /\ NothingFailed(r) => NothingFailed(t)
      /\ verdict # OkVerdict =>
            /\ t.outcome = "Error" /\ t.category = verdict
            /\ Len(open) = 1 /\ t.spans # <<>> => t.spans[1].category = verdict
    BY <1>1, ClosedStack
<1> QED BY <1>2, <1>3

(* An outer entry returns: it closes its span over an account that is empty   *)
(* but for the outputs it returns.                                            *)
LEMMA ReturnKeeps ==
    ASSUME IInv, Outer = 1, phase \in {"parse", "unwind", "materialize", "drop"},
           NEW r, Quiet(rec, r), NEW verdict \in Refusals \cup {OkVerdict},
           Closed(r, verdict), Goto("done"), answer' = verdict,
           UNCHANGED <<call, errors>>, owned' = <<>>, images' = <<>>, videos' = <<>>,
           r.live = 0,
           IF verdict = OkVerdict
           THEN /\ errors = <<>> /\ NothingFailed(r)
                /\ r.retained = OutputBytes
           ELSE r.retained = 0 /\ Outputless(r)
    PROVE  IInv'
<1>1. phase' = "done" /\ cursor' = 1 /\ call' = call /\ errors' = errors
    BY DEF Goto
<1>2. Depth = 1 /\ Depth' = 0 /\ Outer' = 1
    BY <1>1 DEF Depth, Planning, Outer
<1>3. Good(rec) /\ StackOf(rec, open) /\ Len(open) = 1 /\ open # <<>>
    <2>1. Good(rec) /\ StackOf(rec, open) /\ Len(open) = Depth
        BY Spaces
    <2>2. Len(open) = 1
        BY <1>2, <2>1
    <2>3. Len(<<>>) = 0
        OBVIOUS
    <2>4. open # <<>>
        BY <2>2, <2>3
    <2> QED BY <2>1, <2>2, <2>4
<1>4. /\ Good(rec') /\ rec'.capacity = rec.capacity /\ StackOf(rec', open')
      /\ Len(open') = 0 /\ rec'.live = 0 /\ SameOutputs(r, rec')
      /\ verdict = OkVerdict => NothingFailed(rec')
      /\ verdict # OkVerdict =>
            /\ rec'.outcome = "Error" /\ rec'.category = verdict
            /\ rec'.spans # <<>> => rec'.spans[1].category = verdict
    <2>1. /\ Good(rec') /\ rec'.capacity = rec.capacity /\ StackOf(rec', open')
          /\ Len(open') = Len(open) - 1 /\ rec'.live = r.live /\ SameOutputs(r, rec')
          /\ verdict = OkVerdict /\ NothingFailed(r) => NothingFailed(rec')
          /\ verdict # OkVerdict =>
                /\ rec'.outcome = "Error" /\ rec'.category = verdict
                /\ Len(open) = 1 /\ rec'.spans # <<>> =>
                     rec'.spans[1].category = verdict
        BY <1>3, ClosedIs
    <2>2. Len(open') = 0
        BY <1>3, <2>1
    <2> QED BY <1>3, <2>1, <2>2
<1>5. Typed'
    BY <1>1 DEF IInv, Typed, Phases, Occurrences, Media
<1>6. Books'
    BY <1>1, <1>2, <1>4 DEF IInv, Books
<1>7. Course' /\ Listed'
    BY <1>1 DEF Course, Listed
<1>8. Held'
    <2>1. HeldBytes' = OwnedBytes(owned') + ImageBytes(Media', images')
                       + VideoBytes(videos')
        BY Zenon DEF HeldBytes, OwnedBytes, ImageBytes, VideoBytes
    <2>2. HeldBytes' = 0
        BY <2>1, NothingHeld
    <2>3. Swept'
        BY <1>1, <1>2 DEF Swept, Outer
    <2> QED BY <1>4, <2>2, <2>3 DEF Held, LiveIsHeld
<1>9. Answered'
    BY <1>1, <1>4, VerdictsAreKnown DEF Answered
<1>10. Kept'
    <2>1. call.entry # "plan"
        BY DEF Outer
    <2>2. OutputBytes' = OutputBytes
        BY <1>1 DEF OutputBytes, Outputs
    <2>3. CASE verdict = OkVerdict
        BY <1>1, <1>4, <2>1, <2>2, <2>3 DEF Kept, SameOutputs
    <2>4. CASE verdict # OkVerdict
        BY <1>1, <1>4, <2>4 DEF Kept, SameOutputs
    <2> QED BY <2>3, <2>4
<1> QED BY <1>5, <1>6, <1>7, <1>8, <1>9, <1>10 DEF IInv

(* Parsing ends with every input copied and owned, or with the call refused   *)
(* and nothing live.                                                          *)
LEMMA ParseRequestsKeeps ==
    ASSUME IInv, ParseRequests
    PROVE  IInv'
<1>1. /\ phase = "parse" /\ call.entry = "binding" /\ Outer = 1
      /\ errors = <<>> /\ owned = <<>> /\ images = <<>> /\ videos = <<>>
      /\ call \in Calls /\ Good(rec)
    BY Spaces DEF ParseRequests, IInv, Course, Listed, Held, Outer
<1>2. PICK stage \in Stages : stage = "binding.parse_requests"
    BY DEF Stages
<1>3. PICK scope \in Scopes : scope = CallScope
    BY ScopesAreKnown
<1>4. PICK n \in Nat : n = call.parsed
    BY <1>1, CallsAreTyped
<1>5. PICK began : began = Begin(rec, stage, scope)
    OBVIOUS
<1>6. Good(began) /\ began.live = rec.live
    BY <1>1, <1>5, BeginOpens
<1>7. PICK copies : copies = [k \in 1..n |-> k]
    OBVIOUS
<1>8. PICK copied : copied = InTurn(began, [k \in 1..n |-> OwnedMedia("own", k)])
    OBVIOUS
<1>9. rec.live = 0
    BY <1>1, LiveIsOwned, NothingHeld
<1>10. PICK live : live = OwnedBytes(copies)
    OBVIOUS
<1>11. copies \in Seq(Nat) /\ Effect(began, copied, OkVerdict, live)
    <2>1. copies \in Seq(Nat)
          /\ Effect(began, copied, OkVerdict, began.live + OwnedBytes(copies))
        BY <1>6, <1>7, <1>8, CopyInputsEffect
    <2>2. OwnedBytes(copies) \in Nat
        <3>1. PICK a \in Nat, b \in Nat : a = Len(copies) /\ b = Bytes.owned
            BY <2>1, BytesAreNatural
        <3>2. OwnedBytes(copies) = a * b /\ a * b \in Nat
            BY <2>1, <3>1, EqualBytes
        <3> QED BY <3>2
    <2> QED BY <1>6, <1>9, <1>10, <2>1, <2>2
<1>12. PICK verdict \in Refusals \cup {OkVerdict} : verdict = call.parse
    BY <1>1, CallsAreTyped, VerdictsAreKnown
<1>13. PICK s : s = Finish(copied, NextToken(rec), verdict)
    OBVIOUS
<1>14. Effect(rec, s, verdict, live)
    BY <1>1, <1>5, <1>11, <1>13, WithinASpan
<1>15. CASE verdict = OkVerdict
    <2>1. /\ rec' = s /\ owned' = copies /\ phase' = "open_plan" /\ cursor' = 1
          /\ UNCHANGED <<call, errors, images, videos, open, answer>>
        BY <1>2, <1>3, <1>4, <1>5, <1>7, <1>8, <1>12, <1>13, <1>15
           DEF ParseRequests, Goto
    <2>2. Quiet(rec, rec') /\ Clean(rec, rec') /\ SameOutputs(rec, rec')
          /\ rec'.live = live
        BY <1>14, <1>15, <2>1 DEF Effect, Ends
    <2>3. Typed'
        BY <1>11, <2>1 DEF IInv, Typed, Phases, Occurrences, Media
    <2>4. Books'
        <3>1. Depth' = Depth
            BY <1>1, <2>1 DEF Depth, Outer, Planning
        <3> QED BY <2>1, <2>2, <3>1, BooksQuietly
    <2>5. Course'
        <3>1. open # <<>>
            <4>1. Len(open) = Depth /\ Depth = Outer
                BY <1>1, Spaces DEF Depth, Planning
            <4> QED BY <1>1, <4>1, SMTT(40)
        <3> QED BY <1>1, <2>1, <3>1 DEF Course
    <2>6. Listed'
        BY <1>1, <2>1 DEF Listed, ErrorsIn
    <2>7. Held'
        <3>1. /\ HeldBytes' = OwnedBytes(owned') + ImageBytes(Media, images')
                              + VideoBytes(videos')
              /\ LiveIsHeld' <=> rec'.live = HeldBytes'
            BY <2>1, HeldIs
        <3>2. ImageBytes(Media, images') = 0 /\ VideoBytes(videos') = 0
            BY <1>1, <2>1, NothingHeld
        <3>3. OwnedBytes(owned') = live /\ live \in Nat
            BY <1>6, <1>10, <1>11, <2>1, EffectsAreGood
        <3>4. LiveIsHeld'
            BY <2>2, <3>1, <3>2, <3>3
        <3> QED BY <1>1, <2>1, <3>4 DEF Held
    <2>8. Answered'
        BY <1>1, <2>1, <2>2, AnsweredQuietly
    <2>9. Kept'
        BY <1>1, <2>1, <2>2, KeptQuietly
    <2> QED BY <2>3, <2>4, <2>5, <2>6, <2>7, <2>8, <2>9 DEF IInv
<1>16. CASE verdict # OkVerdict
    <2>1. PICK r : r = ReleaseAllTransients(DiscardRetainedOutputs(s))
        OBVIOUS
    <2>2. /\ Closed(r, verdict) /\ answer' = verdict /\ Goto("done")
          /\ UNCHANGED <<call, errors, owned, images, videos>>
        BY <1>2, <1>3, <1>4, <1>5, <1>8, <1>12, <1>13, <1>16, <2>1
           DEF ParseRequests
    <2>3. Good(s) /\ Quiet(rec, s)
        BY <1>14 DEF Effect, Quiet
    <2>4. Quiet(s, r) /\ Clean(s, r) /\ r.live = 0 /\ r.retained = 0 /\ Outputless(r)
        BY <2>1, <2>3, ContainedEffect
    <2>5. Quiet(rec, r)
        <3>1. PICK p \in Nat, q \in Nat, t \in Nat :
                  p = Len(rec.spans) /\ q = Len(s.spans) /\ t = Len(r.spans)
            BY <1>1, <2>3, <2>4, TablesHaveLengths DEF Quiet
        <3> QED BY <2>3, <2>4, <3>1 DEF Quiet, Extends
    <2> QED BY <1>1, <1>16, <2>2, <2>4, <2>5, ReturnKeeps
<1> QED BY <1>15, <1>16

-------------------------------------------------------------------------------
(* Planning                                                                   *)

(* A step of the planning that neither fails the plan nor ends it.            *)
LEMMA PlanningKeeps ==
    ASSUME IInv, phase \in Planning, phase' \in Planning, cursor' \in Nat \ {0},
           UNCHANGED <<call, owned, open, answer>>, Quiet(rec, rec'),
           SameOutputs(rec, rec'), errors' \in Seq(Errors),
           images' \in Seq(Occurrences), videos' \in Seq(VideosOf(call)),
           errors' = <<>> => errors = <<>> /\ Clean(rec, rec'),
           phase' \notin {"images", "videos", "collect"} => images' = <<>>,
           phase' \notin {"videos", "collect"} => videos' = <<>>,
           LiveIsHeld', Course', Listed'
    PROVE  IInv'
<1>1. Typed'
    BY DEF IInv, Typed, Phases, Planning, Occurrences, Media
<1>2. Books'
    <2>1. Depth' = Depth
        BY DEF Depth, Outer, Planning
    <2> QED BY <2>1, BooksQuietly
<1>3. Held'
    <2>1. owned' # <<>> => call'.entry = "binding" /\ phase' \notin {"enter", "parse", "done"}
        BY DEF IInv, Held, Planning
    <2> QED BY <2>1 DEF Held, Planning
<1>4. Answered'
    BY AnsweredQuietly DEF Planning
<1>5. Kept'
    BY KeptQuietly DEF Planning
<1> QED BY <1>1, <1>2, <1>3, <1>4, <1>5 DEF IInv

(* One that leaves the media and their errors alone.                          *)
LEMMA TextKeeps ==
    ASSUME IInv, phase \in Planning, phase' \in Planning, cursor' \in Nat \ {0},
           UNCHANGED <<call, errors, owned, images, videos, open, answer>>,
           Effect(rec, rec', OkVerdict, rec.live),
           phase' \notin {"images", "videos", "collect"} => images = <<>>,
           phase' \notin {"videos", "collect"} => videos = <<>>,
           Course', Listed'
    PROVE  IInv'
<1>1. /\ Quiet(rec, rec') /\ Clean(rec, rec') /\ SameOutputs(rec, rec')
      /\ rec'.live = rec.live
    BY DEF Effect, Ends
<1>2. /\ errors' \in Seq(Errors) /\ images' \in Seq(Occurrences)
      /\ videos' \in Seq(VideosOf(call))
    BY DEF IInv, Typed
<1>3. LiveIsHeld'
    BY <1>1, HeldQuietly DEF Planning
<1> QED BY <1>1, <1>2, <1>3, PlanningKeeps

(* An empty batch is refused.                                                 *)
LEMMA RejectEmptyBatchKeeps ==
    ASSUME IInv, RejectEmptyBatch
    PROVE  IInv'
<1>1. PICK category \in Refusals : category = "InvalidRequest"
    BY DEF Refusals, Categories
<1>2. /\ phase = "validate" /\ FailPlan(rec, category)
      /\ UNCHANGED <<call, errors, owned>>
    BY <1>1 DEF RejectEmptyBatch
<1>3. rec.live = OwnedBytes(owned)
    BY <1>2, LiveIsOwned
<1>4. Quiet(rec, rec) /\ SameOutputs(rec, rec)
    BY Spaces, NoEffect DEF Effect
<1> QED BY <1>2, <1>3, <1>4, EarlyFailure DEF Planning

(* A request is validated and rendered, or its refusal ends the plan.         *)
LEMMA ValidateAndRenderKeeps ==
    ASSUME IInv, ValidateAndRender
    PROVE  IInv'
<1>1. /\ phase = "validate" /\ cursor \in DOMAIN call.requests
      /\ UNCHANGED <<call, errors, owned>>
    BY DEF ValidateAndRender
<1>2. /\ call \in Calls /\ Good(rec) /\ call.requests \in Seq(Turns)
      /\ cursor \in Nat \ {0} /\ errors = <<>>
    BY <1>1, Spaces, CallsAreTyped DEF IInv, Typed, Listed
<1>3. PICK request \in Turns : request = call.requests[cursor]
    BY <1>1, <1>2
<1>4. PICK a \in Refusals \cup {OkVerdict}, b \in Refusals \cup {OkVerdict} :
          a = request.structure /\ b = request.render
    BY VerdictsAreKnown DEF Turns
<1>5. PICK scope \in Scopes : scope = RequestScope(cursor)
    BY <1>2, ScopesAreKnown
<1>6. PICK first \in Stages : first = "native.request.validate"
    BY DEF Stages
<1>7. PICK second \in Stages : second = "native.chat.render"
    BY DEF Stages
<1>8. PICK validated : validated = Spanned(rec, first, scope, a)
    OBVIOUS
<1>9. PICK rendered : rendered = Spanned(validated, second, scope, b)
    OBVIOUS
<1>10. PICK live \in Nat : live = rec.live
    BY <1>2, TablesHaveLengths
<1>11. Effect(rec, validated, a, live)
    BY <1>2, <1>8, <1>10, SpannedHasItsVerdict
<1>12. Good(validated) /\ validated.live = live
    BY <1>2, <1>11, EffectsAreGood
<1>13. Effect(validated, rendered, b, live)
    BY <1>9, <1>12, SpannedHasItsVerdict
<1>14. a = OkVerdict => Effect(rec, rendered, b, live)
    BY <1>2, <1>11, <1>13, ThenAnother
<1>15. live = OwnedBytes(owned)
    BY <1>1, <1>10, LiveIsOwned
<1>16. CASE a # OkVerdict
    <2>1. FailPlan(validated, a) /\ a \in Refusals
        BY <1>3, <1>4, <1>5, <1>6, <1>8, <1>16 DEF ValidateAndRender
    <2>2. Quiet(rec, validated) /\ SameOutputs(rec, validated)
          /\ validated.live = OwnedBytes(owned)
        BY <1>11, <1>15 DEF Effect
    <2> QED BY <1>1, <2>1, <2>2, EarlyFailure DEF Planning
<1>17. CASE a = OkVerdict /\ b # OkVerdict
    <2>1. FailPlan(rendered, b) /\ b \in Refusals
        BY <1>3, <1>4, <1>5, <1>6, <1>7, <1>8, <1>9, <1>17 DEF ValidateAndRender
    <2>2. Quiet(rec, rendered) /\ SameOutputs(rec, rendered)
          /\ rendered.live = OwnedBytes(owned)
        BY <1>14, <1>15, <1>17 DEF Effect
    <2> QED BY <1>1, <2>1, <2>2, EarlyFailure DEF Planning
<1>18. CASE a = OkVerdict /\ b = OkVerdict
    <2>1. /\ rec' = rendered
          /\ IF cursor < Len(call.requests) THEN Stay ELSE Goto("preflight")
          /\ UNCHANGED <<images, videos, open, answer>>
        BY <1>3, <1>4, <1>5, <1>6, <1>7, <1>8, <1>9, <1>18 DEF ValidateAndRender
    <2>2. phase' \in {"validate", "preflight"} /\ cursor' \in Nat \ {0}
        BY <1>1, <1>2, <2>1 DEF Stay, Goto
    <2>3. Effect(rec, rec', OkVerdict, rec.live)
        BY <1>10, <1>14, <1>18, <2>1
    <2>4. call.requests # <<>>
        BY <1>1, <1>2
    <2>5. Course' /\ Listed'
        BY <1>1, <1>2, <2>2, <2>4 DEF Course, Listed, ErrorsIn
    <2>6. images = <<>> /\ videos = <<>>
        BY <1>1 DEF IInv, Held
    <2> QED BY <1>1, <2>1, <2>2, <2>3, <2>5, <2>6, TextKeeps DEF Planning
<1> QED BY <1>16, <1>17, <1>18

(* The preflight of the media passes or ends the plan.                        *)
LEMMA PreflightKeeps ==
    ASSUME IInv, Preflight
    PROVE  IInv'
<1>1. phase = "preflight" /\ UNCHANGED <<call, errors, owned>> /\ call \in Calls
    BY Spaces DEF Preflight
<1>2. CASE call.preflight # OkVerdict
    <2>1. PICK category \in Refusals : category = call.preflight
        BY <1>1, <1>2, CallsAreTyped, VerdictsAreKnown
    <2>2. FailPlan(rec, category)
        BY <1>2, <2>1 DEF Preflight
    <2>3. rec.live = OwnedBytes(owned)
        BY <1>1, LiveIsOwned
    <2>4. Quiet(rec, rec) /\ SameOutputs(rec, rec)
        BY Spaces, NoEffect DEF Effect
    <2> QED BY <1>1, <2>2, <2>3, <2>4, EarlyFailure DEF Planning
<1>3. CASE call.preflight = OkVerdict
    <2>1. phase' = "traverse" /\ cursor' = 1 /\ UNCHANGED <<rec, open, images, videos, answer>>
        BY <1>3 DEF Preflight, Goto
    <2>2. Effect(rec, rec', OkVerdict, rec.live)
        BY <2>1, Spaces, NoEffect
    <2>3. images = <<>> /\ videos = <<>> /\ errors = <<>> /\ call.requests # <<>>
        BY <1>1 DEF IInv, Held, Listed, Course
    <2>4. Occurrences' = 1..Len(call.media)
        BY <1>1, CallsAreTyped DEF Occurrences, Media
    <2>5. Course' /\ Listed'
        <3>1. \A k \in Occurrences' : ~(k < 1)
            BY <2>4
        <3> QED BY <1>1, <2>1, <2>3, <3>1 DEF Course, Listed, ErrorsIn
    <2> QED BY <1>1, <2>1, <2>2, <2>3, <2>5, TextKeeps DEF Planning
<1> QED BY <1>2, <1>3

(* A verdict that is a failure makes an error of its place.                   *)
LEMMA FailuresAreErrors ==
    ASSUME NEW v \in Verdicts, v # OkVerdict, NEW k \in Nat
    PROVE  Error(v, k) \in Errors /\ Error(v, k).place = k /\ v \in Categories
BY DEF Verdicts, Errors, Error

(* The errors of a list to which one more has been appended, or none.         *)
LEMMA ErrorsAfter ==
    ASSUME NEW list \in Seq(Errors), NEW e \in Errors
    PROVE  /\ Append(list, e) \in Seq(Errors) /\ Append(list, e) # <<>>
           /\ \A f \in ErrorsIn(Append(list, e)) : f \in ErrorsIn(list) \/ f = e
           /\ Append(list, e)[1] = IF list = <<>> THEN e ELSE list[1]
<1>1. ErrorsIn(Append(list, e)) = ErrorsIn(list) \cup {e}
    BY OneMoreListed
<1>2. Append(list, e) \in Seq(Errors) /\ Append(list, e) # <<>>
    BY SMTT(40)
<1>3. Append(list, e)[1] = IF list = <<>> THEN e ELSE list[1]
    <2>1. CASE list = <<>>
        BY <2>1
    <2>2. CASE list # <<>>
        <3>1. 1 \in 1..Len(list)
            BY <2>2
        <3> QED BY <2>2, <3>1
    <2> QED BY <2>1, <2>2
<1> QED BY <1>1, <1>2, <1>3

(* A medium is planned, or its failure is collected.                          *)
LEMMA PlanOccurrenceKeeps ==
    ASSUME IInv, PlanOccurrence
    PROVE  IInv'
<1>1. /\ phase = "traverse" /\ cursor \in Occurrences /\ phase' = "traverse"
      /\ cursor' = cursor + 1
      /\ UNCHANGED <<call, owned, images, videos, open, answer>>
    BY DEF PlanOccurrence, Stay
<1>2. /\ call \in Calls /\ Good(rec) /\ cursor \in Nat \ {0} /\ errors \in Seq(Errors)
      /\ images = <<>> /\ videos = <<>> /\ call.requests # <<>>
      /\ images \in Seq(Occurrences) /\ videos \in Seq(VideosOf(call))
    BY <1>1, Spaces DEF IInv, Typed, Held, Course
<1>3. PICK m \in AllMedia : m = Media[cursor]
    BY <1>1, <1>2, CallsAreTyped
<1>4. PICK v \in Verdicts : v = m.plan
    BY MediaVerdicts
<1>5. errors' = IF v = OkVerdict THEN errors ELSE Append(errors, Error(v, cursor))
    BY <1>3, <1>4 DEF PlanOccurrence
<1>6. v # OkVerdict => Error(v, cursor) \in Errors /\ Error(v, cursor).place = cursor
    BY <1>2, FailuresAreErrors
<1>7. /\ errors' \in Seq(Errors)
      /\ errors' = <<>> => errors = <<>> /\ v = OkVerdict
      /\ \A e \in ErrorsIn(errors') :
            e \in ErrorsIn(errors) \/ (v # OkVerdict /\ e.place = cursor)
    <2>1. CASE v = OkVerdict
        BY <1>2, <1>5, <2>1
    <2>2. CASE v # OkVerdict
        <3>1. PICK e \in Errors : e = Error(v, cursor) /\ e.place = cursor
            BY <1>6, <2>2
        <3> QED BY <1>2, <1>5, <2>2, <3>1, ErrorsAfter
    <2> QED BY <2>1, <2>2
<1>8. PICK counted : counted = CountVisualCall(rec)
    OBVIOUS
<1>9. PICK live \in Nat : live = rec.live
    BY <1>2, TablesHaveLengths
<1>10. Effect(rec, counted, OkVerdict, live)
    BY <1>2, <1>8, <1>9, VisualCallIsCounted
<1>11. Good(counted) /\ counted.live = live
    BY <1>2, <1>10, EffectsAreGood
<1>12. Effect(rec, rec', OkVerdict, live) \/ Effect(rec, rec', v, live)
    <2>1. CASE cursor \in VideosOf(call)
        BY <1>8, <1>10, <2>1 DEF PlanOccurrence
    <2>2. CASE cursor \notin VideosOf(call)
        <3>1. rec' = PlanImageSpan(counted, cursor)
            BY <1>8, <2>2 DEF PlanOccurrence
        <3>2. Effect(counted, PlanImageSpan(counted, cursor), v, live)
            BY <1>2, <1>3, <1>4, <1>11, PlanImageSpanEffect
        <3> QED BY <1>2, <1>10, <3>1, <3>2, ThenAnother
    <2> QED BY <2>1, <2>2
<1>13. /\ Quiet(rec, rec') /\ SameOutputs(rec, rec') /\ rec'.live = rec.live
       /\ v = OkVerdict => Clean(rec, rec')
    BY <1>9, <1>12 DEF Effect, Ends
<1>14. LiveIsHeld'
    BY <1>1, <1>13, HeldQuietly
<1>15. Course'
    BY <1>1, <1>2 DEF Course
<1>16. Listed'
    <2>1. \A e \in ErrorsIn(errors') : ~Late(e)
        <3>1. \A e \in ErrorsIn(errors) : ~Late(e)
            BY <1>1 DEF IInv, Listed
        <3> QED BY <1>3, <1>4, <1>7, <3>1 DEF Late
    <2>2. \A e : Late(e)' <=> Late(e)
        BY <1>1 DEF Late, Media
    <2>3. ASSUME errors' = <<>>, NEW k \in Occurrences, k < cursor + 1
          PROVE  Media[k].plan = OkVerdict
        <3>1. errors = <<>> /\ v = OkVerdict
            BY <1>7, <2>3
        <3>2. k < cursor => Media[k].plan = OkVerdict
            BY <1>1, <3>1 DEF IInv, Listed
        <3>3. k \in Nat
            BY <1>2, CallsAreTyped
        <3>4. k < cursor \/ k = cursor
            BY <1>2, <2>3, <3>3
        <3> QED BY <1>3, <1>4, <3>1, <3>2, <3>4
    <2>4. Occurrences' = Occurrences /\ Media' = Media
        BY <1>1 DEF Occurrences, Media
    <2> QED BY <1>1, <2>1, <2>2, <2>3, <2>4 DEF Listed
<1>17. cursor' \in Nat \ {0}
    BY <1>1, <1>2
<1> QED BY <1>1, <1>2, <1>7, <1>13, <1>14, <1>15, <1>16, <1>17, PlanningKeeps
        DEF Planning

(* The traversal ends after the last medium.                                  *)
LEMMA EndTraversalKeeps ==
    ASSUME IInv, EndTraversal
    PROVE  IInv'
<1>1. /\ phase = "traverse" /\ cursor \notin Occurrences /\ phase' = "triage"
      /\ cursor' = 1 /\ call \in Calls
      /\ UNCHANGED <<call, errors, owned, images, videos, rec, open, answer>>
    BY Spaces DEF EndTraversal, Goto
<1>2. /\ images = <<>> /\ videos = <<>> /\ call.requests # <<>> /\ cursor \in Nat \ {0}
      /\ \A e \in ErrorsIn(errors) : ~Late(e)
      /\ errors = <<>> => \A k \in Occurrences : k < cursor => Media[k].plan = OkVerdict
    BY <1>1 DEF IInv, Typed, Held, Course, Listed
<1>3. \A k \in Occurrences : k < cursor
    <2>1. PICK n \in Nat : Occurrences = 1..n
        BY <1>1, CallsAreTyped DEF Occurrences, Media
    <2> QED BY <1>1, <1>2, <2>1
<1>4. Occurrences' = Occurrences /\ Media' = Media /\ \A e : Late(e)' <=> Late(e)
    BY <1>1 DEF Occurrences, Media, Late
<1>5. Course' /\ Listed'
    BY <1>1, <1>2, <1>3, <1>4 DEF Course, Listed
<1>6. Effect(rec, rec', OkVerdict, rec.live)
    BY <1>1, Spaces, NoEffect
<1> QED BY <1>1, <1>2, <1>5, <1>6, TextKeeps DEF Planning

(* A failure that precedes decoding ends the plan; others leave the rest to   *)
(* salvage.                                                                   *)
LEMMA TriageKeeps ==
    ASSUME IInv, Triage
    PROVE  IInv'
<1>1. phase = "triage" /\ UNCHANGED <<call, errors, owned>> /\ call \in Calls
    BY Spaces DEF Triage
<1>2. /\ errors \in Seq(Errors) /\ images = <<>> /\ videos = <<>>
      /\ call.requests # <<>> /\ \A e \in ErrorsIn(errors) : ~Late(e)
      /\ errors = <<>> => \A k \in Occurrences : Media[k].plan = OkVerdict
    BY <1>1 DEF IInv, Typed, Held, Course, Listed
<1>3. CASE PredecodeErrors(errors) # {}
    <2>1. PICK category \in Refusals : category = PreferredPredecodeError(errors).category
        <3>1. PreferredPredecodeError(errors) \in Errors
            BY <1>2, <1>3, SelectionsAreErrors
        <3> QED BY <3>1 DEF Errors, Refusals
    <2>2. FailPlan(rec, category)
        BY <1>3, <2>1 DEF Triage
    <2>3. rec.live = OwnedBytes(owned)
        BY <1>1, LiveIsOwned
    <2>4. Quiet(rec, rec) /\ SameOutputs(rec, rec)
        BY Spaces, NoEffect DEF Effect
    <2> QED BY <1>1, <2>2, <2>3, <2>4, EarlyFailure DEF Planning
<1>4. CASE PredecodeErrors(errors) = {}
    <2>1. /\ phase' = IF errors # <<>> THEN "salvage" ELSE "tokenize"
          /\ cursor' = 1 /\ UNCHANGED <<rec, open, images, videos, answer>>
        BY <1>4 DEF Triage, Goto
    <2>2. Occurrences' = Occurrences /\ Media' = Media /\ \A e : Late(e)' <=> Late(e)
        BY <1>1 DEF Occurrences, Media, Late
    <2>3. Listed'
        BY <1>1, <1>2, <2>1, <2>2 DEF Listed
    <2>4. Course'
        <3>1. 1 \in DOMAIN call.requests
            BY <1>1, <1>2, CallsAreTyped
        <3> QED BY <1>1, <2>1, <3>1 DEF Course
    <2>5. Effect(rec, rec', OkVerdict, rec.live)
        BY <2>1, Spaces, NoEffect
    <2> QED BY <1>1, <1>2, <2>1, <2>3, <2>4, <2>5, TextKeeps DEF Planning
<1> QED BY <1>3, <1>4

(* Salvage keeps no pixels and collects the failures it meets.                *)
LEMMA SalvageImageKeeps ==
    ASSUME IInv, SalvageImage
    PROVE  IInv'
<1>1. /\ phase = "salvage" /\ cursor \in Occurrences /\ phase' = "salvage"
      /\ cursor' = cursor + 1
      /\ UNCHANGED <<call, owned, images, videos, open, answer>>
    BY DEF SalvageImage, Stay
<1>2. /\ call \in Calls /\ Good(rec) /\ cursor \in Nat \ {0} /\ errors \in Seq(Errors)
      /\ images = <<>> /\ videos = <<>> /\ errors # <<>>
      /\ images \in Seq(Occurrences) /\ videos \in Seq(VideosOf(call))
      /\ \A e \in ErrorsIn(errors) : ~Late(e)
    BY <1>1, Spaces DEF IInv, Typed, Held, Listed
<1>3. PICK m \in AllMedia : m = Media[cursor]
    BY <1>1, <1>2, CallsAreTyped
<1>4. PICK v \in Verdicts : v = ImageVerdict(m)
    BY MediaVerdicts
<1>5. /\ errors' \in Seq(Errors) /\ errors' # <<>>
      /\ Quiet(rec, rec') /\ SameOutputs(rec, rec') /\ rec'.live = rec.live
      /\ \A e \in ErrorsIn(errors') :
            e \in ErrorsIn(errors) \/ e.place \notin VideosOf(call)
    <2>1. CASE cursor \in PendingImages
        <3>1. rec' = SalvagedImage(rec, cursor) /\ errors' = WithImageError(cursor)
            BY <2>1 DEF SalvageImage
        <3>2. cursor \notin VideosOf(call) /\ m.source # "video"
            BY <1>3, <2>1 DEF PendingImages, VideosOf, ImagesOf, Media
        <3>3. Effect(rec, rec', v, rec.live)
            BY <1>2, <1>3, <1>4, <3>1, <3>2, SalvagedImageEffect
        <3>4. CASE v = OkVerdict
            BY <1>2, <1>3, <1>4, <3>1, <3>3, <3>4 DEF WithImageError, Effect
        <3>5. CASE v # OkVerdict
            <4>1. PICK e \in Errors : e = Error(v, cursor) /\ e.place = cursor
                BY <1>2, <3>5, FailuresAreErrors
            <4>2. errors' = Append(errors, e)
                BY <1>3, <1>4, <3>1, <3>5, <4>1 DEF WithImageError
            <4> QED BY <1>2, <3>2, <3>3, <4>1, <4>2, ErrorsAfter DEF Effect
        <3> QED BY <3>4, <3>5
    <2>2. CASE cursor \notin PendingImages
        <3>1. UNCHANGED <<rec, errors>>
            BY <2>2 DEF SalvageImage
        <3> QED BY <1>2, <3>1, QuietlyTheSame
    <2> QED BY <2>1, <2>2
<1>6. LiveIsHeld'
    BY <1>1, <1>5, HeldQuietly
<1>7. Course'
    BY <1>1 DEF Course
<1>8. Listed'
    <2>1. \A e : Late(e)' <=> Late(e)
        BY <1>1 DEF Late, Media
    <2>2. \A e \in ErrorsIn(errors') : ~Late(e)
        BY <1>2, <1>5 DEF Late
    <2> QED BY <1>1, <1>5, <2>1, <2>2 DEF Listed
<1>9. cursor' \in Nat \ {0}
    BY <1>1, <1>2
<1> QED BY <1>1, <1>2, <1>5, <1>6, <1>7, <1>8, <1>9, PlanningKeeps DEF Planning

(* Salvage always ends in a failure.                                          *)
LEMMA FinishSalvageKeeps ==
    ASSUME IInv, FinishSalvage
    PROVE  IInv'
<1>1. phase = "salvage" /\ UNCHANGED <<call, errors, owned>>
      /\ errors \in Seq(Errors) /\ errors # <<>>
    BY DEF FinishSalvage, IInv, Typed, Listed
<1>2. PICK category \in Refusals : category = SelectPreferredError(errors).category
    <2>1. SelectPreferredError(errors) \in Errors
        BY <1>1, SelectionsAreErrors
    <2> QED BY <2>1 DEF Errors, Refusals
<1>3. FailPlan(rec, category)
    BY <1>2 DEF FinishSalvage
<1>4. rec.live = OwnedBytes(owned)
    BY <1>1, LiveIsOwned
<1>5. Quiet(rec, rec) /\ SameOutputs(rec, rec)
    BY Spaces, NoEffect DEF Effect
<1> QED BY <1>1, <1>3, <1>4, <1>5, EarlyFailure DEF Planning

(* A request is tokenized, or its refusal ends the plan.                      *)
LEMMA TokenizeRequestKeeps ==
    ASSUME IInv, TokenizeRequest
    PROVE  IInv'
<1>1. phase = "tokenize" /\ UNCHANGED <<call, errors, owned>>
    BY DEF TokenizeRequest
<1>2. /\ call \in Calls /\ Good(rec) /\ call.requests \in Seq(Turns)
      /\ cursor \in Nat \ {0} /\ errors = <<>> /\ cursor \in DOMAIN call.requests
      /\ images = <<>> /\ videos = <<>>
      /\ \A k \in Occurrences : Media[k].plan = OkVerdict
    BY <1>1, Spaces, CallsAreTyped DEF IInv, Typed, Listed, Course, Held
<1>3. PICK request \in Turns : request = call.requests[cursor]
    BY <1>2
<1>4. PICK v \in Refusals \cup {OkVerdict} : v = request.text
    BY VerdictsAreKnown DEF Turns
<1>5. PICK scope \in Scopes : scope = RequestScope(cursor)
    BY <1>2, ScopesAreKnown
<1>6. PICK stage \in Stages : stage = "native.chat.tokenize"
    BY DEF Stages
<1>7. PICK tokenized : tokenized = Spanned(rec, stage, scope, v)
    OBVIOUS
<1>8. Effect(rec, tokenized, v, rec.live)
    BY <1>2, <1>7, SpannedHasItsVerdict
<1>9. CASE v # OkVerdict
    <2>1. FailPlan(tokenized, v) /\ v \in Refusals
        BY <1>3, <1>4, <1>5, <1>6, <1>7, <1>9 DEF TokenizeRequest
    <2>2. rec.live = OwnedBytes(owned)
        BY <1>1, LiveIsOwned
    <2>3. Quiet(rec, tokenized) /\ SameOutputs(rec, tokenized)
          /\ tokenized.live = OwnedBytes(owned)
        BY <1>8, <2>2 DEF Effect
    <2> QED BY <1>1, <2>1, <2>3, EarlyFailure DEF Planning
<1>10. CASE v = OkVerdict
    <2>1. /\ rec' = tokenized
          /\ IF cursor < Len(call.requests) THEN Stay ELSE Goto("text_limits")
          /\ UNCHANGED <<images, videos, open, answer>>
        BY <1>3, <1>4, <1>5, <1>6, <1>7, <1>10 DEF TokenizeRequest
    <2>2. /\ phase' \in {"tokenize", "text_limits"} /\ cursor' \in Nat \ {0}
          /\ phase' = "tokenize" => cursor' \in DOMAIN call.requests
        BY <1>1, <1>2, <2>1 DEF Stay, Goto
    <2>3. Effect(rec, rec', OkVerdict, rec.live)
        BY <1>8, <1>10, <2>1
    <2>4. Occurrences' = Occurrences /\ Media' = Media
        BY <1>1 DEF Occurrences, Media
    <2>5. Course' /\ Listed'
        BY <1>1, <1>2, <2>2, <2>4 DEF Course, Listed, ErrorsIn
    <2> QED BY <1>1, <1>2, <2>1, <2>2, <2>3, <2>5, TextKeeps DEF Planning
<1> QED BY <1>9, <1>10

(* The limits of the text pass or end the plan.                               *)
LEMMA CheckTextLimitsKeeps ==
    ASSUME IInv, CheckTextLimits
    PROVE  IInv'
<1>1. phase = "text_limits" /\ UNCHANGED <<call, errors, owned>> /\ call \in Calls
    BY Spaces DEF CheckTextLimits
<1>2. CASE call.limits # OkVerdict
    <2>1. PICK category \in Refusals : category = call.limits
        BY <1>1, <1>2, CallsAreTyped, VerdictsAreKnown
    <2>2. FailPlan(rec, category)
        BY <1>2, <2>1 DEF CheckTextLimits
    <2>3. rec.live = OwnedBytes(owned)
        BY <1>1, LiveIsOwned
    <2>4. Quiet(rec, rec) /\ SameOutputs(rec, rec)
        BY Spaces, NoEffect DEF Effect
    <2> QED BY <1>1, <2>2, <2>3, <2>4, EarlyFailure DEF Planning
<1>3. CASE call.limits = OkVerdict
    <2>1. phase' = "images" /\ cursor' = 1 /\ UNCHANGED <<rec, open, images, videos, answer>>
        BY <1>3 DEF CheckTextLimits, Goto
    <2>2. Effect(rec, rec', OkVerdict, rec.live)
        BY <2>1, Spaces, NoEffect
    <2>3. images = <<>> /\ videos = <<>> /\ errors = <<>>
          /\ \A k \in Occurrences : Media[k].plan = OkVerdict
        BY <1>1 DEF IInv, Held, Listed
    <2>4. Occurrences' = Occurrences /\ Media' = Media
        BY <1>1 DEF Occurrences, Media
    <2>5. Course' /\ Listed'
        BY <1>1, <2>1, <2>3, <2>4 DEF Course, Listed, ErrorsIn
    <2> QED BY <1>1, <2>1, <2>2, <2>3, <2>5, TextKeeps DEF Planning
<1> QED BY <1>2, <1>3

-------------------------------------------------------------------------------
(* Media                                                                      *)

(* An image that is executed is held, and its failure is collected.           *)
LEMMA ExecutePlannedImageKeeps ==
    ASSUME IInv, ExecutePlannedImage
    PROVE  IInv'
<1>1. /\ phase = "images" /\ cursor \in Occurrences /\ phase' = "images"
      /\ cursor' = cursor + 1
      /\ UNCHANGED <<call, owned, videos, open, answer>>
    BY DEF ExecutePlannedImage, Stay
<1>2. /\ call \in Calls /\ Good(rec) /\ cursor \in Nat \ {0} /\ errors \in Seq(Errors)
      /\ videos = <<>> /\ images \in Seq(Occurrences) /\ videos \in Seq(VideosOf(call))
      /\ \A e \in ErrorsIn(errors) : ~Late(e)
      /\ \A k \in Occurrences : Media[k].plan = OkVerdict
    BY <1>1, Spaces DEF IInv, Typed, Held, Listed
<1>3. PICK m \in AllMedia : m = Media[cursor]
    BY <1>1, <1>2, CallsAreTyped
<1>4. PICK v \in Verdicts : v = ImageVerdict(m)
    BY MediaVerdicts
<1>5. PICK n \in Nat, a \in Nat, b \in Nat, held \in Nat :
          /\ n = PreparedBytes(m) /\ a = OwnedBytes(owned)
          /\ b = ImageBytes(Media, images) /\ held = a + b /\ rec.live = held
    <2>1. /\ rec.live = OwnedBytes(owned) + ImageBytes(Media, images)
                        + VideoBytes(videos)
          /\ OwnedBytes(owned) \in Nat /\ ImageBytes(Media, images) \in Nat
        BY <1>1, LiveNow
    <2>2. VideoBytes(videos) = 0 /\ PreparedBytes(m) \in Nat
        BY <1>2, NothingHeld, BytesAreNatural
    <2> QED BY <2>1, <2>2
<1>6. /\ errors' \in Seq(Errors) /\ Quiet(rec, rec') /\ SameOutputs(rec, rec')
      /\ errors' = <<>> => errors = <<>> /\ Clean(rec, rec')
      /\ \A e \in ErrorsIn(errors') :
            e \in ErrorsIn(errors) \/ e.place \notin VideosOf(call)
      /\ images' \in Seq(Occurrences)
      /\ rec'.live = a + ImageBytes(Media, images')
    <2>1. CASE cursor \in ImagesOf(call)
        <3>1. /\ rec' = ExecuteImage(rec, cursor) /\ errors' = WithImageError(cursor)
              /\ images' = IF v = OkVerdict THEN Append(images, cursor) ELSE images
            BY <1>3, <1>4, <2>1 DEF ExecutePlannedImage
        <3>2. cursor \notin VideosOf(call) /\ m.source # "video"
            BY <1>3, <2>1 DEF VideosOf, ImagesOf, Media
        <3>3. Effect(rec, rec', v, IF v = OkVerdict THEN held + n ELSE held)
            BY <1>2, <1>3, <1>4, <1>5, <3>1, <3>2, ExecuteImageEffect
        <3>4. /\ Quiet(rec, rec') /\ SameOutputs(rec, rec')
              /\ v = OkVerdict => Clean(rec, rec')
            BY <3>3 DEF Effect, Ends
        <3>5. CASE v = OkVerdict
            <4>1. errors' = errors /\ images' = Append(images, cursor)
                  /\ rec'.live = held + n
                BY <1>3, <1>4, <3>1, <3>3, <3>5 DEF WithImageError, Effect
            <4>2. ImageBytes(Media, images') = b + n /\ images' \in Seq(Occurrences)
                <5>1. images' \in Seq(Occurrences)
                    BY <1>1, <1>2, <4>1
                <5> QED BY <1>1, <1>2, <1>3, <1>5, <4>1, <5>1, ImageBytesOfOneMore
            <4>3. rec'.live = a + ImageBytes(Media, images')
                <5>1. held + n = a + (b + n)
                    BY <1>5
                <5> QED BY <4>1, <4>2, <5>1
            <4>4. \A e \in ErrorsIn(errors') : e \in ErrorsIn(errors)
                BY <4>1
            <4>5. errors' \in Seq(Errors)
                BY <1>2, <4>1
            <4>6. errors' = <<>> => errors = <<>> /\ Clean(rec, rec')
                BY <3>4, <3>5, <4>1
            <4> QED BY <3>4, <4>2, <4>3, <4>4, <4>5, <4>6
        <3>6. CASE v # OkVerdict
            <4>1. PICK e \in Errors : e = Error(v, cursor) /\ e.place = cursor
                BY <1>2, <3>6, FailuresAreErrors
            <4>2. errors' = Append(errors, e) /\ images' = images /\ rec'.live = held
                BY <1>3, <1>4, <3>1, <3>3, <3>6, <4>1 DEF WithImageError, Effect
            <4>3. /\ errors' \in Seq(Errors) /\ errors' # <<>>
                  /\ \A f \in ErrorsIn(errors') : f \in ErrorsIn(errors) \/ f = e
                BY <1>2, <4>2, ErrorsAfter
            <4>4. images' \in Seq(Occurrences)
                BY <1>2, <4>2
            <4>5. rec'.live = a + ImageBytes(Media, images')
                BY <1>5, <4>2
            <4>6. \A f \in ErrorsIn(errors') :
                        f \in ErrorsIn(errors) \/ f.place \notin VideosOf(call)
                BY <3>2, <4>1, <4>3
            <4> QED BY <3>4, <4>3, <4>4, <4>5, <4>6
        <3> QED BY <3>5, <3>6
    <2>2. CASE cursor \notin ImagesOf(call)
        <3>1. UNCHANGED <<rec, errors, images>>
            BY <2>2 DEF ExecutePlannedImage
        <3>2. /\ Quiet(rec, rec') /\ Clean(rec, rec') /\ SameOutputs(rec, rec')
            BY <3>1, QuietlyTheSame
        <3>3. rec'.live = a + ImageBytes(Media, images')
            BY <1>5, <3>1
        <3> QED BY <1>2, <3>1, <3>2, <3>3
    <2> QED BY <2>1, <2>2
<1>7. LiveIsHeld'
    <2>1. /\ HeldBytes' = OwnedBytes(owned') + ImageBytes(Media, images')
                          + VideoBytes(videos')
          /\ LiveIsHeld' <=> rec'.live = HeldBytes'
        BY <1>1, HeldIs
    <2>2. VideoBytes(videos') = 0 /\ OwnedBytes(owned') = a
        BY <1>1, <1>2, <1>5, NothingHeld
    <2>3. PICK c : c = ImageBytes(Media, images')
        OBVIOUS
    <2>4. c \in Nat
        <3>1. CASE images' = <<>>
            BY <2>3, <3>1, NothingHeld
        <3>2. CASE images' # <<>>
            <4>1. PICK k \in Occurrences : TRUE
                BY <1>1
            <4> QED BY <1>6, <2>3, <4>1, ImageBytesOfOneMore
        <3> QED BY <3>1, <3>2
    <2>5. a + c + 0 = a + c
        BY <2>4
    <2> QED BY <1>6, <2>1, <2>2, <2>3, <2>5
<1>8. Course'
    BY <1>1 DEF Course
<1>9. Listed'
    <2>1. \A e : Late(e)' <=> Late(e)
        BY <1>1 DEF Late, Media
    <2>2. \A e \in ErrorsIn(errors') : ~Late(e)
        BY <1>2, <1>6 DEF Late
    <2>3. Occurrences' = Occurrences /\ Media' = Media
        BY <1>1 DEF Occurrences, Media
    <2> QED BY <1>1, <1>2, <2>1, <2>2, <2>3 DEF Listed
<1>10. cursor' \in Nat \ {0}
    BY <1>1, <1>2
<1> QED BY <1>1, <1>2, <1>6, <1>7, <1>8, <1>9, <1>10, PlanningKeeps DEF Planning

(* Images and videos that are given back leave what was owned.                *)
LEMMA GiveAllBack ==
    ASSUME NEW a \in Nat, NEW b \in Nat, NEW c \in Nat
    PROVE  SaturatingSub(SaturatingSub(a + b + c, b), c) = a
BY DEF SaturatingSub

(* A failed image ends the plan, which gives all the images back.             *)
LEMMA FinishImagesKeeps ==
    ASSUME IInv, FinishImages
    PROVE  IInv'
<1>1. /\ phase = "images" /\ cursor \notin Occurrences
      /\ UNCHANGED <<call, errors, owned>>
    BY DEF FinishImages
<1>2. /\ call \in Calls /\ Good(rec) /\ errors \in Seq(Errors)
      /\ videos = <<>> /\ images \in Seq(Occurrences)
      /\ \A k \in Occurrences : Media[k].plan = OkVerdict
    BY <1>1, Spaces DEF IInv, Typed, Held, Listed
<1>3. CASE errors # <<>>
    <2>1. PICK category \in Refusals : category = SelectPreferredError(errors).category
        <3>1. SelectPreferredError(errors) \in Errors
            BY <1>2, <1>3, SelectionsAreErrors
        <3> QED BY <3>1 DEF Errors, Refusals
    <2>2. PICK r : r = ReleaseAll(rec, images, <<>>)
        OBVIOUS
    <2>3. FailPlan(r, category)
        BY <1>3, <2>1, <2>2 DEF FinishImages
    <2>4. PICK a \in Nat, b \in Nat :
              a = OwnedBytes(owned) /\ b = ImageBytes(Media, images)
              /\ rec.live = a + b + 0 /\ VideoBytes(<<>>) = 0
        <3>1. /\ rec.live = OwnedBytes(owned) + ImageBytes(Media, images)
                            + VideoBytes(videos)
              /\ OwnedBytes(owned) \in Nat /\ ImageBytes(Media, images) \in Nat
            BY <1>1, LiveNow
        <3>2. VideoBytes(videos) = 0 /\ VideoBytes(<<>>) = 0
            BY <1>2, NothingHeld
        <3> QED BY <3>1, <3>2
    <2>5. Effect(rec, r, OkVerdict, a)
        <3>1. <<>> \in Seq(Occurrences)
            OBVIOUS
        <3>2. Effect(rec, r, OkVerdict,
                     SaturatingSub(SaturatingSub(rec.live, ImageBytes(Media, images)),
                                   VideoBytes(<<>>)))
            BY <1>2, <2>2, <3>1, ReleaseAllEffect
        <3>3. SaturatingSub(SaturatingSub(a + b + 0, b), 0) = a
            BY GiveAllBack
        <3> QED BY <2>4, <3>2, <3>3
    <2>6. Quiet(rec, r) /\ SameOutputs(rec, r) /\ r.live = OwnedBytes(owned)
        BY <2>4, <2>5 DEF Effect
    <2> QED BY <1>1, <2>3, <2>6, EarlyFailure DEF Planning
<1>4. CASE errors = <<>>
    <2>1. phase' = "videos" /\ cursor' = 1 /\ UNCHANGED <<rec, open, images, videos, answer>>
        BY <1>4 DEF FinishImages, Goto
    <2>2. Effect(rec, rec', OkVerdict, rec.live)
        BY <2>1, Spaces, NoEffect
    <2>3. Occurrences' = Occurrences /\ Media' = Media
        BY <1>1 DEF Occurrences, Media
    <2>4. Range(videos) = {} /\ \A k \in VideosOf(call) : ~(k < 1)
        <3>1. Occurrences = 1..Len(call.media) /\ VideosOf(call) \subseteq Occurrences
            BY <1>2, CallsAreTyped DEF Occurrences, Media
        <3> QED BY <1>2, <3>1 DEF Range
    <2>5. Course' /\ Listed'
        BY <1>1, <1>2, <1>4, <2>1, <2>3, <2>4 DEF Course, Listed, ErrorsIn
    <2> QED BY <1>1, <1>2, <2>1, <2>2, <2>5, TextKeeps DEF Planning
<1> QED BY <1>3, <1>4

(* Every video has run when they are collected.                               *)
LEMMA FinishVideosKeeps ==
    ASSUME IInv, FinishVideos
    PROVE  IInv'
<1>1. /\ phase = "videos" /\ cursor \notin Occurrences /\ phase' = "collect"
      /\ cursor' = 1 /\ call \in Calls
      /\ UNCHANGED <<call, errors, owned, images, videos, rec, open, answer>>
    BY Spaces DEF FinishVideos, Goto
<1>2. /\ cursor \in Nat \ {0}
      /\ \A e \in ErrorsIn(errors) :
              /\ Late(e) /\ ResizeVerdict(Media[e.place]) # OkVerdict
              /\ errors[1].place <= e.place
      /\ Range(videos) = {k \in VideosOf(call) :
                            ResizeVerdict(Media[k]) = OkVerdict /\ k < cursor}
    BY <1>1 DEF IInv, Typed, Listed
<1>3. \A k \in VideosOf(call) : k < cursor
    <2>1. PICK n \in Nat : Occurrences = 1..n /\ VideosOf(call) \subseteq Occurrences
        BY <1>1, CallsAreTyped DEF Occurrences, Media
    <2> QED BY <1>1, <1>2, <2>1
<1>4. Range(videos) = {k \in VideosOf(call) : ResizeVerdict(Media[k]) = OkVerdict}
    BY <1>2, <1>3
<1>5. Occurrences' = Occurrences /\ Media' = Media /\ \A e : Late(e)' <=> Late(e)
    BY <1>1 DEF Occurrences, Media, Late
<1>6. Course'
    BY <1>1 DEF Course
<1>7. Listed'
    BY <1>1, <1>2, <1>4, <1>5 DEF Listed
<1>8. Effect(rec, rec', OkVerdict, rec.live)
    BY <1>1, Spaces, NoEffect
<1> QED BY <1>1, <1>6, <1>7, <1>8, TextKeeps DEF Planning

(* A list of videos with one more.                                            *)
LEMMA OneMoreVideo ==
    ASSUME NEW S, NEW list \in Seq(S), NEW k \in S
    PROVE  /\ Append(list, k) \in Seq(S)
           /\ VideoBytes(list) \in Nat /\ VideoBytes(Append(list, k)) \in Nat
           /\ VideoBytes(Append(list, k)) = VideoBytes(list) + Bytes.video
           /\ Range(Append(list, k)) = Range(list) \cup {k}
<1>1. PICK l \in Nat, b \in Nat : l = Len(list) /\ b = Bytes.video
    <2>1. Len(list) \in Nat
        OBVIOUS
    <2> QED BY <2>1, BytesAreNatural
<1>2. Append(list, k) \in Seq(S) /\ Len(Append(list, k)) = l + 1
    BY <1>1
<1>3. VideoBytes(list) = l * b
    BY <1>1, EqualBytes
<1>4. VideoBytes(Append(list, k)) = (l + 1) * b
    <2>1. PICK longer \in Seq(S) : longer = Append(list, k)
        BY <1>2
    <2>2. VideoBytes(longer) = Len(longer) * Bytes.video
        BY EqualBytes
    <2> QED BY <1>1, <1>2, <2>1, <2>2
<1>5. l * b \in Nat /\ (l + 1) * b \in Nat /\ (l + 1) * b = l * b + b
    OBVIOUS
<1>6. Range(Append(list, k)) = Range(list) \cup {k}
    BY OneMoreListed DEF Range, ErrorsIn
<1> QED BY <1>1, <1>2, <1>3, <1>4, <1>5, <1>6

(* A video that is executed is held, and the first failure stays the first of *)
(* the list.                                                                  *)
LEMMA ExecuteVideoKeeps ==
    ASSUME IInv, ExecuteVideo
    PROVE  IInv'
<1>1. /\ phase = "videos" /\ cursor \in Occurrences /\ phase' = "videos"
      /\ cursor' = cursor + 1
      /\ UNCHANGED <<call, owned, images, open, answer>>
    BY DEF ExecuteVideo, Stay
<1>2. /\ call \in Calls /\ Good(rec) /\ cursor \in Nat \ {0} /\ errors \in Seq(Errors)
      /\ images \in Seq(Occurrences) /\ videos \in Seq(VideosOf(call))
      /\ \A k \in Occurrences : Media[k].plan = OkVerdict
      /\ \A e \in ErrorsIn(errors) :
            /\ Late(e) /\ ResizeVerdict(Media[e.place]) # OkVerdict
            /\ errors[1].place <= e.place /\ e.place < cursor
      /\ Range(videos) = {k \in VideosOf(call) :
                            ResizeVerdict(Media[k]) = OkVerdict /\ k < cursor}
    BY <1>1, Spaces DEF IInv, Typed, Listed
<1>3. VideosOf(call) \subseteq Nat /\ Media[cursor] \in AllMedia
    BY <1>1, <1>2, CallsAreTyped
<1>4. PICK v \in Verdicts : v = ResizeVerdict(Media[cursor])
    BY <1>3, MediaVerdicts
<1>5. PICK a \in Nat, b \in Nat, c \in Nat, n \in Nat, held \in Nat :
          /\ a = OwnedBytes(owned) /\ b = ImageBytes(Media, images)
          /\ c = VideoBytes(videos) /\ n = Bytes.video
          /\ held = rec.live /\ held = a + b + c
    <2>1. /\ rec.live = OwnedBytes(owned) + ImageBytes(Media, images)
                        + VideoBytes(videos)
          /\ OwnedBytes(owned) \in Nat /\ ImageBytes(Media, images) \in Nat
          /\ VideoBytes(videos) \in Nat
        BY <1>1, LiveNow
    <2>2. Bytes.video \in Nat
        BY BytesAreNatural
    <2> QED BY <2>1, <2>2
<1>6. /\ Effect(rec, Finish(RecordTransient(Begin(rec, VideoSpan, MediaScope(cursor)),
                                            "prepared_video_rgb", MediaScope(cursor),
                                            Bytes.video),
                            NextToken(rec), OkVerdict),
                OkVerdict, held + n)
      /\ Effect(rec, Finish(Begin(rec, VideoSpan, MediaScope(cursor)), NextToken(rec), v),
                v, held)
    BY <1>2, <1>5, VideoEffects
<1>7. /\ errors' \in Seq(Errors) /\ videos' \in Seq(VideosOf(call))
      /\ Quiet(rec, rec') /\ SameOutputs(rec, rec')
      /\ errors' = <<>> => errors = <<>> /\ Clean(rec, rec')
      /\ rec'.live = a + b + VideoBytes(videos')
      /\ \A e \in ErrorsIn(errors') :
            /\ Late(e) /\ ResizeVerdict(Media[e.place]) # OkVerdict
            /\ errors'[1].place <= e.place /\ e.place < cursor'
      /\ Range(videos') = {k \in VideosOf(call) :
                             ResizeVerdict(Media[k]) = OkVerdict /\ k < cursor'}
    <2>1. CASE cursor \notin VideosOf(call)
        <3>1. UNCHANGED <<rec, errors, videos>>
            BY <2>1 DEF ExecuteVideo
        <3>2. Quiet(rec, rec') /\ Clean(rec, rec') /\ SameOutputs(rec, rec')
            BY <3>1, QuietlyTheSame
        <3>3. rec'.live = a + b + VideoBytes(videos')
            BY <1>5, <3>1
        <3>4. \A e \in ErrorsIn(errors') :
                /\ Late(e) /\ ResizeVerdict(Media[e.place]) # OkVerdict
                /\ errors'[1].place <= e.place /\ e.place < cursor'
            <4> SUFFICES ASSUME NEW e \in ErrorsIn(errors)
                         PROVE  /\ Late(e) /\ ResizeVerdict(Media[e.place]) # OkVerdict
                                /\ errors[1].place <= e.place /\ e.place < cursor + 1
                BY <1>1, <3>1
            <4>1. e.place \in Nat
                BY <1>2, <1>3 DEF Late
            <4> QED BY <1>2, <4>1
        <3>5. \A k \in VideosOf(call) : k < cursor + 1 <=> k < cursor
            BY <1>2, <1>3, <2>1
        <3>6. Range(videos') = {k \in VideosOf(call) :
                             ResizeVerdict(Media[k]) = OkVerdict /\ k < cursor'}
            BY <1>1, <1>2, <3>1, <3>5
        <3>7. errors' \in Seq(Errors) /\ videos' \in Seq(VideosOf(call))
            BY <1>2, <3>1
        <3>8. errors' = <<>> => errors = <<>> /\ Clean(rec, rec')
            BY <3>1, <3>2
        <3> QED BY <3>2, <3>3, <3>4, <3>6, <3>7, <3>8
    <2>2. CASE cursor \in VideosOf(call) /\ v = OkVerdict
        <3>1. /\ rec' = Finish(RecordTransient(Begin(rec, VideoSpan, MediaScope(cursor)),
                                               "prepared_video_rgb", MediaScope(cursor),
                                               Bytes.video),
                               NextToken(rec), OkVerdict)
              /\ videos' = Append(videos, cursor) /\ errors' = errors
            BY <1>4, <2>2, Zenon DEF ExecuteVideo
        <3>2. Effect(rec, rec', OkVerdict, held + n)
            BY <1>6, <3>1
        <3>3. Quiet(rec, rec') /\ Clean(rec, rec') /\ SameOutputs(rec, rec')
              /\ rec'.live = held + n
            BY <3>2 DEF Effect, Ends
        <3>4. /\ videos' \in Seq(VideosOf(call)) /\ VideoBytes(videos') = c + n
              /\ Range(videos') = Range(videos) \cup {cursor}
            <4>1. PICK list \in Seq(VideosOf(call)), k \in VideosOf(call) :
                      list = videos /\ k = cursor
                BY <1>2, <2>2
            <4>2. /\ Append(list, k) \in Seq(VideosOf(call))
                  /\ VideoBytes(Append(list, k)) = VideoBytes(list) + Bytes.video
                  /\ Range(Append(list, k)) = Range(list) \cup {k}
                BY OneMoreVideo
            <4> QED BY <1>5, <3>1, <4>1, <4>2
        <3>5. rec'.live = a + b + VideoBytes(videos')
            <4>1. held + n = a + b + (c + n)
                BY <1>5
            <4> QED BY <3>3, <3>4, <4>1
        <3>6. \A e \in ErrorsIn(errors') :
                /\ Late(e) /\ ResizeVerdict(Media[e.place]) # OkVerdict
                /\ errors'[1].place <= e.place /\ e.place < cursor'
            <4> SUFFICES ASSUME NEW e \in ErrorsIn(errors)
                         PROVE  /\ Late(e) /\ ResizeVerdict(Media[e.place]) # OkVerdict
                                /\ errors[1].place <= e.place /\ e.place < cursor + 1
                BY <1>1, <3>1
            <4>1. e.place \in Nat
                BY <1>2, <1>3 DEF Late
            <4> QED BY <1>2, <4>1
        <3>7. \A k \in VideosOf(call) : k < cursor + 1 <=> k < cursor \/ k = cursor
            BY <1>2, <1>3
        <3>8. Range(videos') = {k \in VideosOf(call) :
                             ResizeVerdict(Media[k]) = OkVerdict /\ k < cursor'}
            BY <1>1, <1>2, <1>4, <2>2, <3>4, <3>7
        <3> QED BY <1>2, <3>1, <3>3, <3>4, <3>5, <3>6, <3>8
    <2>3. CASE cursor \in VideosOf(call) /\ v # OkVerdict
        <3>1. PICK e \in Errors : e = Error(v, cursor) /\ e.place = cursor
            BY <1>2, <2>3, FailuresAreErrors
        <3>2. /\ rec' = Finish(Begin(rec, VideoSpan, MediaScope(cursor)), NextToken(rec), v)
              /\ videos' = videos /\ errors' = Append(errors, e)
            BY <1>4, <2>3, <3>1, Zenon DEF ExecuteVideo
        <3>3. Effect(rec, rec', v, held)
            BY <1>6, <3>2
        <3>4. Quiet(rec, rec') /\ SameOutputs(rec, rec') /\ rec'.live = held
            BY <3>3 DEF Effect
        <3>5. rec'.live = a + b + VideoBytes(videos')
            BY <1>5, <3>2, <3>4
        <3>6. /\ errors' \in Seq(Errors) /\ errors' # <<>>
              /\ \A f \in ErrorsIn(errors') : f \in ErrorsIn(errors) \/ f = e
              /\ errors'[1] = IF errors = <<>> THEN e ELSE errors[1]
            BY <1>2, <3>2, ErrorsAfter
        <3>7. Late(e) /\ ResizeVerdict(Media[e.place]) # OkVerdict
            BY <1>1, <1>2, <1>4, <2>3, <3>1 DEF Late
        <3>8. errors # <<>> => errors[1] \in ErrorsIn(errors)
            BY <1>2 DEF ErrorsIn
        <3>9. \A f \in ErrorsIn(errors') :
                /\ Late(f) /\ ResizeVerdict(Media[f.place]) # OkVerdict
                /\ errors'[1].place <= f.place /\ f.place < cursor'
            <4> SUFFICES ASSUME NEW f \in ErrorsIn(errors')
                         PROVE  /\ Late(f) /\ ResizeVerdict(Media[f.place]) # OkVerdict
                                /\ errors'[1].place <= f.place /\ f.place < cursor + 1
                BY <1>1
            <4>1. CASE f = e
                <5>1. errors'[1].place <= cursor
                    <6>1. CASE errors = <<>>
                        BY <1>2, <3>1, <3>6, <6>1
                    <6>2. CASE errors # <<>>
                        <7>1. errors[1].place \in Nat /\ errors[1].place < cursor
                            BY <1>2, <1>3, <3>8, <6>2 DEF Late
                        <7> QED BY <1>2, <3>6, <6>2, <7>1
                    <6> QED BY <6>1, <6>2
                <5> QED BY <1>2, <3>1, <3>7, <4>1, <5>1
            <4>2. CASE f \in ErrorsIn(errors)
                <5>1. f.place \in Nat
                    BY <1>2, <1>3, <4>2 DEF Late
                <5>2. errors # <<>>
                    BY <4>2 DEF ErrorsIn
                <5> QED BY <1>2, <3>6, <4>2, <5>1, <5>2
            <4> QED BY <3>6, <4>1, <4>2
        <3>10. \A k \in VideosOf(call) : k < cursor + 1 <=> k < cursor \/ k = cursor
            BY <1>2, <1>3
        <3>11. Range(videos') = {k \in VideosOf(call) :
                             ResizeVerdict(Media[k]) = OkVerdict /\ k < cursor'}
            BY <1>1, <1>2, <1>4, <2>3, <3>2, <3>10
        <3>12. videos' \in Seq(VideosOf(call))
            BY <1>2, <3>2
        <3> QED BY <3>4, <3>5, <3>6, <3>9, <3>11, <3>12
    <2> QED BY <2>1, <2>2, <2>3
<1>8. LiveIsHeld'
    <2>1. /\ HeldBytes' = OwnedBytes(owned') + ImageBytes(Media, images')
                          + VideoBytes(videos')
          /\ LiveIsHeld' <=> rec'.live = HeldBytes'
        BY <1>1, HeldIs
    <2> QED BY <1>1, <1>5, <1>7, <2>1
<1>9. Course'
    BY <1>1 DEF Course
<1>10. Listed'
    <2>1. \A e : Late(e)' <=> Late(e)
        BY <1>1 DEF Late, Media
    <2>2. Occurrences' = Occurrences /\ Media' = Media
        BY <1>1 DEF Occurrences, Media
    <2> QED BY <1>1, <1>2, <1>7, <2>1, <2>2 DEF Listed
<1>11. cursor' \in Nat \ {0} /\ images' \in Seq(Occurrences)
    BY <1>1, <1>2
<1> QED BY <1>1, <1>2, <1>7, <1>8, <1>9, <1>10, <1>11, PlanningKeeps DEF Planning

(* Only the results of videos before the first failure are collected, and     *)
(* they are all of them when no video after it succeeded.                     *)
LEMMA CollectedBytes ==
    ASSUME IInv, phase = "collect", errors # <<>>, UNCHANGED <<call, errors>>,
           phase' = "unwind"
    PROVE  /\ Collected \in Seq(VideosOf(call))
           /\ VideoBytes(Collected) \in Nat /\ VideoBytes(videos) \in Nat
           /\ IF UncollectedVideos' = {} THEN VideoBytes(Collected) = VideoBytes(videos)
              ELSE VideoBytes(Collected) < VideoBytes(videos)
<1>1. /\ call \in Calls /\ errors \in Seq(Errors) /\ videos \in Seq(VideosOf(call))
      /\ \A e \in ErrorsIn(errors) :
              /\ Late(e) /\ ResizeVerdict(Media[e.place]) # OkVerdict
              /\ errors[1].place <= e.place
      /\ Range(videos) = {k \in VideosOf(call) : ResizeVerdict(Media[k]) = OkVerdict}
    BY Spaces DEF IInv, Typed, Listed
<1>2. errors[1] \in ErrorsIn(errors) /\ VideosOf(call) \subseteq Nat
    BY <1>1, CallsAreTyped DEF ErrorsIn
<1>3. PICK n \in Nat : n = Len(videos) /\ DOMAIN videos = 1..n
    BY <1>1
<1>4. PICK p \in Nat : p = errors[1].place /\ p \in VideosOf(call)
    BY <1>1, <1>2 DEF Late
<1>5. PICK B \in SUBSET (1..n) : B = {i \in DOMAIN videos : videos[i] < errors[1].place}
    BY <1>3
<1>6. PICK c \in 0..n : /\ c = Cardinality(B)
                        /\ c = n => B = 1..n
                        /\ B = 1..n => c = n
    <2>1. IsFiniteSet(1..n) /\ Cardinality(1..n) = n
        BY FS_Interval
    <2>2. /\ IsFiniteSet(B) /\ Cardinality(B) <= n
          /\ Cardinality(1..n) = Cardinality(B) => 1..n = B
        BY <2>1, FS_Subset
    <2>3. Cardinality(B) \in Nat
        BY <2>2, FS_CardinalityType
    <2> QED BY <2>1, <2>2, <2>3
<1>7. PICK list \in Seq(VideosOf(call)) : list = Collected /\ Len(list) = c
    <2>1. Collected = SubSeq(videos, 1, c)
        BY <1>5, <1>6 DEF Collected
    <2>2. SubSeq(videos, 1, c) \in Seq(VideosOf(call)) /\ Len(SubSeq(videos, 1, c)) = c
        BY <1>1, <1>3, <1>6
    <2> QED BY <2>1, <2>2
<1>8. PICK v \in Nat : v = Bytes.video /\ v > 0
    BY BytesAreNatural
<1>9. VideoBytes(list) = c * v /\ VideoBytes(videos) = n * v
    BY <1>1, <1>3, <1>7, <1>8, EqualBytes
<1>10. c * v \in Nat /\ n * v \in Nat /\ (c < n => c * v < n * v)
    <2>1. PICK d \in Nat : n = c + d
        <3>1. n - c \in Nat /\ n = c + (n - c)
            BY <1>6
        <3> QED BY <3>1
    <2>2. c \in Nat
        BY <1>6
    <2>3. (c + d) * v = c * v + d * v /\ c * v \in Nat /\ d * v \in Nat
        BY <2>2
    <2>4. d > 0 => d * v > 0
        BY <1>8
    <2>5. c < n => d > 0
        BY <2>1, <2>2
    <2> QED BY <2>1, <2>3, <2>4, <2>5
<1>11. UncollectedVideos' = {} <=> c = n
    <2>1. UncollectedVideos' =
            {k \in VideosOf(call) :
                /\ ResizeVerdict(Media[k]) = OkVerdict
                /\ \E e \in ErrorsIn(errors) :
                     /\ e.place \in VideosOf(call) /\ e.place < k
                     /\ Media[e.place].plan = OkVerdict}
        BY DEF UncollectedVideos, Media
    <2>2. ASSUME UncollectedVideos' = {}
          PROVE  B = 1..n
        <3> SUFFICES ASSUME NEW i \in 1..n
                     PROVE  i \in B
            OBVIOUS
        <3>1. PICK k \in VideosOf(call) : k = videos[i] /\ k \in Range(videos)
            BY <1>1, <1>3 DEF Range
        <3>2. ResizeVerdict(Media[k]) = OkVerdict /\ ResizeVerdict(Media[p]) # OkVerdict
              /\ Media[p].plan = OkVerdict
            BY <1>1, <1>2, <1>4, <3>1 DEF Late
        <3>3. ~(p < k)
            BY <1>2, <1>4, <2>1, <2>2, <3>2
        <3>4. k # p /\ k \in Nat
            BY <1>2, <3>2
        <3>5. k < p
            BY <3>3, <3>4
        <3> QED BY <1>3, <1>4, <1>5, <3>1, <3>5
    <2>3. ASSUME UncollectedVideos' # {}
          PROVE  B # 1..n
        <3>1. PICK k \in VideosOf(call), e \in ErrorsIn(errors) :
                  /\ ResizeVerdict(Media[k]) = OkVerdict
                  /\ e.place \in VideosOf(call) /\ e.place < k
            BY <2>1, <2>3
        <3>2. PICK i \in 1..n : k = videos[i]
            BY <1>1, <1>3, <3>1 DEF Range
        <3>3. p <= e.place /\ e.place \in Nat /\ k \in Nat
            BY <1>1, <1>2, <1>4, <3>1
        <3>4. ~(k < p)
            BY <3>1, <3>3
        <3> QED BY <1>4, <1>5, <3>2, <3>4
    <2> QED BY <1>6, <2>2, <2>3
<1> QED BY <1>6, <1>7, <1>9, <1>10, <1>11

(* A failed video ends the plan: what was collected before it is given back,  *)
(* and what ran after it stays live.                                          *)
LEMMA CollectVideosKeeps ==
    ASSUME IInv, CollectVideos
    PROVE  IInv'
<1>1. phase = "collect" /\ UNCHANGED <<call, errors, owned>>
    BY DEF CollectVideos
<1>2. /\ call \in Calls /\ Good(rec) /\ StackOf(rec, open) /\ Len(open) = Outer + 1
      /\ Outer \in {0, 1} /\ errors \in Seq(Errors)
      /\ images \in Seq(Occurrences) /\ videos \in Seq(VideosOf(call))
    BY <1>1, Spaces DEF IInv, Typed, Depth, Planning
<1>3. CASE errors # <<>>
    <2>1. PICK category \in Refusals : category = errors[1].category
        <3>1. errors[1] \in Errors
            BY <1>2, <1>3
        <3> QED BY <3>1 DEF Errors, Refusals
    <2>2. PICK r : r = ReleaseAll(rec, images, Collected)
        OBVIOUS
    <2>3. FailPlan(r, category)
        BY <1>3, <2>1, <2>2 DEF CollectVideos
    <2>4. phase' = "unwind"
        BY <2>3 DEF FailPlan, Goto
    <2>5. /\ Collected \in Seq(Occurrences)
          /\ VideoBytes(Collected) \in Nat /\ VideoBytes(videos) \in Nat
          /\ IF UncollectedVideos' = {} THEN VideoBytes(Collected) = VideoBytes(videos)
             ELSE VideoBytes(Collected) < VideoBytes(videos)
        <3>1. /\ Collected \in Seq(VideosOf(call))
              /\ VideoBytes(Collected) \in Nat /\ VideoBytes(videos) \in Nat
              /\ IF UncollectedVideos' = {}
                 THEN VideoBytes(Collected) = VideoBytes(videos)
                 ELSE VideoBytes(Collected) < VideoBytes(videos)
            BY <1>1, <1>3, <2>4, CollectedBytes
        <3>2. VideosOf(call) \subseteq Occurrences
            BY <1>2, CallsAreTyped
        <3> QED BY <3>1, <3>2
    <2>6. PICK a \in Nat, b \in Nat, c \in Nat, d \in Nat :
              /\ a = OwnedBytes(owned) /\ b = ImageBytes(Media, images)
              /\ c = VideoBytes(videos) /\ d = VideoBytes(Collected)
              /\ rec.live = a + b + c
        <3>1. /\ rec.live = OwnedBytes(owned) + ImageBytes(Media, images)
                            + VideoBytes(videos)
              /\ OwnedBytes(owned) \in Nat /\ ImageBytes(Media, images) \in Nat
            BY <1>1, LiveNow
        <3> QED BY <2>5, <3>1
    <2>7. Effect(rec, r, OkVerdict, SaturatingSub(SaturatingSub(a + b + c, b), d))
        BY <1>2, <2>2, <2>5, <2>6, ReleaseAllEffect
    <2>8. d <= c
        BY <2>5, <2>6
    <2>9. r.live = a + (c - d)
        <3>1. SaturatingSub(SaturatingSub(a + b + c, b), d) = a + (c - d)
            BY <2>8 DEF SaturatingSub
        <3> QED BY <2>7, <3>1 DEF Effect
    <2>10. IF UncollectedVideos' = {} THEN r.live = a ELSE r.live > a
        <3>1. UncollectedVideos' = {} <=> d = c
            BY <2>5, <2>6
        <3> QED BY <2>8, <2>9, <3>1
    <2>11. Quiet(rec, r) /\ SameOutputs(rec, r)
        BY <2>7 DEF Effect
    <2> QED BY <1>1, <2>3, <2>6, <2>10, <2>11, FailPlanKeeps DEF Planning
<1>4. CASE errors = <<>>
    <2>1. /\ Closed(rec, OkVerdict) /\ cursor' = 1
          /\ phase' = IF call.entry = "plan" THEN "planned" ELSE "allocate"
          /\ UNCHANGED <<images, videos, answer>>
        BY <1>4 DEF CollectVideos, Goto
    <2>2. open # <<>> /\ Quiet(rec, rec)
        <3>1. open # <<>>
            BY <1>2
        <3> QED BY <1>2, <3>1, NoEffect DEF Effect
    <2>3. OkVerdict \in Refusals \cup {OkVerdict}
        OBVIOUS
    <2>4. /\ Good(rec') /\ rec'.capacity = rec.capacity /\ StackOf(rec', open')
          /\ Len(open') = Len(open) - 1 /\ rec'.live = rec.live
          /\ SameOutputs(rec, rec')
          /\ NothingFailed(rec) => NothingFailed(rec')
        BY <1>2, <2>1, <2>2, <2>3, ClosedIs
    <2>5. Typed'
        BY <1>1, <2>1 DEF IInv, Typed, Phases, Occurrences, Media
    <2>6. Books'
        BY <1>1, <1>2, <2>1, <2>4 DEF IInv, Books, Depth, Planning, Outer
    <2>7. Course' /\ Listed'
        BY <1>1, <1>4, <2>1 DEF Course, Listed, ErrorsIn
    <2>8. Held'
        <3>1. LiveIsHeld'
            BY <1>1, <2>1, <2>4, HeldQuietly
        <3> QED BY <1>1, <2>1, <3>1 DEF IInv, Held
    <2>9. Answered'
        <3>1. Unanswered \notin Refusals \cup {OkVerdict}
            BY VerdictsAreKnown
        <3>2. answer = Unanswered /\ (answer \notin Refusals => NothingFailed(rec))
            BY <1>1, <1>4 DEF IInv, Answered
        <3>3. NothingFailed(rec')
            BY <2>4, <3>1, <3>2
        <3>4. answer' = Unanswered /\ phase' \in {"planned", "allocate"}
            BY <2>1, <3>2
        <3> QED BY <3>1, <3>3, <3>4 DEF Answered, NothingFailed
    <2>10. Kept'
        BY <1>1, <2>1, <2>4, KeptQuietly
    <2> QED BY <2>5, <2>6, <2>7, <2>8, <2>9, <2>10 DEF IInv
<1> QED BY <1>3, <1>4

-------------------------------------------------------------------------------
(* Destinations                                                               *)

(* The allocation of the destinations retains all of them, or as many as      *)
(* there were before the one that failed.                                     *)
LEMMA AllocationSpanEffect ==
    ASSUME NEW r, Good(r), call \in Calls, NEW verdict \in Refusals \cup {OkVerdict},
           NEW s, s = Finish(AllocateOutputs(Begin(r, "destination.allocate", CallScope)),
                             NextToken(r), verdict)
    PROVE  /\ Quiet(r, s) /\ Ends(r, s, verdict) /\ s.live = r.live
           /\ ~AllocateFails => s.retained = r.retained + OutputBytes
<1>1. PICK stage \in Stages : stage = "destination.allocate"
    BY DEF Stages
<1>2. PICK scope \in Scopes : scope = CallScope
    BY ScopesAreKnown
<1>3. PICK b : b = Begin(r, stage, scope)
    OBVIOUS
<1>4. Good(b) /\ SameOutputs(r, b) /\ b.live = r.live
    BY <1>3, BeginOpens
<1>5. PICK t : t = AllocateOutputs(b)
    OBVIOUS
<1>6. /\ Quiet(b, t) /\ Clean(b, t) /\ t.live = b.live
      /\ ~AllocateFails => t.retained = b.retained + OutputBytes
    BY <1>4, <1>5, AllocateOutputsEffect DEF OutputBytes
<1>7. s = Finish(t, NextToken(r), verdict)
    BY <1>1, <1>2, <1>3, <1>5
<1>8. /\ Quiet(r, s) /\ Ends(r, s, verdict) /\ SameOutputs(t, s) /\ s.live = t.live
    BY <1>3, <1>6, <1>7, WithinAQuietSpan
<1> QED BY <1>4, <1>6, <1>8 DEF SameOutputs

(* What is left in the recorder when the plan is dropped.                     *)
LEMMA DropObservedEffect ==
    ASSUME IInv, phase \notin {"unwind", "done"}, NEW r, Good(r), r.live = rec.live
    PROVE  /\ Effect(r, DropObserved(r), OkVerdict, OwnedBytes(owned))
           /\ OwnedBytes(owned) \in Nat
<1>1. /\ call \in Calls /\ images \in Seq(Occurrences) /\ videos \in Seq(Occurrences)
    <2>1. images \in Seq(Occurrences) /\ videos \in Seq(VideosOf(call)) /\ call \in Calls
        BY Spaces DEF IInv, Typed
    <2>2. VideosOf(call) \subseteq Occurrences
        BY <2>1, CallsAreTyped
    <2> QED BY <2>1, <2>2
<1>2. PICK a \in Nat, b \in Nat, c \in Nat :
          /\ a = OwnedBytes(owned) /\ b = ImageBytes(Media, images)
          /\ c = VideoBytes(videos) /\ r.live = a + b + c
    BY LiveNow
<1>3. Effect(r, DropObserved(r), OkVerdict,
             SaturatingSub(SaturatingSub(a + b + c, b), c))
    BY <1>1, <1>2, ReleaseAllEffect DEF DropObserved
<1>4. SaturatingSub(SaturatingSub(a + b + c, b), c) = a
    BY GiveAllBack
<1> QED BY <1>2, <1>3, <1>4

(* The destinations are all retained, or all discarded with the plan.         *)
LEMMA AllocateDestinationsKeeps ==
    ASSUME IInv, AllocateDestinations
    PROVE  IInv'
<1>1. /\ phase = "allocate" /\ UNCHANGED <<call, errors, owned, open>>
    BY DEF AllocateDestinations
<1>2. /\ call \in Calls /\ Good(rec) /\ call.entry # "plan" /\ errors = <<>>
      /\ answer = Unanswered /\ answer \notin Refusals /\ answer # OkVerdict
      /\ NothingFailed(rec) /\ rec.retained = 0 /\ Outputless(rec)
      /\ images \in Seq(Occurrences) /\ videos \in Seq(VideosOf(call))
    <2>1. answer = Unanswered /\ errors = <<>> /\ call.entry # "plan"
        BY <1>1 DEF IInv, Answered, Listed, Course
    <2>2. answer \notin Refusals /\ answer # OkVerdict
        BY <2>1, VerdictsAreKnown
    <2>3. NothingFailed(rec)
        BY <2>1, <2>2 DEF IInv, Answered
    <2>4. rec.retained = 0 /\ Outputless(rec)
        BY <1>1, <2>2 DEF IInv, Kept
    <2> QED BY <2>1, <2>2, <2>3, <2>4, Spaces DEF IInv, Typed
<1>3. CASE AllocateFails
    <2>1. PICK category \in Refusals : category = AllocationCategory
        <3>1. "ResourceLimit" \in Verdicts \ {OkVerdict} /\ "memory_error" \in Refusals
            BY VerdictsAreKnown DEF Verdicts, Categories, OkVerdict
        <3> QED BY <3>1, VerdictsAreKnown DEF AllocationCategory
    <2>2. PICK s : s = Finish(AllocateOutputs(Begin(rec, "destination.allocate",
                                                    CallScope)),
                              NextToken(rec), category)
        OBVIOUS
    <2>3. /\ rec' = DropObserved(DiscardRetainedOutputs(s))
          /\ images' = <<>> /\ videos' = <<>> /\ answer' = category
          /\ phase' = "unwind" /\ cursor' = 1
        BY <1>3, <2>1, <2>2 DEF AllocateDestinations, AbandonPlan, DropPlan, Goto
    <2>4. category \in Refusals \cup {OkVerdict} /\ category # OkVerdict
        BY VerdictsAreKnown
    <2>5. Quiet(rec, s) /\ s.outcome = "Error" /\ s.category = category
          /\ s.live = rec.live
        BY <1>2, <2>2, <2>4, AllocationSpanEffect DEF Ends
    <2>6. PICK u : u = DiscardRetainedOutputs(s)
        OBVIOUS
    <2>7. /\ Quiet(s, u) /\ Clean(s, u) /\ u.live = s.live
          /\ u.retained = 0 /\ Outputless(u)
        BY <2>5, <2>6, DiscardIsRecorded DEF Quiet
    <2>8. Effect(u, rec', OkVerdict, OwnedBytes(owned)) /\ OwnedBytes(owned) \in Nat
        BY <1>1, <2>3, <2>5, <2>6, <2>7, DropObservedEffect DEF Quiet
    <2>9. /\ Quiet(rec, rec') /\ rec'.live = OwnedBytes(owned)
          /\ rec'.outcome = "Error" /\ rec'.category = category
          /\ rec'.retained = 0 /\ Outputless(rec')
        <3>1. /\ Quiet(u, rec') /\ Clean(u, rec') /\ SameOutputs(u, rec')
              /\ rec'.live = OwnedBytes(owned)
            BY <2>8 DEF Effect, Ends
        <3>2. Quiet(rec, u)
            BY <1>2, <2>5, <2>7, QuietQuiet
        <3>3. Quiet(rec, rec')
            BY <1>2, <3>1, <3>2, QuietQuiet
        <3> QED BY <2>5, <2>7, <3>1, <3>3 DEF Clean, SameOutputs
    <2>10. Typed'
        BY <1>1, <1>2, <2>3 DEF IInv, Typed, Phases, Occurrences, Media
    <2>11. Books'
        <3>1. Depth' = Depth
            BY <1>1, <2>3 DEF Depth, Planning, Outer
        <3> QED BY <1>1, <2>9, <3>1, BooksQuietly
    <2>12. Course' /\ Listed'
        BY <1>1, <2>3 DEF Course, Listed
    <2>13. Held'
        <3>1. HeldBytes' = OwnedBytes(owned') + ImageBytes(Media', images')
                           + VideoBytes(videos')
            BY Zenon DEF HeldBytes, OwnedBytes, ImageBytes, VideoBytes
        <3>2. ImageBytes(Media', images') = 0 /\ VideoBytes(videos') = 0
            BY <2>3, NothingHeld
        <3>3. OwnedBytes(owned') = OwnedBytes(owned)
            BY <1>1
        <3>4. HeldBytes' = OwnedBytes(owned)
            BY <2>8, <3>1, <3>2, <3>3
        <3>5. UncollectedVideos' = {}
            BY <1>1, <1>2 DEF UncollectedVideos, ErrorsIn
        <3>6. LiveIsHeld'
            BY <2>9, <3>4, <3>5 DEF LiveIsHeld
        <3>7. owned' # <<>> => call'.entry = "binding"
            BY <1>1 DEF IInv, Held
        <3> QED BY <2>3, <3>6, <3>7 DEF Held
    <2>14. Answered'
        BY <2>3, <2>4, <2>9 DEF Answered, Swept
    <2>15. Kept'
        BY <2>3, <2>9 DEF Kept
    <2> QED BY <2>10, <2>11, <2>12, <2>13, <2>14, <2>15 DEF IInv
<1>4. CASE ~AllocateFails
    <2>1. PICK v \in Refusals \cup {OkVerdict} : v = OkVerdict
        OBVIOUS
    <2>2. /\ rec' = Finish(AllocateOutputs(Begin(rec, "destination.allocate",
                                                 CallScope)),
                           NextToken(rec), v)
          /\ phase' = "execute" /\ cursor' = 1 /\ UNCHANGED <<images, videos, answer>>
        BY <1>4, <2>1, Zenon DEF AllocateDestinations, Goto
    <2>3. /\ Quiet(rec, rec') /\ Ends(rec, rec', v) /\ rec'.live = rec.live
          /\ rec'.retained = rec.retained + OutputBytes
        BY <1>2, <1>4, <2>2, AllocationSpanEffect
    <2>4. Clean(rec, rec')
        BY <2>1, <2>3 DEF Ends
    <2>5. Typed'
        BY <1>1, <1>2, <2>2 DEF IInv, Typed, Phases, Occurrences, Media
    <2>6. Books'
        <3>1. Depth' = Depth
            BY <1>1, <2>2 DEF Depth, Planning, Outer
        <3> QED BY <1>1, <2>3, <3>1, BooksQuietly
    <2>7. Course' /\ Listed'
        BY <1>1, <1>2, <2>2 DEF Course, Listed, ErrorsIn
    <2>8. Held'
        <3>1. LiveIsHeld'
            BY <1>1, <2>2, <2>3, HeldQuietly
        <3> QED BY <1>1, <2>2, <3>1 DEF IInv, Held
    <2>9. Answered'
        BY <1>1, <1>2, <2>2, <2>3, <2>4, AnsweredQuietly
    <2>10. Kept'
        <3>1. OutputBytes' = OutputBytes /\ OutputBytes \in Nat
            <4>1. OutputBytes' = OutputBytes
                BY <1>1 DEF OutputBytes, Outputs
            <4>2. OutputBytes \in Nat
                BY OutputsAreNamed, BytesAreNatural DEF OutputBytes
            <4> QED BY <4>1, <4>2
        <3>2. rec'.retained = OutputBytes
            BY <1>2, <2>3, <3>1
        <3> QED BY <1>1, <1>2, <2>2, <3>1, <3>2 DEF Kept
    <2> QED BY <2>5, <2>6, <2>7, <2>8, <2>9, <2>10 DEF IInv
<1> QED BY <1>3, <1>4

(* An execution of the plan records it and changes nothing that is held.      *)
LEMMA ExecutedKeeps ==
    ASSUME IInv, phase \in {"execute", "planned"},
           NEW v \in {OkVerdict, "DestinationTooSmall"}, phase = "execute" => v = OkVerdict,
           Effect(rec, rec', v, rec.live), phase' = "drop", cursor' = 1,
           UNCHANGED <<call, errors, owned, images, videos, open>>,
           answer' = IF phase = "execute" THEN answer ELSE v
    PROVE  IInv'
<1>1. /\ call \in Calls /\ Good(rec) /\ errors = <<>>
      /\ phase = "planned" <=> call.entry = "plan"
      /\ answer = Unanswered /\ NothingFailed(rec)
    <2>1. Unanswered \notin Refusals \cup {OkVerdict}
        BY VerdictsAreKnown
    <2>2. /\ answer = Unanswered /\ errors = <<>>
          /\ phase = "planned" <=> call.entry = "plan"
        BY DEF IInv, Answered, Listed, Course
    <2>3. NothingFailed(rec)
        BY <2>1, <2>2 DEF IInv, Answered
    <2> QED BY <2>2, <2>3, Spaces
<1>2. Quiet(rec, rec') /\ Ends(rec, rec', v) /\ SameOutputs(rec, rec')
      /\ rec'.live = rec.live
    BY DEF Effect
<1>3. Typed'
    BY DEF IInv, Typed, Phases, Occurrences, Media
<1>4. Books'
    <2>1. Depth' = Depth
        BY DEF Depth, Planning, Outer
    <2> QED BY <1>2, <2>1, BooksQuietly
<1>5. Course' /\ Listed'
    BY <1>1 DEF Course, Listed, ErrorsIn
<1>6. Held'
    <2>1. LiveIsHeld'
        BY <1>2, HeldQuietly
    <2> QED BY <2>1 DEF IInv, Held
<1>7. Answered'
    <2>1. CASE v = OkVerdict
        <3>1. NothingFailed(rec')
            BY <1>1, <1>2, <2>1, StillNothingFailed DEF Ends
        <3>2. answer' = IF call.entry = "plan" THEN OkVerdict ELSE Unanswered
            BY <1>1, <2>1
        <3> QED BY <1>1, <3>1, <3>2, VerdictsAreKnown
                DEF Answered, Swept, NothingFailed
    <2>2. CASE v # OkVerdict
        <3>1. v = "DestinationTooSmall" /\ v \in Refusals
            BY <2>2 DEF Refusals, Categories
        <3>2. answer' = v /\ call.entry = "plan"
            BY <1>1, <2>2
        <3>3. rec'.outcome = "Error" /\ rec'.category = v
            BY <1>2, <2>2 DEF Ends
        <3> QED BY <2>2, <3>1, <3>2, <3>3 DEF Answered, Swept
    <2> QED BY <2>1, <2>2
<1>8. Kept'
    <2>1. OutputBytes' = OutputBytes
        BY DEF OutputBytes, Outputs
    <2>2. CASE call.entry # "plan"
        BY <1>1, <1>2, <2>1, <2>2 DEF IInv, Kept, SameOutputs
    <2>3. CASE call.entry = "plan"
        BY <1>2, <2>3 DEF IInv, Kept, SameOutputs
    <2> QED BY <2>2, <2>3
<1> QED BY <1>3, <1>4, <1>5, <1>6, <1>7, <1>8 DEF IInv

(* Executing the plan into its destinations changes nothing held.             *)
LEMMA ExecutePlanKeeps ==
    ASSUME IInv, ExecutePlan
    PROVE  IInv'
<1>1. /\ phase = "execute" /\ rec' = ExecuteInto(rec, OkVerdict) /\ phase' = "drop"
      /\ cursor' = 1 /\ UNCHANGED <<call, errors, owned, images, videos, open, answer>>
    BY DEF ExecutePlan, Goto
<1>2. call \in Calls /\ Good(rec) /\ images \in Seq(Occurrences)
      /\ videos \in Seq(Occurrences)
    <2>1. call \in Calls /\ Good(rec) /\ videos \in Seq(VideosOf(call))
          /\ images \in Seq(Occurrences)
        BY Spaces DEF IInv, Typed
    <2> QED BY <2>1, CallsAreTyped
<1>3. PICK v \in {OkVerdict, "DestinationTooSmall"} : v = OkVerdict /\ v \in Verdicts
    BY DEF Verdicts
<1>4. Effect(rec, rec', v, rec.live)
    BY <1>1, <1>2, <1>3, ExecuteIntoEffect
<1> QED BY <1>1, <1>3, <1>4, ExecutedKeeps

(* Nor does a caller who executes it into destinations of his own.            *)
LEMMA CallerExecutesKeeps ==
    ASSUME IInv, CallerExecutes
    PROVE  IInv'
<1>1. PICK v \in {OkVerdict, "DestinationTooSmall"} :
          rec' = ExecuteInto(rec, v) /\ answer' = v
    BY DEF CallerExecutes
<1>2. /\ phase = "planned" /\ phase' = "drop" /\ cursor' = 1
      /\ UNCHANGED <<call, errors, owned, images, videos, open>>
    BY DEF CallerExecutes, Goto
<1>3. call \in Calls /\ Good(rec) /\ images \in Seq(Occurrences)
      /\ videos \in Seq(Occurrences)
    <2>1. call \in Calls /\ Good(rec) /\ videos \in Seq(VideosOf(call))
          /\ images \in Seq(Occurrences)
        BY Spaces DEF IInv, Typed
    <2> QED BY <2>1, CallsAreTyped
<1>4. v \in Verdicts
    BY DEF Verdicts, Categories
<1>5. Effect(rec, rec', v, rec.live)
    BY <1>1, <1>3, <1>4, ExecuteIntoEffect
<1> QED BY <1>1, <1>2, <1>5, ExecutedKeeps

(* Nor one who does not execute it.                                           *)
LEMMA CallerDropsKeeps ==
    ASSUME IInv, CallerDrops
    PROVE  IInv'
<1>1. /\ phase = "planned" /\ answer' = OkVerdict /\ phase' = "drop" /\ cursor' = 1
      /\ UNCHANGED <<call, errors, owned, images, videos, rec, open>>
    BY DEF CallerDrops, Goto
<1>2. PICK v \in {OkVerdict, "DestinationTooSmall"} : v = OkVerdict
    OBVIOUS
<1>3. Effect(rec, rec', v, rec.live)
    BY <1>1, <1>2, Spaces, NoEffect
<1> QED BY <1>1, <1>2, <1>3, ExecutedKeeps

(* The plan is dropped by a call that goes on or that returns without a span  *)
(* of its own.                                                                *)
LEMMA DroppedKeeps ==
    ASSUME IInv, phase = "drop", call.entry # "envelope",
           rec' = DropObserved(rec), images' = <<>>, videos' = <<>>, cursor' = 1,
           phase' = IF call.entry = "binding" THEN "materialize" ELSE "done",
           answer' = IF call.entry = "observer" THEN OkVerdict ELSE answer,
           UNCHANGED <<call, errors, owned, open>>
    PROVE  IInv'
<1>1. /\ call \in Calls /\ Good(rec) /\ errors = <<>>
      /\ call.entry \in {"plan", "observer", "binding"}
    <2>1. call \in Calls /\ Good(rec)
        BY Spaces
    <2> QED BY <2>1, CallsAreTyped DEF IInv, Listed
<1>2. Effect(rec, rec', OkVerdict, OwnedBytes(owned)) /\ OwnedBytes(owned) \in Nat
    BY <1>1, DropObservedEffect
<1>3. /\ Quiet(rec, rec') /\ Clean(rec, rec') /\ SameOutputs(rec, rec')
      /\ rec'.live = OwnedBytes(owned)
    BY <1>2 DEF Effect, Ends
<1>4. Typed'
    BY DEF IInv, Typed, Phases, Occurrences, Media
<1>5. Books'
    <2>1. Depth' = Depth
        BY <1>1 DEF Depth, Planning, Outer
    <2> QED BY <1>3, <2>1, BooksQuietly
<1>6. Course' /\ Listed'
    BY <1>1 DEF Course, Listed, ErrorsIn
<1>7. Held'
    <2>1. HeldBytes' = OwnedBytes(owned') + ImageBytes(Media, images')
                       + VideoBytes(videos')
        BY Zenon DEF HeldBytes, OwnedBytes, ImageBytes, VideoBytes, Media
    <2>2. ImageBytes(Media, images') = 0 /\ VideoBytes(videos') = 0
        BY NothingHeld
    <2>3. HeldBytes' = OwnedBytes(owned)
        BY <1>2, <2>1, <2>2
    <2>4. UncollectedVideos' = {}
        BY <1>1 DEF UncollectedVideos, ErrorsIn
    <2>5. LiveIsHeld'
        BY <1>3, <2>3, <2>4 DEF LiveIsHeld
    <2>6. owned' # <<>> => call'.entry = "binding"
        BY DEF IInv, Held
    <2>7. owned' # <<>> => phase' = "materialize"
        BY <2>6
    <2> QED BY <2>5, <2>6, <2>7 DEF Held
<1>8. Answered'
    <2>1. /\ answer \in IF call.entry = "plan" THEN {OkVerdict, "DestinationTooSmall"}
                        ELSE {Unanswered}
          /\ IF answer \in Refusals THEN rec.outcome = "Error" /\ rec.category = answer
             ELSE NothingFailed(rec)
        BY <1>1 DEF IInv, Answered
    <2>2. Unanswered \notin Refusals \cup {OkVerdict} /\ OkVerdict \notin Refusals
          /\ "DestinationTooSmall" \in Refusals
        BY VerdictsAreKnown DEF Refusals, Categories
    <2>3. NothingFailed(rec) => NothingFailed(rec')
        BY <1>1, <1>3, StillNothingFailed
    <2>4. rec'.outcome = rec.outcome /\ rec'.category = rec.category
        BY <1>3 DEF Clean
    <2>5. answer \in Refusals <=> answer' \in Refusals
        BY <1>1, <2>1, <2>2
    <2>6. IF answer' \in Refusals THEN rec'.outcome = "Error" /\ rec'.category = answer'
          ELSE NothingFailed(rec')
        BY <1>1, <2>1, <2>2, <2>3, <2>4, <2>5
    <2>7. ~Swept' \/ phase' # "done"
        BY <1>1 DEF Swept
    <2>8. phase' = "done" => answer' \in Refusals \cup {OkVerdict}
        BY <1>1, <2>1, <2>2
    <2>9. phase' # "done" => answer' = Unanswered
        BY <1>1, <2>1
    <2>10. ~Swept'
        BY <1>1 DEF Swept
    <2> QED BY <1>1, <2>6, <2>8, <2>9, <2>10 DEF Answered, NothingFailed
<1>9. Kept'
    <2>1. OutputBytes' = OutputBytes
        BY DEF OutputBytes, Outputs
    <2>2. CASE call.entry = "plan"
        BY <1>3, <2>2 DEF IInv, Kept, SameOutputs
    <2>3. CASE call.entry # "plan"
        BY <1>1, <1>3, <2>1, <2>3 DEF IInv, Kept, SameOutputs
    <2> QED BY <2>2, <2>3
<1> QED BY <1>4, <1>5, <1>6, <1>7, <1>8, <1>9 DEF IInv

(* The plan is dropped before the call returns, or before its outputs become  *)
(* arrays.                                                                    *)
LEMMA ReturnAndDropPlanKeeps ==
    ASSUME IInv, ReturnAndDropPlan
    PROVE  IInv'
<1>1. phase = "drop" /\ UNCHANGED <<call, errors, owned>>
    BY DEF ReturnAndDropPlan
<1>2. call \in Calls /\ Good(rec)
    BY Spaces
<1>3. call.entry \in {"plan", "observer", "envelope", "binding"}
    BY <1>2, CallsAreTyped
<1>4. CASE call.entry = "envelope"
    <2>1. PICK r : r = DropObserved(rec)
        OBVIOUS
    <2>2. /\ Closed(r, OkVerdict) /\ images' = <<>> /\ videos' = <<>>
          /\ answer' = OkVerdict /\ Goto("done")
        BY <1>4, <2>1, Zenon DEF ReturnAndDropPlan
    <2>3. owned = <<>> /\ OwnedBytes(owned) = 0
        BY <1>4, NothingHeld DEF IInv, Held
    <2>4. Effect(rec, r, OkVerdict, 0)
        BY <1>1, <1>2, <2>1, <2>3, DropObservedEffect
    <2>5. /\ Quiet(rec, r) /\ Clean(rec, r) /\ SameOutputs(rec, r) /\ r.live = 0
        BY <2>4 DEF Effect, Ends
    <2>6. errors = <<>> /\ answer = Unanswered /\ rec.retained = OutputBytes
        BY <1>1, <1>4 DEF IInv, Listed, Answered, Kept
    <2>7. NothingFailed(rec)
        BY <2>6, VerdictsAreKnown DEF IInv, Answered
    <2>8. NothingFailed(r) /\ r.retained = OutputBytes
        BY <1>2, <2>5, <2>6, <2>7, StillNothingFailed DEF SameOutputs
    <2>9. Outer = 1 /\ owned' = <<>>
        BY <1>1, <1>4, <2>3 DEF Outer
    <2>10. PICK verdict \in Refusals \cup {OkVerdict} : verdict = OkVerdict
        OBVIOUS
    <2> QED BY <1>1, <2>2, <2>5, <2>6, <2>8, <2>9, <2>10, ReturnKeeps
<1>5. CASE call.entry # "envelope"
    <2>1. /\ rec' = DropObserved(rec) /\ images' = <<>> /\ videos' = <<>>
          /\ cursor' = 1 /\ open' = open
          /\ phase' = IF call.entry = "binding" THEN "materialize" ELSE "done"
          /\ answer' = IF call.entry = "observer" THEN OkVerdict ELSE answer
        BY <1>3, <1>5, Zenon DEF ReturnAndDropPlan, DropPlan, Goto
    <2> QED BY <1>1, <1>5, <2>1, DroppedKeeps
<1> QED BY <1>4, <1>5

-------------------------------------------------------------------------------
(* Return                                                                     *)

(* A failed call gives back what it owned on its way out.                     *)
LEMMA UnwindKeeps ==
    ASSUME IInv, Unwind
    PROVE  IInv'
<1>1. /\ phase = "unwind" /\ owned' = <<>> /\ Goto("done")
      /\ phase' = "done" /\ cursor' = 1
      /\ UNCHANGED <<call, errors, images, videos, answer>>
    BY DEF Unwind, Goto
<1>2. /\ call \in Calls /\ Good(rec) /\ owned \in Seq(Nat)
      /\ images = <<>> /\ videos = <<>>
      /\ answer \in Refusals /\ answer # OkVerdict
    <2>1. owned \in Seq(Nat) /\ images = <<>> /\ videos = <<>> /\ answer \in Refusals
        BY <1>1 DEF IInv, Typed, Held, Answered
    <2> QED BY <2>1, Spaces, VerdictsAreKnown
<1>3. call.entry \in {"plan", "observer", "envelope", "binding"}
    BY <1>2, CallsAreTyped
<1>4. CASE call.entry \in {"envelope", "binding"}
    <2>1. PICK d : /\ d = IF call.entry = "binding" THEN DropOwnedMedia(rec) ELSE rec
                   /\ Good(d) /\ Quiet(rec, d)
        <3>1. Quiet(rec, rec) /\ Good(rec)
            BY <1>2, NoEffect DEF Effect
        <3>2. Effect(rec, DropOwnedMedia(rec), OkVerdict, 0)
            BY <1>2, DropOwnedMediaEffect
        <3>3. Quiet(rec, DropOwnedMedia(rec)) /\ Good(DropOwnedMedia(rec))
            BY <3>2 DEF Effect, Quiet
        <3> QED BY <3>1, <3>3
    <2>2. PICK r : r = Contained(d)
        OBVIOUS
    <2>3. Quiet(d, r) /\ r.live = 0 /\ r.retained = 0 /\ Outputless(r)
        BY <2>1, <2>2, ContainedEffect DEF Contained
    <2>4. Quiet(rec, r)
        BY <1>2, <2>1, <2>3, QuietQuiet
    <2>5. Closed(r, answer)
        <3>1. CASE call.entry = "envelope"
            BY <2>1, <2>2, <3>1, Zenon DEF Unwind
        <3>2. CASE call.entry = "binding"
            BY <2>1, <2>2, <3>2, Zenon DEF Unwind
        <3> QED BY <1>4, <3>1, <3>2
    <2>6. PICK verdict \in Refusals \cup {OkVerdict} :
              verdict = answer /\ verdict # OkVerdict
        BY <1>2
    <2>7. Outer = 1
        BY <1>4 DEF Outer
    <2> QED BY <1>1, <1>2, <2>3, <2>4, <2>5, <2>6, <2>7, ReturnKeeps
<1>5. CASE call.entry \in {"plan", "observer"}
    <2>1. UNCHANGED <<rec, open>>
        BY <1>3, <1>5 DEF Unwind
    <2>2. owned = <<>>
        BY <1>5 DEF IInv, Held
    <2>3. Typed'
        BY <1>1, <1>2, <2>1 DEF IInv, Typed, Phases, Occurrences, Media
    <2>4. Books'
        <3>1. Depth' = Depth
            BY <1>1, <1>5 DEF Depth, Planning, Outer
        <3>2. Quiet(rec, rec')
            BY <2>1, QuietlyTheSame
        <3> QED BY <1>1, <2>1, <3>1, <3>2, BooksQuietly
    <2>5. Course' /\ Listed'
        BY <1>1, <1>5 DEF Course, Listed
    <2>6. Held'
        <3>1. UncollectedVideos' = UncollectedVideos
            BY <1>1 DEF UncollectedVideos, Media
        <3>2. HeldBytes' = HeldBytes
            BY <1>1, <2>2, Zenon DEF HeldBytes, Media
        <3>3. LiveIsHeld'
            BY <1>1, <1>5, <2>1, <3>1, <3>2 DEF IInv, Held, LiveIsHeld, Swept
        <3> QED BY <1>1, <1>2, <3>3 DEF Held
    <2>7. Answered'
        BY <1>1, <1>2, <1>5, <2>1 DEF IInv, Answered, Swept
    <2>8. Kept'
        BY <1>1, <1>2, <2>1 DEF IInv, Kept
    <2> QED BY <2>3, <2>4, <2>5, <2>6, <2>7, <2>8 DEF IInv
<1> QED BY <1>3, <1>4, <1>5

(* The outputs become arrays, or are discarded with what was live.            *)
LEMMA MaterializeKeeps ==
    ASSUME IInv, Materialize
    PROVE  IInv'
<1>1. /\ phase = "materialize" /\ owned' = <<>> /\ Goto("done")
      /\ UNCHANGED <<call, errors, images, videos>>
    BY DEF Materialize
<1>2. /\ call \in Calls /\ Good(rec) /\ owned \in Seq(Nat) /\ call.entry = "binding"
      /\ images = <<>> /\ videos = <<>> /\ errors = <<>> /\ answer = Unanswered
      /\ rec.retained = OutputBytes
    BY <1>1, Spaces DEF IInv, Typed, Course, Held, Listed, Answered, Kept
<1>3. NothingFailed(rec)
    BY <1>2, VerdictsAreKnown DEF IInv, Answered
<1>4. PICK verdict \in Refusals \cup {OkVerdict} : verdict = call.convert
    BY <1>2, CallsAreTyped, VerdictsAreKnown
<1>5. PICK d : d = DropOwnedMedia(rec) /\ Effect(rec, d, OkVerdict, 0)
    BY <1>2, DropOwnedMediaEffect
<1>6. Good(d) /\ d.live = 0
    BY <1>5 DEF Effect, Quiet
<1>7. PICK stage \in Stages : stage = "binding.numpy.materialize"
    BY DEF Stages
<1>8. PICK scope \in Scopes : scope = CallScope
    BY ScopesAreKnown
<1>9. PICK s : s = Spanned(d, stage, scope, verdict)
    OBVIOUS
<1>10. Effect(d, s, verdict, 0)
    BY <1>6, <1>9, SpannedHasItsVerdict
<1>11. Effect(rec, s, verdict, 0)
    BY <1>2, <1>5, <1>10, ThenAnother
<1>12. /\ Good(s) /\ Quiet(rec, s) /\ SameOutputs(rec, s) /\ s.live = 0
       /\ verdict = OkVerdict => Clean(rec, s)
    BY <1>11 DEF Effect, Ends, Quiet
<1>13. /\ answer' = verdict
       /\ IF verdict = OkVerdict THEN Closed(s, OkVerdict)
          ELSE Closed(Contained(s), verdict)
    BY <1>4, <1>5, <1>7, <1>8, <1>9, Zenon DEF Materialize
<1>14. Outer = 1
    BY <1>2 DEF Outer
<1>15. PICK r : r = IF verdict = OkVerdict THEN s ELSE Contained(s)
    OBVIOUS
<1>16. Closed(r, verdict)
    BY <1>13, <1>15
<1>17. CASE verdict = OkVerdict
    <2>1. r = s /\ NothingFailed(r) /\ r.retained = OutputBytes
        BY <1>2, <1>3, <1>12, <1>15, <1>17, StillNothingFailed DEF SameOutputs
    <2> QED BY <1>1, <1>2, <1>12, <1>13, <1>14, <1>16, <1>17, <2>1, ReturnKeeps
<1>18. CASE verdict # OkVerdict
    <2>1. Quiet(s, r) /\ r.live = 0 /\ r.retained = 0 /\ Outputless(r)
        BY <1>12, <1>15, <1>18, ContainedEffect DEF Contained
    <2>2. Quiet(rec, r)
        BY <1>2, <1>12, <2>1, QuietQuiet
    <2> QED BY <1>1, <1>2, <1>13, <1>14, <1>16, <1>18, <2>1, <2>2, ReturnKeeps
<1> QED BY <1>17, <1>18

(* The invariant is about the variables of a call alone.                      *)
LEMMA StutterKeeps ==
    ASSUME IInv, UNCHANGED vars
    PROVE  IInv'
<1>1. UNCHANGED <<call, phase, cursor, errors, owned, images, videos, rec, open, answer>>
    BY DEF vars
<1>2. Typed' /\ Course'
    BY <1>1 DEF IInv, Typed, Course, Occurrences, Media
<1>3. Books'
    <2>1. Depth' = Depth
        BY <1>1 DEF Depth, Outer
    <2> QED BY <1>1, <2>1, QuietlyTheSame, BooksQuietly
<1>4. Listed'
    <2>1. Occurrences' = Occurrences /\ Media' = Media /\ \A e : Late(e)' <=> Late(e)
        BY <1>1 DEF Occurrences, Media, Late
    <2> QED BY <1>1, <2>1 DEF IInv, Listed
<1>5. Held'
    <2>1. HeldBytes' = HeldBytes
        BY <1>1, Zenon DEF HeldBytes, Media
    <2>2. UncollectedVideos' = UncollectedVideos
        BY <1>1 DEF UncollectedVideos, Media
    <2>3. Swept' <=> Swept
        BY <1>1 DEF Swept
    <2>4. LiveIsHeld'
        BY <1>1, <2>1, <2>2, <2>3 DEF IInv, Held, LiveIsHeld
    <2> QED BY <1>1, <2>4 DEF IInv, Held
<1>6. Answered'
    BY <1>1 DEF IInv, Answered, Swept, NothingFailed
<1>7. Kept'
    BY <1>1 DEF IInv, Kept, OutputBytes, Outputs, Outputless
<1> QED BY <1>2, <1>3, <1>4, <1>5, <1>6, <1>7 DEF IInv

-------------------------------------------------------------------------------
(* The properties                                                             *)

(* Every step of a call keeps the invariant.                                  *)
LEMMA NextKeeps ==
    ASSUME IInv, [Next]_vars
    PROVE  IInv'
<1>1. CASE EnterCall
    BY <1>1, EnterCallKeeps
<1>2. CASE ParseRequests
    BY <1>2, ParseRequestsKeeps
<1>3. CASE OpenPlan
    BY <1>3, OpenPlanKeeps
<1>4. CASE RejectEmptyBatch
    BY <1>4, RejectEmptyBatchKeeps
<1>5. CASE ValidateAndRender
    BY <1>5, ValidateAndRenderKeeps
<1>6. CASE Preflight
    BY <1>6, PreflightKeeps
<1>7. CASE PlanOccurrence
    BY <1>7, PlanOccurrenceKeeps
<1>8. CASE EndTraversal
    BY <1>8, EndTraversalKeeps
<1>9. CASE Triage
    BY <1>9, TriageKeeps
<1>10. CASE SalvageImage
    BY <1>10, SalvageImageKeeps
<1>11. CASE FinishSalvage
    BY <1>11, FinishSalvageKeeps
<1>12. CASE TokenizeRequest
    BY <1>12, TokenizeRequestKeeps
<1>13. CASE CheckTextLimits
    BY <1>13, CheckTextLimitsKeeps
<1>14. CASE ExecutePlannedImage
    BY <1>14, ExecutePlannedImageKeeps
<1>15. CASE FinishImages
    BY <1>15, FinishImagesKeeps
<1>16. CASE ExecuteVideo
    BY <1>16, ExecuteVideoKeeps
<1>17. CASE FinishVideos
    BY <1>17, FinishVideosKeeps
<1>18. CASE CollectVideos
    BY <1>18, CollectVideosKeeps
<1>19. CASE AllocateDestinations
    BY <1>19, AllocateDestinationsKeeps
<1>20. CASE ExecutePlan
    BY <1>20, ExecutePlanKeeps
<1>21. CASE CallerExecutes
    BY <1>21, CallerExecutesKeeps
<1>22. CASE CallerDrops
    BY <1>22, CallerDropsKeeps
<1>23. CASE ReturnAndDropPlan
    BY <1>23, ReturnAndDropPlanKeeps
<1>24. CASE Unwind
    BY <1>24, UnwindKeeps
<1>25. CASE Materialize
    BY <1>25, MaterializeKeeps
<1>26. CASE UNCHANGED vars
    BY <1>26, StutterKeeps
<1> QED
    BY <1>1, <1>2, <1>3, <1>4, <1>5, <1>6, <1>7, <1>8, <1>9, <1>10, <1>11, <1>12,
       <1>13, <1>14, <1>15, <1>16, <1>17, <1>18, <1>19, <1>20, <1>21, <1>22, <1>23,
       <1>24, <1>25, <1>26 DEF Next, Returned

(* The invariant holds throughout a call, whatever it is given and whatever   *)
(* fails.                                                                     *)
LEMMA InvariantHolds ==
    Spec => []IInv
<1>1. Init => IInv
    BY InitEstablishes
<1>2. IInv /\ [Next]_vars => IInv'
    BY NextKeeps
<1> QED BY <1>1, <1>2, PTL DEF Spec

(* A table without retained outputs retains no bytes.                         *)
LEMMA NoOutputsNoBytes ==
    ASSUME NEW r, Good(r), Outputless(r)
    PROVE  RetainedInTable(r) = 0
<1>1. PICK l \in Nat : l = Len(r.buffers) /\ DOMAIN r.buffers = 1..l
    <2>1. r.buffers \in Seq(BufferEvents)
        BY DEF Good, IsRecorder
    <2> QED BY <2>1
<1>2. [i \in DOMAIN r.buffers |->
          IF r.buffers[i].class = "RetainedOutput" THEN r.buffers[i].bytes ELSE 0]
        = [i \in 1..l |-> 0]
    BY <1>1 DEF Outputless
<1>3. TotalOf([i \in 1..l |-> 0]) = l * 0
    BY TotalOfEqual
<1>4. l * 0 = 0
    OBVIOUS
<1> QED BY <1>2, <1>3, <1>4, Zenon DEF RetainedInTable, BytesOf

(* A span that has ended has no open child, and lasted as long as its         *)
(* children together or longer.                                               *)
LEMMA EndedSpansFit ==
    ASSUME Good(rec)
    PROVE  ChildrenFitInTheirParent
<1>1. /\ Tables(rec.spans, rec.active, rec.clock, rec.nextSpan, rec.capacity)
      /\ Within(rec.spans, rec.active, rec.clock)
    BY GoodTables
<1>2. Ordered(rec.spans, rec.active, rec.nextSpan, rec.capacity)
    BY <1>1, StackIsOrdered, Zenon
<1>3. PICK n \in Nat, m \in Nat :
          /\ n = Len(rec.spans) /\ DOMAIN rec.spans = 1..n
          /\ m = Len(rec.active) /\ DOMAIN rec.active = 1..m
    <2>1. rec.spans \in Seq(Spans) /\ rec.active \in Seq(Nat)
        BY DEF Good, IsRecorder
    <2> QED BY <2>1, SMTT(40)
<1>4. ASSUME NEW i \in 1..n, NEW span, span = rec.spans[i],
             span.sequence \notin Range(rec.active)
      PROVE  ExclusiveDuration(rec, span) + ChildDuration(rec, span) = span.duration
    <2>1. span.sequence = i - 1 /\ span.duration \in Nat
        BY <1>1, <1>3, <1>4 DEF Tables, Numbered
    <2>2. ASSUME NEW j \in 1..n, rec.spans[j].parent = {i - 1}
          PROVE  j - 1 \notin Range(rec.active)
        <3> SUFFICES ASSUME j - 1 \in Range(rec.active) PROVE FALSE
            OBVIOUS
        <3>1. PICK k \in 1..m : rec.active[k] = j - 1
            BY <1>3 DEF Range
        <3>2. j - 1 < n /\ (j - 1) + 1 = j
            OBVIOUS
        <3>3. rec.spans[j].parent = IF k = 1 THEN {} ELSE {rec.active[k - 1]}
            BY <1>2, <1>3, <3>1, <3>2 DEF Ordered
        <3>4. k # 1 /\ rec.active[k - 1] = i - 1
            BY <2>2, <3>3
        <3>5. k - 1 \in 1..m
            BY <3>4
        <3>6. i - 1 \in Range(rec.active)
            BY <1>3, <3>4, <3>5 DEF Range
        <3> QED BY <1>4, <2>1, <3>6
    <2>3. \A j \in 1..n : ChildAge(rec.spans, rec.active, rec.clock, i, j)
              = IF rec.spans[j].parent = {span.sequence} THEN rec.spans[j].duration ELSE 0
        BY <2>1, <2>2 DEF ChildAge, Age
    <2>4. PICK f \in [1..n -> Nat] :
              f = [j \in 1..n |-> ChildAge(rec.spans, rec.active, rec.clock, i, j)]
        <3>1. \A j \in 1..n : ChildAge(rec.spans, rec.active, rec.clock, i, j) \in Nat
            BY <1>1, <1>3, AgesAreNatural
        <3> QED BY <3>1
    <2>5. f = [j \in DOMAIN rec.spans |->
                  IF rec.spans[j].parent = {span.sequence}
                  THEN rec.spans[j].duration ELSE 0]
        BY <1>3, <2>3, <2>4
    <2>6. ChildDuration(rec, span) = TotalOf(f)
        BY <2>5, Zenon DEF ChildDuration
    <2>7. TotalOf(f) <= span.duration
        <3>1. TotalOf(f) <= Age(rec.spans, rec.active, rec.clock, i)
            BY <1>1, <1>3, <2>4 DEF Within
        <3> QED BY <1>4, <2>1, <3>1 DEF Age
    <2>8. TotalOf(f) \in Nat
        <3>1. f \in Seq(Nat) /\ 0 \in Nat
            OBVIOUS
        <3> QED BY <3>1, TotalOfOneMore
    <2>9. PICK c \in Nat, d \in Nat : c = TotalOf(f) /\ d = span.duration
        BY <2>1, <2>8
    <2>10. SaturatingSub(d, c) + c = d
        BY <2>7, <2>9 DEF SaturatingSub
    <2> QED BY <2>6, <2>9, <2>10 DEF ExclusiveDuration
<1> QED BY <1>3, <1>4 DEF ChildrenFitInTheirParent

(* What the invariant says of the properties.                                 *)
LEMMA InvariantSays ==
    IInv => /\ TypeOK /\ EventsAccounted /\ OpenSpansAreTheCallers /\ LiveIsHeld
            /\ ReportAnswersTheCall /\ RetainedIsWhatTheCallReturns
            /\ ChildrenFitInTheirParent
<1> SUFFICES ASSUME IInv
             PROVE  /\ TypeOK /\ EventsAccounted /\ OpenSpansAreTheCallers
                    /\ LiveIsHeld /\ ReportAnswersTheCall
                    /\ RetainedIsWhatTheCallReturns /\ ChildrenFitInTheirParent
    OBVIOUS
<1>1. /\ Good(rec) /\ StackOf(rec, open) /\ Len(open) = Depth /\ call \in Calls
      /\ open \in Seq(Tokens)
    BY Spaces
<1>2. OkVerdict \notin Refusals /\ Unanswered \notin Refusals \cup {OkVerdict}
    BY VerdictsAreKnown
<1>3. TypeOK
    <2>1. call.entry \in {"plan", "observer", "envelope", "binding"}
        BY <1>1, CallsAreTyped
    <2>2. /\ rec.outcome \in {"Success", "Error"}
          /\ {rec.live, rec.retained, rec.dropped, rec.clock} \subseteq Nat
          /\ rec.peak \in Nat
        BY <1>1 DEF Good, IsRecorder, Outcomes
    <2>3. Range(images) \subseteq Occurrences /\ Range(videos) \subseteq Occurrences
        <3>1. VideosOf(call) \subseteq Occurrences
            BY <1>1, CallsAreTyped
        <3>2. images \in Seq(Occurrences) /\ videos \in Seq(VideosOf(call))
            BY DEF IInv, Typed
        <3> QED BY <3>1, <3>2 DEF Range
    <2>4. answer \in Verdicts \cup {Unanswered, "memory_error", "python_conversion"}
        BY DEF IInv, Typed, Answered, Refusals, Verdicts, Phases, Categories
    <2>5. /\ phase \in Phases /\ cursor \in Nat /\ errors \in Seq(Errors)
          /\ owned \in Seq(Nat)
        BY DEF IInv, Typed
    <2> QED BY <2>1, <2>2, <2>3, <2>4, <2>5 DEF TypeOK
<1>4. EventsAccounted
    BY <1>1 DEF Good, Accounted, EventsAccounted
<1>5. OpenSpansAreTheCallers
    <2>1. phase = "done" => Len(open) = 0
        BY <1>1 DEF Depth
    <2> QED BY <1>1, <2>1 DEF StackOf, OpenSpansAreTheCallers
<1>6. LiveIsHeld
    BY DEF IInv, Held
<1>7. ReportAnswersTheCall
    <2> SUFFICES ASSUME phase = "done"
                 PROVE  IF answer = OkVerdict
                        THEN /\ rec.outcome = "Success"
                             /\ \A i \in DOMAIN rec.spans :
                                    rec.spans[i].outcome = "Success"
                        ELSE /\ rec.outcome = "Error" /\ rec.category = answer
                             /\ Swept /\ rec.spans # <<>> =>
                                    rec.spans[1].category = answer
        BY DEF ReportAnswersTheCall
    <2>1. CASE answer = OkVerdict
        <3>1. NothingFailed(rec)
            BY <1>2, <2>1 DEF IInv, Answered
        <3>2. DOMAIN rec.spans = 1..Len(rec.spans)
            BY <1>1 DEF Good, IsRecorder
        <3> QED BY <2>1, <3>1, <3>2 DEF NothingFailed
    <2>2. CASE answer # OkVerdict
        BY <2>2 DEF IInv, Answered
    <2> QED BY <2>1, <2>2
<1>8. RetainedIsWhatTheCallReturns
    <2>1. phase = "done" /\ answer # OkVerdict => RetainedInTable(rec) = 0
        BY <1>1, NoOutputsNoBytes DEF IInv, Kept
    <2>2. phase = "done" => rec.retained = IF answer = OkVerdict /\ call.entry # "plan"
                                           THEN OutputBytes ELSE 0
        BY DEF IInv, Kept
    <2> QED BY <2>1, <2>2 DEF RetainedIsWhatTheCallReturns, OutputBytes
<1>9. ChildrenFitInTheirParent
    BY <1>1, EndedSpansFit
<1> QED BY <1>3, <1>4, <1>5, <1>6, <1>7, <1>8, <1>9

(* Every variable of an observed call keeps its type, the recorder's counters *)
(* among them, whatever the call is given and whatever fails.                 *)
THEOREM TypeCorrect ==
    Spec => []TypeOK
<1>1. IInv => TypeOK
    BY InvariantSays
<1> QED BY <1>1, InvariantHolds, PTL

(* For every capacity, zero included: every event of the call is in a table   *)
(* or counted as dropped, and no table outgrows the capacity.                 *)
THEOREM EventsAreAccounted ==
    Spec => []EventsAccounted
<1>1. IInv => EventsAccounted
    BY InvariantSays
<1> QED BY <1>1, InvariantHolds, PTL

(* Whatever fails, the spans open between two stages are those of the         *)
(* functions still running, and none is open once the call has returned.      *)
THEOREM SpansCloseWithTheirOwners ==
    Spec => []OpenSpansAreTheCallers
<1>1. IInv => OpenSpansAreTheCallers
    BY InvariantSays
<1> QED BY <1>1, InvariantHolds, PTL

(* However spans nest, and whichever of them the table had no room for, a     *)
(* span that has ended lasted at least as long as its direct children         *)
(* together: an exclusive duration of the report is never cut at zero.        *)
THEOREM ExclusiveDurationsAreDifferences ==
    Spec => []ChildrenFitInTheirParent
<1>1. IInv => ChildrenFitInTheirParent
    BY InvariantSays
<1> QED BY <1>1, InvariantHolds, PTL

(* The live counter is what the call owns, however many inputs, images and    *)
(* videos it has and whichever of them fail; it is above that exactly when a  *)
(* video succeeded after the first that failed and nothing has swept yet.     *)
THEOREM LiveCounterIsWhatIsHeld ==
    Spec => []LiveIsHeld
<1>1. IInv => LiveIsHeld
    BY InvariantSays
<1> QED BY <1>1, InvariantHolds, PTL

(* The report fails exactly when the call does, under the category that the   *)
(* caller receives.                                                           *)
THEOREM ReportIsTheAnswer ==
    Spec => []ReportAnswersTheCall
<1>1. IInv => ReportAnswersTheCall
    BY InvariantSays
<1> QED BY <1>1, InvariantHolds, PTL

(* A failed call retains no output; one that succeeds retains all of its      *)
(* destinations and nothing else.                                             *)
THEOREM OnlyResultsAreRetained ==
    Spec => []RetainedIsWhatTheCallReturns
<1>1. IInv => RetainedIsWhatTheCallReturns
    BY InvariantSays
<1> QED BY <1>1, InvariantHolds, PTL
==============================================================================
