----------------------------- MODULE PrepareLemmas -----------------------------
(* What the proofs about the two ways of preparing a batch need of the        *)
(* operators those ways are described with, for every batch.                  *)
EXTENDS PrepareVerdict, FiniteSetTheorems, SequenceTheorems, TLAPS

-------------------------------------------------------------------------------
(* Induction over the natural numbers, said of a set: the library says it of  *)
(* an operator, which the provers cannot instantiate.                         *)
LEMMA NatLessThanIsWellFounded ==
    IsWellFoundedOn({p \in Nat \X Nat : p[1] < p[2]}, Nat)
BY NatLessThanWellFounded DEF OpToRel

(* A set of naturals that is not empty has a least member.                    *)
LEMMA LeastMember ==
    ASSUME NEW S \in SUBSET Nat, S # {}
    PROVE  \E s \in S : \A t \in S : s <= t
<1>1. PICK s \in S :
          \A t \in S : <<t, s>> \notin {p \in Nat \X Nat : p[1] < p[2]}
    BY NatLessThanIsWellFounded, WFMin
<1>2. \A t \in S : ~(t < s)
    BY <1>1
<1> QED BY <1>2

(* Induction in the form of sets: a set with zero, and with the successor of  *)
(* each of its naturals, holds every natural number.                          *)
LEMMA NaturalsByInduction ==
    ASSUME NEW S, 0 \in S, \A n \in Nat : n \in S => n + 1 \in S
    PROVE  Nat \subseteq S
<1> SUFFICES ASSUME Nat \ S # {} PROVE FALSE
    OBVIOUS
<1>1. PICK x \in Nat \ S : \A y \in Nat \ S : x <= y
    BY LeastMember
<1>2. x # 0 /\ x - 1 \in Nat /\ x - 1 < x /\ (x - 1) + 1 = x
    BY <1>1
<1> QED BY <1>1, <1>2

(* The first of some indexes is one of them, and the least.                   *)
LEMMA FirstIsLeast ==
    ASSUME NEW S \in SUBSET Nat, S # {}
    PROVE  FirstOf(S) \in S /\ \A t \in S : FirstOf(S) <= t
BY LeastMember DEF FirstOf

(* The least member of a set of naturals is the one FirstOf chooses.          *)
LEMMA FirstIsUnique ==
    ASSUME NEW S \in SUBSET Nat, NEW s \in S, \A t \in S : s <= t
    PROVE  FirstOf(S) = s
<1>1. FirstOf(S) \in S /\ FirstOf(S) <= s
    BY FirstIsLeast
<1>2. FirstOf(S) \in Nat /\ s \in Nat /\ s <= FirstOf(S)
    BY <1>1
<1> QED BY <1>1, <1>2

(* The verdict is that of the first stage that has a failure.                 *)
LEMMA FirstStageAnswers ==
    ASSUME NEW stages, DOMAIN stages \subseteq Nat, NEW k \in DOMAIN stages,
           stages[k] # {}, \A j \in DOMAIN stages : j < k => stages[j] = {}
    PROVE  FirstStage(stages) = Failure(Preferred(stages[k]))
<1>1. FirstOf({j \in DOMAIN stages : stages[j] # {}}) = k
    <2> DEFINE S == {j \in DOMAIN stages : stages[j] # {}}
    <2>1. S \in SUBSET Nat /\ k \in S
        OBVIOUS
    <2>2. \A t \in S : k <= t
        BY <2>1
    <2> QED BY <2>1, <2>2, FirstIsUnique
<1> QED BY <1>1 DEF FirstStage

-------------------------------------------------------------------------------
(* Every category has a natural number as its precedence.                     *)
LEMMA PrecedenceIsNatural ==
    ASSUME NEW c
    PROVE  CategoryPrecedence(c) \in Nat
BY DEF CategoryPrecedence

(* A set of errors that is not empty has a member that no other beats: one of *)
(* the least precedence, and among those one of the least place.              *)
LEMMA PreferredIsUnbeaten ==
    ASSUME NEW errors \in SUBSET Errors, errors # {}
    PROVE  /\ Preferred(errors) \in errors
           /\ \A f \in errors : ~Beats(f, Preferred(errors))
<1> DEFINE Key(e) == CategoryPrecedence(e.category)
           Keys == {Key(e) : e \in errors}
<1>1. \A e \in errors : Key(e) \in Nat /\ e.place \in Nat
    BY PrecedenceIsNatural DEF Errors
<1>2. PICK k \in Keys : \A l \in Keys : k <= l
    <2>1. Keys \in SUBSET Nat /\ Keys # {}
        BY <1>1
    <2> HIDE DEF Keys
    <2> QED BY <2>1, LeastMember
<1> DEFINE Best == {e \in errors : Key(e) = k}
           Places == {e.place : e \in Best}
<1>3. PICK n \in Places : \A m \in Places : n <= m
    <2>1. Places \in SUBSET Nat /\ Places # {}
        BY <1>1, <1>2
    <2> HIDE DEF Places
    <2> QED BY <2>1, LeastMember
<1>4. PICK e \in errors : Key(e) = k /\ e.place = n
    BY <1>3
<1>5. ASSUME NEW f \in errors PROVE ~Beats(f, e)
    <2>1. k <= Key(f) /\ Key(f) \in Nat /\ k \in Nat
        BY <1>1, <1>2, <1>4
    <2>2. Key(f) = k => n <= f.place
        BY <1>3
    <2>3. f.place \in Nat /\ n \in Nat
        BY <1>1, <1>4
    <2> QED BY <1>4, <2>1, <2>2, <2>3 DEF Beats
<1> QED BY <1>4, <1>5 DEF Preferred

-------------------------------------------------------------------------------
(* The walk of Selected, up to each place of the list.                        *)
Walk(upTo, list, places, n) ==
    upTo = [k \in 0..n |->
               IF k = 0 THEN <<>>
               ELSE IF k \in places THEN Append(upTo[k - 1], list[k])
               ELSE upTo[k - 1]]

(* A walk along a list exists to every length: what a recursive function      *)
(* over the lengths of the list is chosen from.                               *)
LEMMA WalkExists ==
    ASSUME NEW list, NEW places, NEW n \in Nat
    PROVE  \E upTo : Walk(upTo, list, places, n)
<1> DEFINE S == {m \in Nat : \E upTo : Walk(upTo, list, places, m)}
<1>1. 0 \in S
    <2>1. Walk([k \in 0..0 |-> <<>>], list, places, 0)
        BY DEF Walk
    <2> QED BY <2>1
<1>2. ASSUME NEW m \in Nat, m \in S PROVE m + 1 \in S
    <2>1. PICK f : Walk(f, list, places, m)
        BY <1>2
    <2> DEFINE g == [k \in 0..(m + 1) |->
                        IF k <= m THEN f[k]
                        ELSE IF k \in places THEN Append(f[m], list[k])
                        ELSE f[m]]
    <2>2. \A k \in 0..m : g[k] = f[k]
        OBVIOUS
    <2>3. \A k \in 0..(m + 1) :
              g[k] = IF k = 0 THEN <<>>
                     ELSE IF k \in places THEN Append(g[k - 1], list[k])
                     ELSE g[k - 1]
        <3> TAKE k \in 0..(m + 1)
        <3>1. CASE k <= m
            <4>0. k \in 0..m
                BY <3>1
            <4>1. f[k] = IF k = 0 THEN <<>>
                         ELSE IF k \in places THEN Append(f[k - 1], list[k])
                         ELSE f[k - 1]
                BY <2>1, <4>0, Zenon DEF Walk
            <4>2. k # 0 => k - 1 \in 0..m
                BY <3>1
            <4>3. g[k] = f[k] /\ (k # 0 => g[k - 1] = f[k - 1])
                BY <2>2, <3>1, <4>2
            <4> QED BY <4>1, <4>3
        <3>2. CASE k = m + 1
            <4>1. k # 0 /\ k - 1 = m /\ ~(k <= m) /\ m \in 0..m
                BY <3>2
            <4>2. g[k - 1] = f[m]
                BY <2>2, <4>1
            <4> QED BY <4>1, <4>2
        <3> QED BY <3>1, <3>2
    <2> HIDE DEF g
    <2>4. Walk(g, list, places, m + 1)
        <3>1. g = [k \in 0..(m + 1) |-> g[k]]
            BY DEF g
        <3> QED BY <2>3, <3>1 DEF Walk
    <2> QED BY <2>4
<1>3. Nat \subseteq S
    BY <1>1, <1>2, NaturalsByInduction
<1> QED BY <1>3

(* The members selected from a list are the end of some walk along it.        *)
LEMMA SelectedIsAWalk ==
    ASSUME NEW list, NEW places, Len(list) \in Nat
    PROVE  \E upTo : /\ Walk(upTo, list, places, Len(list))
                     /\ Selected(list, places) = upTo[Len(list)]
<1>1. Selected(list, places)
          = (CHOOSE upTo : Walk(upTo, list, places, Len(list)))[Len(list)]
    BY Zenon DEF Selected, Walk
<1>2. \E upTo : Walk(upTo, list, places, Len(list))
    BY WalkExists
<1> QED BY <1>1, <1>2

(* f lists the chosen places below n in order.                                *)
Lists(f, selection, list, places, n) ==
    /\ f \in [1..Len(selection) -> {k \in places : k \in 1..n}]
    /\ \A j \in 1..Len(selection) : selection[j] = list[f[j]]
    /\ \A i, j \in 1..Len(selection) : i < j => f[i] < f[j]
    /\ \A k \in places : k \in 1..n => \E j \in 1..Len(selection) : f[j] = k

(* What is selected stands in the list, in the same order, and is all of it.  *)
LEMMA SelectedListsThePlaces ==
    ASSUME NEW S, NEW list \in Seq(S), NEW places
    PROVE  /\ Selected(list, places) \in Seq(S)
           /\ \E f : Lists(f, Selected(list, places), list, places, Len(list))
<1> DEFINE N == Len(list)
<1>1. N \in Nat
    OBVIOUS
<1>2. PICK upTo : Walk(upTo, list, places, N) /\ Selected(list, places) = upTo[N]
    BY <1>1, SelectedIsAWalk
<1> DEFINE Good(n) == /\ upTo[n] \in Seq(S)
                      /\ \E f : Lists(f, upTo[n], list, places, n)
           T == {n \in Nat : n <= N => Good(n)}
<1>3. 0 \in T
    <2>1. upTo[0] = <<>>
        BY <1>1, <1>2 DEF Walk
    <2>2. Lists(<<>>, <<>>, list, places, 0)
        BY DEF Lists
    <2>3. Good(0)
        BY <2>1, <2>2
    <2> QED BY <2>3
<1>4. ASSUME NEW n \in Nat, n \in T PROVE n + 1 \in T
    <2> SUFFICES ASSUME n + 1 <= N PROVE Good(n + 1)
        OBVIOUS
    <2>1. Good(n) /\ n + 1 \in 0..N /\ n + 1 # 0 /\ (n + 1) - 1 = n
        BY <1>1, <1>4
    <2>2. upTo[n + 1] = IF n + 1 \in places THEN Append(upTo[n], list[n + 1])
                        ELSE upTo[n]
        BY <1>2, <2>1 DEF Walk
    <2>3. PICK f : Lists(f, upTo[n], list, places, n)
        BY <2>1
    <2> HIDE DEF N
    <2>4. CASE n + 1 \in places
        <3> DEFINE s == upTo[n]
                   L == Len(upTo[n])
                   g == [j \in 1..(L + 1) |-> IF j <= L THEN f[j] ELSE n + 1]
        <3>1. upTo[n + 1] = Append(s, list[n + 1]) /\ s \in Seq(S) /\ L \in Nat
            BY <2>1, <2>2, <2>4
        <3>2. list[n + 1] \in S
            BY <2>1 DEF N
        <3>3. /\ Append(s, list[n + 1]) \in Seq(S)
              /\ Len(Append(s, list[n + 1])) = L + 1
              /\ \A j \in 1..L : Append(s, list[n + 1])[j] = s[j]
              /\ Append(s, list[n + 1])[L + 1] = list[n + 1]
            BY <3>1, <3>2
        <3> HIDE DEF s, L
        <3>4. /\ f \in [1..L -> {k \in places : k \in 1..n}]
              /\ \A j \in 1..L : s[j] = list[f[j]]
              /\ \A i, j \in 1..L : i < j => f[i] < f[j]
              /\ \A k \in places : k \in 1..n => \E j \in 1..L : f[j] = k
            BY <2>3 DEF Lists, s, L
        <3>5. /\ \A j \in 1..L : g[j] = f[j] /\ f[j] \in places /\ f[j] \in 1..n
              /\ g[L + 1] = n + 1
            BY <3>1, <3>4
        <3>6. g \in [1..(L + 1) -> {k \in places : k \in 1..(n + 1)}]
            <4>1. \A k \in 1..n : k \in 1..(n + 1)
                OBVIOUS
            <4>2. \A j \in 1..(L + 1) : j \in 1..L \/ j = L + 1
                BY <3>1
            <4>3. n + 1 \in 1..(n + 1)
                OBVIOUS
            <4>4. \A j \in 1..(L + 1) :
                      g[j] \in {k \in places : k \in 1..(n + 1)}
                BY <2>4, <3>5, <4>1, <4>2, <4>3
            <4> HIDE DEF g
            <4>5. g = [j \in 1..(L + 1) |-> g[j]]
                BY DEF g
            <4> QED BY <4>4, <4>5
        <3> HIDE DEF g
        <3>7. \A j \in 1..(L + 1) : j \in 1..L \/ j = L + 1
            BY <3>1
        <3>8. \A j \in 1..(L + 1) : Append(s, list[n + 1])[j] = list[g[j]]
            BY <3>3, <3>4, <3>5, <3>7
        <3>9. \A i, j \in 1..(L + 1) : i < j => g[i] < g[j]
            <4> SUFFICES ASSUME NEW i \in 1..(L + 1), NEW j \in 1..(L + 1), i < j
                         PROVE  g[i] < g[j]
                OBVIOUS
            <4>1. i \in 1..L /\ f[i] \in 1..n
                BY <3>1, <3>5
            <4>2. CASE j \in 1..L
                BY <3>4, <3>5, <4>1, <4>2
            <4>3. CASE j = L + 1
                BY <3>5, <4>1, <4>3
            <4> QED BY <3>7, <4>2, <4>3
        <3>10. \A k \in places :
                  k \in 1..(n + 1) => \E j \in 1..(L + 1) : g[j] = k
            <4> SUFFICES ASSUME NEW k \in places, k \in 1..(n + 1)
                         PROVE  \E j \in 1..(L + 1) : g[j] = k
                OBVIOUS
            <4>1. CASE k = n + 1
                BY <3>1, <3>5, <4>1
            <4>2. CASE k \in 1..n
                <5>1. PICK j \in 1..L : f[j] = k
                    BY <3>4, <4>2
                <5> QED BY SMTT(30), <3>1, <3>5, <5>1
            <4> QED BY <4>1, <4>2
        <3>11. Lists(g, Append(s, list[n + 1]), list, places, n + 1)
            BY <3>3, <3>6, <3>8, <3>9, <3>10 DEF Lists
        <3> QED BY <3>1, <3>3, <3>11
    <2>5. CASE n + 1 \notin places
        <3>1. \A k \in places : k \in 1..(n + 1) <=> k \in 1..n
            BY <2>5
        <3>2. Lists(f, upTo[n], list, places, n + 1)
            BY <2>3, <3>1 DEF Lists
        <3> QED BY <2>1, <2>2, <2>5, <3>2
    <2> QED BY <2>4, <2>5
<1> HIDE DEF Good
<1>5. Nat \subseteq T
    BY <1>3, <1>4, NaturalsByInduction
<1>6. Good(N)
    BY <1>1, <1>5
<1> QED BY <1>2, <1>6 DEF Good

-------------------------------------------------------------------------------
(* What a batch holds at a position.                                          *)
LEMMA RequestsOfABatch ==
    ASSUME NEW b, IsBatch(b)
    PROVE  /\ b.requests \in Seq(Requests)
           /\ Len(b.requests) \in Nat
           /\ DOMAIN b.requests = 1..Len(b.requests)
           /\ \A r \in DOMAIN b.requests :
                 /\ b.requests[r] \in Requests
                 /\ b.requests[r].items \in Seq(Items)
                 /\ Len(b.requests[r].items) \in Nat
                 /\ DOMAIN b.requests[r].items = 1..Len(b.requests[r].items)
                 /\ \A i \in DOMAIN b.requests[r].items :
                       b.requests[r].items[i] \in Items
<1>1. b.requests \in Seq(Requests)
    BY DEF IsBatch
<1>2. \A r \in DOMAIN b.requests : b.requests[r] \in Requests
    BY <1>1
<1>3. \A r \in DOMAIN b.requests : b.requests[r].items \in Seq(Items)
    BY <1>2 DEF Requests
<1> QED BY <1>1, <1>2, <1>3

(* A position names a request of the batch and an item of it that is not      *)
(* text, and every such item has one.                                         *)
LEMMA PositionsOfABatch ==
    ASSUME NEW b
    PROVE  /\ \A p \in Positions(b) :
                 /\ p = <<p[1], p[2]>>
                 /\ p[1] \in DOMAIN b.requests
                 /\ p[2] \in DOMAIN b.requests[p[1]].items
                 /\ ItemAt(b, p).kind # "text"
           /\ \A r \in DOMAIN b.requests :
                 \A i \in DOMAIN b.requests[r].items :
                    b.requests[r].items[i].kind # "text" => <<r, i>> \in Positions(b)
BY DEF Positions, ItemAt

(* The occurrences of a batch are items, of a request that is there.          *)
LEMMA ItemsOfABatch ==
    ASSUME NEW b, IsBatch(b), NEW p \in Positions(b)
    PROVE  /\ ItemAt(b, p) \in Items
           /\ p[1] \in Nat \ {0} /\ p[2] \in Nat \ {0}
           /\ p[1] \in 1..Len(b.requests)
           /\ ItemAt(b, p).kind \in {"image", "video"}
           /\ ItemAt(b, p).rows \in Nat
           /\ {ItemAt(b, p).plan, ItemAt(b, p).geometry, ItemAt(b, p).body}
                  \subseteq Verdicts
           /\ ItemAt(b, p).kind = "video" => ItemAt(b, p).geometry = OkVerdict
<1>1. /\ p[1] \in DOMAIN b.requests
      /\ p[2] \in DOMAIN b.requests[p[1]].items
      /\ ItemAt(b, p).kind # "text"
    BY PositionsOfABatch
<1>2. ItemAt(b, p) \in Items
    BY <1>1, RequestsOfABatch DEF ItemAt
<1>3. p[1] \in 1..Len(b.requests) /\ p[2] \in 1..Len(b.requests[p[1]].items)
    BY <1>1, RequestsOfABatch
<1>4. ItemAt(b, p).kind = "video" => ItemAt(b, p).geometry = OkVerdict
    BY DEF IsBatch, OfKind
<1> QED BY <1>1, <1>2, <1>3, <1>4, RequestsOfABatch DEF Items, Kinds

(* A batch has finitely many media occurrences.                               *)
LEMMA PositionsAreFinite ==
    ASSUME NEW b, IsBatch(b)
    PROVE  IsFiniteSet(Positions(b))
<1> DEFINE D == DOMAIN b.requests
           In(r) == {r} \X {i \in DOMAIN b.requests[r].items :
                               b.requests[r].items[i].kind # "text"}
           f == [r \in D |-> In(r)]
           All == {In(r) : r \in D}
<1>1. D = 1..Len(b.requests) /\ Len(b.requests) \in Nat
    BY RequestsOfABatch
<1>2. IsFiniteSet(D)
    BY <1>1, FS_Interval
<1>3. IsFiniteSet(All)
    <2>1. f \in Surjection(D, All)
        BY Zenon DEF Surjection
    <2> QED BY <1>2, <2>1, FS_Surjection
<1>4. ASSUME NEW r \in D PROVE IsFiniteSet(In(r))
    <2>1. /\ DOMAIN b.requests[r].items = 1..Len(b.requests[r].items)
          /\ Len(b.requests[r].items) \in Nat
        BY RequestsOfABatch
    <2>2. IsFiniteSet(DOMAIN b.requests[r].items)
        BY <2>1, FS_Interval
    <2> DEFINE I == {i \in DOMAIN b.requests[r].items :
                        b.requests[r].items[i].kind # "text"}
    <2>3. IsFiniteSet(I)
        <3>1. I \in SUBSET (DOMAIN b.requests[r].items)
            OBVIOUS
        <3> QED BY <2>2, <3>1, FS_Subset
    <2>4. IsFiniteSet({r})
        BY FS_Singleton
    <2> HIDE DEF I
    <2>5. IsFiniteSet({r} \X I)
        BY <2>3, <2>4, FS_Product
    <2> QED BY <2>5 DEF I
<1>5. \A T \in All : IsFiniteSet(T)
    BY <1>4
<1>6. Positions(b) = UNION All
    BY DEF Positions
<1> QED BY <1>3, <1>5, <1>6, FS_UNION

(* Source order is total on the positions, and transitive.                    *)
LEMMA SourceOrder ==
    ASSUME NEW b, IsBatch(b)
    PROVE  \A p, q \in Positions(b) :
              /\ p = q \/ Precedes(p, q) \/ Precedes(q, p)
              /\ ~(Precedes(p, q) /\ Precedes(q, p)) /\ ~Precedes(p, p)
              /\ \A o \in Positions(b) :
                    Precedes(o, p) /\ Precedes(p, q) => Precedes(o, q)
<1>1. \A p \in Positions(b) : p[1] \in Nat /\ p[2] \in Nat /\ p = <<p[1], p[2]>>
    BY ItemsOfABatch, PositionsOfABatch
<1> QED BY <1>1 DEF Precedes

(* Indexes count the occurrences before a position, so they grow in source    *)
(* order and no two occurrences share one.                                    *)
LEMMA OccurrenceIndexGrows ==
    ASSUME NEW b, IsBatch(b), NEW p \in Positions(b)
    PROVE  /\ OccurrenceIndex(b, p) \in Nat
           /\ \A q \in Positions(b) :
                 Precedes(p, q) => OccurrenceIndex(b, p) < OccurrenceIndex(b, q)
<1> DEFINE Below(q) == {o \in Positions(b) : Precedes(o, q)}
<1>1. \A q : IsFiniteSet(Below(q)) /\ Cardinality(Below(q)) \in Nat
    <2> TAKE q
    <2>1. Below(q) \in SUBSET Positions(b)
        OBVIOUS
    <2> HIDE DEF Below
    <2>2. IsFiniteSet(Below(q))
        BY <2>1, PositionsAreFinite, FS_Subset
    <2> QED BY <2>2, FS_CardinalityType
<1>2. ASSUME NEW q \in Positions(b), Precedes(p, q)
      PROVE  Cardinality(Below(p)) < Cardinality(Below(q))
    <2>1. Below(p) \in SUBSET Below(q) /\ p \in Below(q) /\ p \notin Below(p)
        BY <1>2, SourceOrder
    <2> HIDE DEF Below
    <2>2. Cardinality(Below(p)) <= Cardinality(Below(q))
        BY <1>1, <2>1, FS_Subset
    <2>3. Cardinality(Below(p)) # Cardinality(Below(q))
        BY <1>1, <2>1, FS_Subset
    <2> QED BY <1>1, <2>2, <2>3
<1> QED BY <1>1, <1>2 DEF OccurrenceIndex

(* Two occurrences of a batch never have the same index.                      *)
LEMMA OccurrenceIndexesDiffer ==
    ASSUME NEW b, IsBatch(b), NEW p \in Positions(b), NEW q \in Positions(b),
           OccurrenceIndex(b, p) = OccurrenceIndex(b, q)
    PROVE  p = q
BY OccurrenceIndexGrows, SourceOrder

-------------------------------------------------------------------------------
(* Errors with a category are errors.                                         *)
LEMMA FailuresAreResults ==
    ASSUME NEW c \in Verdicts, c # OkVerdict, NEW n \in Nat
    PROVE  /\ Error(c, n) \in Errors
           /\ Failure(Error(c, n)) \in Results /\ Failure(Error(c, n)) # Pending
BY DEF Verdicts, Error, Errors, Failure, Results, Pending

(* A failure is an answer, and not the pending one.                           *)
LEMMA FailureOfAnError ==
    ASSUME NEW e \in Errors
    PROVE  Failure(e) \in Results /\ Failure(e) # Pending
BY DEF Failure, Results, Pending

(* Planning has a verdict for every item.                                     *)
LEMMA PlanningVerdicts ==
    ASSUME NEW item \in Items
    PROVE  PlanningVerdict(item) \in Verdicts /\ item.plan \in Verdicts
BY DEF Items, PlanningVerdict

(* The member preferred by a selection is an error.                           *)
LEMMA SelectionsAreErrors ==
    ASSUME NEW list \in Seq(Errors)
    PROVE  /\ list # <<>> => SelectPreferredError(list) \in Errors
           /\ PredecodeErrors(list) # {} => PreferredPredecodeError(list) \in Errors
<1>1. ErrorsIn(list) \in SUBSET Errors
    BY DEF ErrorsIn
<1>2. list # <<>> => ErrorsIn(list) # {}
    <2>1. list # <<>> => 1 \in DOMAIN list
        OBVIOUS
    <2> QED BY <2>1 DEF ErrorsIn
<1>3. PredecodeErrors(list) \in SUBSET Errors
    BY <1>1 DEF PredecodeErrors
<1> QED BY <1>1, <1>2, <1>3, PreferredIsUnbeaten
        DEF SelectPreferredError, PreferredPredecodeError

(* A failure alone is the preferred one.                                      *)
LEMMA PreferredOfOne ==
    ASSUME NEW e \in Errors
    PROVE  Preferred({e}) = e
<1>1. Preferred({e}) \in {e}
    BY PreferredIsUnbeaten
<1> QED BY <1>1

(* A list of errors, one more appended.                                       *)
LEMMA OneMoreListed ==
    ASSUME NEW S, NEW list \in Seq(S), NEW e \in S
    PROVE  ErrorsIn(Append(list, e)) = ErrorsIn(list) \cup {e}
<1>1. /\ DOMAIN Append(list, e) = 1..(Len(list) + 1) /\ DOMAIN list = 1..Len(list)
      /\ \A k \in 1..Len(list) : Append(list, e)[k] = list[k]
      /\ Append(list, e)[Len(list) + 1] = e /\ Len(list) \in Nat
    OBVIOUS
<1>2. \A k \in 1..(Len(list) + 1) : k \in 1..Len(list) \/ k = Len(list) + 1
    BY <1>1
<1>3. 1..Len(list) \subseteq 1..(Len(list) + 1) /\ Len(list) + 1 \in 1..(Len(list) + 1)
    BY <1>1
<1> QED BY <1>1, <1>2, <1>3 DEF ErrorsIn

(* The failures of some occurrences, one more considered.                     *)
LEMMA OneMoreFailure ==
    ASSUME NEW b, NEW P, NEW p
    PROVE  ErrorsAt(b, P \cup {p}, PlanningVerdict) =
              ErrorsAt(b, P, PlanningVerdict) \cup
                  (IF PlanningVerdict(ItemAt(b, p)) = OkVerdict THEN {}
                   ELSE {Error(PlanningVerdict(ItemAt(b, p)), OccurrenceIndex(b, p))})
BY Zenon DEF ErrorsAt

(* Two lists after each other hold the errors of both.                        *)
LEMMA ErrorsOfBoth ==
    ASSUME NEW S, NEW s \in Seq(S), NEW t \in Seq(S)
    PROVE  ErrorsIn(s \o t) = ErrorsIn(s) \cup ErrorsIn(t)
<1>1. PICK m \in Nat, n \in Nat :
          /\ m = Len(s) /\ n = Len(t) /\ DOMAIN s = 1..m /\ DOMAIN t = 1..n
          /\ DOMAIN (s \o t) = 1..(m + n)
          /\ \A k \in 1..(m + n) :
                (s \o t)[k] = IF k <= m THEN s[k] ELSE t[k - m]
    <2>1. s \o t \in Seq(S) /\ Len(s \o t) = Len(s) + Len(t)
        BY ConcatProperties
    <2>2. Len(s) \in Nat /\ Len(t) \in Nat
        OBVIOUS
    <2> QED BY <2>1, <2>2, ConcatProperties
<1>2. \A k \in 1..m : k \in 1..(m + n) /\ (s \o t)[k] = s[k]
    BY <1>1
<1>3. \A k \in 1..n : k + m \in 1..(m + n) /\ (s \o t)[k + m] = t[k]
    <2> SUFFICES ASSUME NEW k \in 1..n
                 PROVE  k + m \in 1..(m + n) /\ (s \o t)[k + m] = t[k]
        OBVIOUS
    <2>1. k + m \in 1..(m + n) /\ ~(k + m <= m) /\ (k + m) - m = k
        BY <1>1
    <2> QED BY <1>1, <2>1
<1>4. \A k \in 1..(m + n) : k \in 1..m \/ (k - m \in 1..n /\ (s \o t)[k] = t[k - m])
    BY <1>1
<1>5. \A e \in ErrorsIn(s \o t) : e \in ErrorsIn(s) \/ e \in ErrorsIn(t)
    <2> TAKE e \in ErrorsIn(s \o t)
    <2>1. PICK k \in 1..(m + n) : (s \o t)[k] = e
        BY <1>1 DEF ErrorsIn
    <2>2. CASE k \in 1..m
        BY <1>1, <1>2, <2>1, <2>2 DEF ErrorsIn
    <2>3. CASE k - m \in 1..n /\ (s \o t)[k] = t[k - m]
        BY <1>1, <2>1, <2>3 DEF ErrorsIn
    <2> QED BY <1>4, <2>2, <2>3
<1>6. \A e \in ErrorsIn(s) : e \in ErrorsIn(s \o t)
    BY <1>1, <1>2, Zenon DEF ErrorsIn
<1>7. \A e \in ErrorsIn(t) : e \in ErrorsIn(s \o t)
    <2> TAKE e \in ErrorsIn(t)
    <2>1. PICK k \in 1..n : t[k] = e
        BY <1>1 DEF ErrorsIn
    <2>2. k + m \in DOMAIN (s \o t) /\ (s \o t)[k + m] = e
        BY <1>1, <1>3, <2>1
    <2> QED BY <2>2, Zenon DEF ErrorsIn
<1> QED BY <1>5, <1>6, <1>7

(* A function over the first n naturals is a sequence of length n.            *)
LEMMA LengthOfAFunction ==
    ASSUME NEW S, NEW n \in Nat, NEW f \in [1..n -> S]
    PROVE  f \in Seq(S) /\ Len(f) = n
<1>1. f \in Seq(S)
    BY SeqDef
<1>2. 1..Len(f) = 1..n /\ Len(f) \in Nat
    BY <1>1, LenProperties
<1> QED BY <1>1, <1>2

(* A list of which every place is selected is selected whole.                 *)
LEMMA SelectedWhole ==
    ASSUME NEW S, NEW list \in Seq(S), NEW places, DOMAIN list \subseteq places
    PROVE  Selected(list, places) = list
<1> DEFINE N == Len(list)
<1>1. N \in Nat /\ DOMAIN list = 1..N
    OBVIOUS
<1>2. PICK upTo : Walk(upTo, list, places, N) /\ Selected(list, places) = upTo[N]
    BY <1>1, SelectedIsAWalk
<1> DEFINE Good(n) == /\ upTo[n] \in Seq(S) /\ Len(upTo[n]) = n
                      /\ \A j \in 1..n : upTo[n][j] = list[j]
           T == {n \in Nat : n <= N => Good(n)}
<1>3. 0 \in T
    BY <1>1, <1>2 DEF Walk
<1>4. ASSUME NEW n \in Nat, n \in T PROVE n + 1 \in T
    <2> SUFFICES ASSUME n + 1 <= N PROVE Good(n + 1)
        OBVIOUS
    <2>1. Good(n) /\ n + 1 \in places /\ n + 1 \in 1..N
        BY <1>1, <1>4
    <2>2. upTo[n + 1] = Append(upTo[n], list[n + 1])
        <3>1. n + 1 \in 0..N /\ n + 1 # 0 /\ (n + 1) - 1 = n
            BY <1>1
        <3> QED BY <1>2, <2>1, <3>1 DEF Walk
    <2>3. list[n + 1] \in S
        BY <1>1, <2>1
    <2>4. upTo[n + 1] \in Seq(S) /\ Len(upTo[n + 1]) = n + 1
        BY <2>1, <2>2, <2>3
    <2>5. \A j \in 1..(n + 1) : upTo[n + 1][j] = list[j]
        <3>1. \A j \in 1..(n + 1) : j \in 1..n \/ j = n + 1
            OBVIOUS
        <3>2. /\ \A j \in 1..n : upTo[n + 1][j] = upTo[n][j]
              /\ upTo[n + 1][n + 1] = list[n + 1]
            BY <2>1, <2>2, <2>3
        <3> QED BY <2>1, <3>1, <3>2
    <2> QED BY <2>4, <2>5
<1>5. Nat \subseteq T
    <2> HIDE DEF T
    <2> QED BY <1>3, <1>4, NaturalsByInduction
<1>6. Good(N)
    <2> HIDE DEF Good
    <2> QED BY <1>1, <1>5
<1> QED BY <1>1, <1>2, <1>6, SeqEqual
================================================================================
