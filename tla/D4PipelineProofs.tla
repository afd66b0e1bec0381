--------------------------- MODULE D4PipelineProofs ---------------------------
(* Proofs about D4Pipeline, for every sequence of thread budgets, every       *)
(* assignment of the three kinds of host, any versions of the checkout, any   *)
(* number of things that go wrong, whatever is changed and changed back, and  *)
(* any number of later finalizations.                                         *)
EXTENDS D4Pipeline, TLAPS

-------------------------------------------------------------------------------
(* Where the steps stand in the plan of a host                                *)

(* The steps of run_compact_capture after its first.                          *)
Verbs == {"check", "conform", "benchmark", "finish"}
Named == {"none"} \cup Positions \cup BudgetSet
Subjects == Named \cup ({"before", "after"} \X Named)
Steps == [does : Verbs, of : Subjects]

(* A step is of a name, or stands before or after what has one.               *)
LEMMA StepIsStep ==
    ASSUME NEW does \in Verbs, NEW name \in Named
    PROVE  /\ Step(does, name) \in Steps
           /\ Step(does, <<"before", name>>) \in Steps
           /\ Step(does, <<"after", name>>) \in Steps
BY DEF Subjects, Step, Steps

(* The timed matrix is a sequence of them.                                    *)
LEMMA MatrixIsSequence == TimedMatrix \in Seq(Steps)
<1>1. Len(Budgets) \in Nat /\ DOMAIN Budgets = 1..Len(Budgets)
  BY BudgetsAssumption
<1>2. ASSUME NEW k \in 1..(3 * Len(Budgets))
      PROVE  TimedMatrix[k] \in Steps
  <2>1. PICK i \in 1..Len(Budgets) : (k + 2) \div 3 = i
    BY <1>1
  <2>2. Budgets[i] \in Named
    BY <1>1 DEF Named, BudgetSet
  <2>3. PICK j \in 1..3 : ((k - 1) % 3) + 1 = j
    BY <1>1
  <2>4. TimedMatrix[k] = <<Step("check", <<"before", Budgets[i]>>),
                           Step("benchmark", Budgets[i]),
                           Step("check", <<"after", Budgets[i]>>)>>[j]
    BY <2>1, <2>3 DEF TimedMatrix
  <2>5. /\ Step("check", <<"before", Budgets[i]>>) \in Steps
        /\ Step("benchmark", Budgets[i]) \in Steps
        /\ Step("check", <<"after", Budgets[i]>>) \in Steps
    BY <2>2, StepIsStep DEF Verbs
  <2>6. QED
    BY <2>4, <2>5
<1>3. TimedMatrix \in [1..(3 * Len(Budgets)) -> Steps] /\ 3 * Len(Budgets) \in Nat
  BY <1>1, <1>2 DEF TimedMatrix
<1>4. QED
  BY <1>3

(* A sequence between four elements and four others.                          *)
LEMMA Framed ==
    ASSUME NEW S, NEW m \in Seq(S), NEW a, NEW b \in S, NEW c \in S, NEW d \in S,
           NEW e \in S, NEW f \in S, NEW g \in S, NEW i \in S
    PROVE  LET p == <<a, b, c, d>> \o m \o <<e, f, g, i>> IN
           /\ p \in Seq(S \cup {a}) /\ Len(p) = Len(m) + 8 /\ Len(m) \in Nat
           /\ p[1] = a /\ \A k \in 2..Len(p) : p[k] \in S
<1>1. PICK T : T = S \cup {a}
  OBVIOUS
<1>2. PICK x : x = <<a, b, c, d>>
  OBVIOUS
<1>3. PICK y : y = <<e, f, g, i>>
  OBVIOUS
<1> x \in Seq(T) /\ y \in Seq(T) /\ m \in Seq(T)
  BY <1>1, <1>2, <1>3
<1>4. Len(x) = 4 /\ x[1] = a /\ x[2] \in S /\ x[3] \in S /\ x[4] \in S
  BY <1>1, <1>2
<1>5. /\ Len(y) = 4 /\ y[1] \in S /\ y[2] \in S /\ y[3] \in S /\ y[4] \in S
  BY <1>1, <1>3
<1>6. \A k \in 1..Len(m) : m[k] \in S
  BY <1>1
<1>7. PICK q : q = x \o m
  OBVIOUS
<1> q \in Seq(T)
  BY <1>7
<1>8. /\ Len(q) = Len(x) + Len(m) /\ Len(m) \in Nat
      /\ \A k \in 1..Len(x) : q[k] = x[k]
      /\ \A k \in 1..Len(m) : q[Len(x) + k] = m[k]
  BY <1>7
<1>9. PICK p : p = q \o y
  OBVIOUS
<1>10. /\ p \in Seq(T) /\ Len(p) = Len(q) + Len(y)
       /\ \A k \in 1..Len(q) : p[k] = q[k]
       /\ \A k \in 1..Len(y) : p[Len(q) + k] = y[k]
  BY <1>9
<1>11. ASSUME NEW k \in 2..Len(p) PROVE p[k] \in S
  <2>1. CASE k \in 2..4
    BY <1>4, <1>8, <1>10, <2>1
  <2>2. CASE k \in 5..(4 + Len(m))
    <3>1. PICK j \in 1..Len(m) : k = 4 + j
      BY <1>8, <2>2
    <3>2. p[k] = m[j]
      BY <1>4, <1>8, <1>10, <3>1
    <3>3. QED
      BY <1>6, <3>2
  <2>3. CASE k \in (5 + Len(m))..(8 + Len(m))
    <3>1. PICK j \in 1..4 : k = Len(q) + j
      BY <1>4, <1>8, <2>3
    <3>2. QED
      BY <1>5, <1>8, <1>10, <3>1
  <2>4. QED
    BY <1>4, <1>5, <1>8, <1>10, <2>1, <2>2, <2>3
<1>12. QED
  <2>1. p = <<a, b, c, d>> \o m \o <<e, f, g, i>>
    BY <1>2, <1>3, <1>7, <1>9
  <2>2. /\ p \in Seq(S \cup {a}) /\ Len(p) = Len(m) + 8 /\ Len(m) \in Nat
        /\ p[1] = a
    BY <1>1, <1>4, <1>5, <1>8, <1>10
  <2>3. QED
    BY <1>11, <2>1, <2>2, Zenon

(* The capture begins with its baseline, takes it once, and attests nothing.  *)
LEMMA CaptureFacts ==
    /\ CompactCapture \in Seq(Steps \cup {Whole("baseline")}) /\ Len(CompactCapture) > 3
    /\ CompactCapture[1] = Whole("baseline")
    /\ \A k \in 2..Len(CompactCapture) : CompactCapture[k] \in Steps
<1>1. "none" \in Named /\ "pre" \in Named /\ "post" \in Named
  BY DEF Named, Positions
<1>2. /\ \A name \in {"pre", "post"} :
           /\ Step("conform", name) \in Steps
           /\ Step("check", <<"before", name>>) \in Steps
           /\ Step("check", <<"after", name>>) \in Steps
      /\ Whole("finish") \in Steps
  BY <1>1, StepIsStep DEF Verbs, Whole
<1>3. PICK m \in Seq(Steps) : m = TimedMatrix
  BY MatrixIsSequence
<1>4. /\ CompactCapture \in Seq(Steps \cup {Whole("baseline")})
      /\ Len(CompactCapture) = Len(m) + 8
      /\ CompactCapture[1] = Whole("baseline")
      /\ \A k \in 2..Len(CompactCapture) : CompactCapture[k] \in Steps
  BY <1>2, <1>3, Framed DEF CompactCapture
<1>5. QED
  BY <1>4

Timed(h) == Len(Prologue(Provider[h])) + Len(CompactCapture)
BaselineAt(h) == Len(Prologue(Provider[h])) + 1
CheckedAt(h) == Timed(h) + IF Provider[h] = "local_linux" THEN 3 ELSE 2
AttestedAt(h) == Timed(h) + IF Provider[h] = "local_linux" THEN 2 ELSE 3

(* What is before and after the capture.                                      *)
Around == {Whole("start"), Whole("build"), Whole("upload"), Step("attest", "pre"),
           Step("attest", "post"), Step("check", <<"before", "archive">>),
           Whole("record"), Whole("provenance"), Whole("archive")}

(* A host attests its allocation second, if at all.                           *)
LEMMA PrologueFacts ==
    ASSUME NEW h \in Hosts
    PROVE  LET before == Prologue(Provider[h]) IN
           /\ before \in Seq(Around) /\ Len(before) \in {2, 3, 4}
           /\ before[1] = Whole(IF Provider[h] = "modal" THEN "upload" ELSE "start")
           /\ \A k \in 1..Len(before) :
                /\ before[k].does \notin {"benchmark", "baseline"}
                /\ before[k].does = "attest" => k = 2 /\ Provider[h] # "local"
<1>0. /\ Whole("start") \in Around /\ Whole("build") \in Around
      /\ Whole("upload") \in Around /\ Step("attest", "pre") \in Around
  BY DEF Around
<1>1. PICK before : before = Prologue(Provider[h])
  OBVIOUS
<1>2. CASE Provider[h] = "local"
  <2>1. before = <<Whole("start"), Whole("build")>>
    BY <1>1, <1>2 DEF Prologue
  <2>2. QED
    BY <1>1, <1>2, <2>1, SMTT(40) DEF Around, Step, Whole
<1>3. CASE Provider[h] = "local_linux"
  <2>1. before = <<Whole("start"), Step("attest", "pre"), Whole("build")>>
    BY <1>1, <1>3 DEF Prologue
  <2>2. before \in Seq(Around) /\ Len(before) = 3
    BY <1>0, <2>1
  <2>3. /\ before[1] = Whole("start") /\ before[2] = Step("attest", "pre")
        /\ before[3] = Whole("build")
    BY <2>1
  <2>4. QED
    BY <1>1, <1>3, <2>2, <2>3 DEF Step, Whole
<1>4. CASE Provider[h] = "modal"
  <2>1. before = <<Whole("upload"), Step("attest", "pre"), Whole("start"), Whole("build")>>
    BY <1>1, <1>4 DEF Prologue
  <2>2. before \in Seq(Around) /\ Len(before) = 4
    BY <1>0, <2>1
  <2>3. /\ before[1] = Whole("upload") /\ before[2] = Step("attest", "pre")
        /\ before[3] = Whole("start") /\ before[4] = Whole("build")
    BY <2>1
  <2>4. QED
    BY <1>1, <1>4, <2>2, <2>3 DEF Step, Whole
<1>5. QED
  BY <1>2, <1>3, <1>4, ProviderAssumption

(* After the capture it looks at the environment, and at the allocation.      *)
LEMMA EpilogueFacts ==
    ASSUME NEW h \in Hosts
    PROVE  LET after == Epilogue(Provider[h])
               linux == Provider[h] = "local_linux" IN
           /\ after \in Seq(Around)
           /\ Len(after) = IF Provider[h] = "local" THEN 1 ELSE 2
           /\ after[IF linux THEN 2 ELSE 1].does = "check"
           /\ Provider[h] # "local" =>
                after[IF linux THEN 1 ELSE 2] = Step("attest", "post")
           /\ \A k \in 1..Len(after) :
                /\ after[k].does \notin {"benchmark", "baseline"}
                /\ after[k].does = "attest" => after[k].of # "pre"
<1>0. Step("check", <<"before", "archive">>) \in Around /\ Step("attest", "post") \in Around
  BY DEF Around
<1>1. PICK after : after = Epilogue(Provider[h])
  OBVIOUS
<1>2. CASE Provider[h] = "local"
  <2>1. after = <<Step("check", <<"before", "archive">>)>>
    BY <1>1, <1>2 DEF Epilogue
  <2>2. QED
    BY <1>1, <1>2, <2>1 DEF Around, Step
<1>3. CASE Provider[h] = "local_linux"
  <2>1. after = <<Step("attest", "post"), Step("check", <<"before", "archive">>)>>
    BY <1>1, <1>3 DEF Epilogue
  <2>2. after \in Seq(Around) /\ Len(after) = 2
    BY <1>0, <2>1
  <2>3. /\ after[1] = Step("attest", "post")
        /\ after[2] = Step("check", <<"before", "archive">>)
    BY <2>1
  <2>4. QED
    BY <1>1, <1>3, <2>2, <2>3 DEF Step
<1>4. CASE Provider[h] = "modal"
  <2>1. after = <<Step("check", <<"before", "archive">>), Step("attest", "post")>>
    BY <1>1, <1>4 DEF Epilogue
  <2>2. after \in Seq(Around) /\ Len(after) = 2
    BY <1>0, <2>1
  <2>3. /\ after[1] = Step("check", <<"before", "archive">>)
        /\ after[2] = Step("attest", "post")
    BY <2>1
  <2>4. QED
    BY <1>1, <1>4, <2>2, <2>3 DEF Step
<1>5. QED
  BY <1>2, <1>3, <1>4, ProviderAssumption

(* A plan is the prologue, the capture, its record, the epilogue and the rest, *)
(* in a row.                                                                  *)
LEMMA PlanIsARow ==
    ASSUME NEW h \in Hosts
    PROVE  LET before == Prologue(Provider[h])
               middle == CompactCapture
               after == Epilogue(Provider[h])
               p == PlanOf[h] IN
           /\ Len(p) = Len(before) + Len(middle) + Len(after) + 3 /\ DOMAIN p = 1..Len(p)
           /\ \A k \in 1..Len(before) : p[k] = before[k]
           /\ \A k \in 1..Len(middle) : p[Len(before) + k] = middle[k]
           /\ p[Len(before) + Len(middle) + 1] = Whole("record")
           /\ \A k \in 1..Len(after) : p[Len(before) + Len(middle) + 1 + k] = after[k]
           /\ p[Len(before) + Len(middle) + Len(after) + 2] = Whole("provenance")
           /\ p[Len(before) + Len(middle) + Len(after) + 3] = Whole("archive")
<1>1. PICK before : before = Prologue(Provider[h])
  OBVIOUS
<1>2. PICK after : after = Epilogue(Provider[h])
  OBVIOUS
<1>3. PICK middle : middle = CompactCapture
  OBVIOUS
<1>4. PICK S : S = Around \cup Steps \cup {Whole("baseline")}
  OBVIOUS
<1>5. /\ before \in Seq(S) /\ after \in Seq(S) /\ middle \in Seq(S)
      /\ Whole("record") \in S /\ Whole("provenance") \in S /\ Whole("archive") \in S
  <2>1. before \in Seq(Around) /\ after \in Seq(Around)
    BY <1>1, <1>2, PrologueFacts, EpilogueFacts
  <2>2. middle \in Seq(Steps \cup {Whole("baseline")})
    BY <1>3, CaptureFacts
  <2>3. /\ Whole("record") \in S /\ Whole("provenance") \in S /\ Whole("archive") \in S
    BY <1>4 DEF Around
  <2>4. Seq(Around) \subseteq Seq(S) /\ Seq(Steps \cup {Whole("baseline")}) \subseteq Seq(S)
    BY <1>4
  <2>5. QED
    BY <2>1, <2>2, <2>3, <2>4
<1>6. PlanOf[h] = before \o middle \o <<Whole("record")>> \o after
                      \o <<Whole("provenance"), Whole("archive")>>
  BY <1>1, <1>2, <1>3, Zenon DEF PlanOf
<1>7. PICK x : x = <<Whole("record")>>
  OBVIOUS
<1>8. PICK y : y = <<Whole("provenance"), Whole("archive")>>
  OBVIOUS
<1> before \in Seq(S) /\ after \in Seq(S) /\ middle \in Seq(S)
  BY <1>5
<1> x \in Seq(S) /\ y \in Seq(S)
  BY <1>5, <1>7, <1>8
<1>9. Len(x) = 1 /\ x[1] = Whole("record")
  BY <1>7
<1>10. Len(y) = 2 /\ y[1] = Whole("provenance") /\ y[2] = Whole("archive")
  BY <1>8
<1>11. PICK q : q = before \o middle
  OBVIOUS
<1>12. PICK s : s = q \o x
  OBVIOUS
<1>13. PICK t : t = s \o after
  OBVIOUS
<1>14. PICK p : p = t \o y
  OBVIOUS
<1> q \in Seq(S)
  BY <1>11
<1> s \in Seq(S)
  BY <1>7, <1>12
<1> t \in Seq(S)
  BY <1>13
<1>15. /\ Len(q) = Len(before) + Len(middle) /\ Len(before) \in Nat /\ Len(middle) \in Nat
       /\ \A k \in 1..Len(before) : q[k] = before[k]
       /\ \A k \in 1..Len(middle) : q[Len(before) + k] = middle[k]
  BY <1>11
<1>16. /\ Len(s) = Len(q) + 1
       /\ \A k \in 1..Len(q) : s[k] = q[k]
       /\ s[Len(q) + 1] = Whole("record")
  <2>1. /\ Len(s) = Len(q) + Len(x) /\ Len(q) \in Nat
        /\ \A k \in 1..Len(q) : s[k] = q[k]
        /\ \A k \in 1..Len(x) : s[Len(q) + k] = x[k]
    BY <1>12
  <2>2. QED
    BY <1>9, <2>1
<1>17. /\ Len(t) = Len(s) + Len(after) /\ Len(after) \in Nat
       /\ \A k \in 1..Len(s) : t[k] = s[k]
       /\ \A k \in 1..Len(after) : t[Len(s) + k] = after[k]
  BY <1>13
<1>18. /\ Len(p) = Len(t) + 2 /\ DOMAIN p = 1..Len(p)
       /\ \A k \in 1..Len(t) : p[k] = t[k]
       /\ p[Len(t) + 1] = Whole("provenance") /\ p[Len(t) + 2] = Whole("archive")
  <2>1. /\ Len(p) = Len(t) + Len(y) /\ DOMAIN p = 1..Len(p) /\ Len(t) \in Nat
        /\ \A k \in 1..Len(t) : p[k] = t[k]
        /\ \A k \in 1..Len(y) : p[Len(t) + k] = y[k]
    BY <1>14
  <2>2. QED
    BY <1>10, <2>1
<1>19. \A k \in 1..Len(middle) : p[Len(before) + k] = middle[k]
  <2>1. TAKE k \in 1..Len(middle)
  <2>2. PICK i : i = Len(before) + k
    OBVIOUS
  <2>3. i \in 1..Len(q) /\ i \in 1..Len(s) /\ i \in 1..Len(t)
    BY <1>15, <1>16, <1>17, <2>2
  <2>4. p[i] = t[i] /\ t[i] = s[i] /\ s[i] = q[i]
    BY <1>16, <1>17, <1>18, <2>3
  <2>5. q[Len(before) + k] = middle[k]
    BY <1>15, <2>1
  <2>6. QED
    BY <2>2, <2>4, <2>5, Zenon
<1>20. \A k \in 1..Len(after) : p[Len(before) + Len(middle) + 1 + k] = after[k]
  <2>1. TAKE k \in 1..Len(after)
  <2>2. Len(s) + k \in 1..Len(t) /\ Len(s) + k = Len(before) + Len(middle) + 1 + k
    BY <1>15, <1>16, <1>17
  <2>3. QED
    BY <1>17, <1>18, <2>2
<1>21. \A k \in 1..Len(before) : p[k] = before[k]
  <2>1. TAKE k \in 1..Len(before)
  <2>2. k \in 1..Len(q) /\ k \in 1..Len(s) /\ k \in 1..Len(t)
    BY <1>15, <1>16, <1>17
  <2>3. p[k] = t[k] /\ t[k] = s[k] /\ s[k] = q[k] /\ q[k] = before[k]
    BY <1>15, <1>16, <1>17, <1>18, <2>2
  <2>4. QED
    BY <2>3
<1>22. p[Len(before) + Len(middle) + 1] = Whole("record")
  <2>1. /\ Len(q) + 1 \in 1..Len(s) /\ Len(q) + 1 \in 1..Len(t)
        /\ Len(q) + 1 = Len(before) + Len(middle) + 1
    BY <1>15, <1>16, <1>17
  <2>2. QED
    BY <1>16, <1>17, <1>18, <2>1
<1>23. p = PlanOf[h]
  BY <1>6, <1>7, <1>8, <1>11, <1>12, <1>13, <1>14
<1>24. /\ Len(p) = Len(before) + Len(middle) + Len(after) + 3 /\ DOMAIN p = 1..Len(p)
       /\ p[Len(before) + Len(middle) + Len(after) + 2] = Whole("provenance")
       /\ p[Len(before) + Len(middle) + Len(after) + 3] = Whole("archive")
  BY <1>15, <1>16, <1>17, <1>18
<1>25. QED
  BY <1>1, <1>2, <1>3, <1>19, <1>20, <1>21, <1>22, <1>23, <1>24, Zenon

(* What the proofs use of a plan: it begins with the comparison of the upload *)
(* in the sandbox and with the capture's start on a local host, attests the   *)
(* allocation and takes the baseline once, before anything is measured, and   *)
(* looks at environment and allocation once more after the last benchmark.    *)
LEMMA PlanFacts ==
    ASSUME NEW h \in Hosts
    PROVE  /\ Timed(h) \in Nat /\ BaselineAt(h) \in Nat /\ Len(PlanOf[h]) \in Nat
           /\ DOMAIN PlanOf[h] = 1..Len(PlanOf[h])
           /\ 2 < BaselineAt(h) /\ BaselineAt(h) < Timed(h) /\ Timed(h) + 3 < Len(PlanOf[h])
           /\ PlanOf[h][1] = Whole(IF Provider[h] = "modal" THEN "upload" ELSE "start")
           /\ \A k \in DOMAIN PlanOf[h] :
                /\ PlanOf[h][k].does = "benchmark" => k <= Timed(h)
                /\ PlanOf[h][k].does = "baseline" => k = BaselineAt(h)
                /\ PlanOf[h][k].does = "attest" /\ PlanOf[h][k].of = "pre" =>
                     k = 2 /\ Provider[h] # "local"
           /\ PlanOf[h][CheckedAt(h)].does = "check"
           /\ Provider[h] # "local" => PlanOf[h][AttestedAt(h)] = Step("attest", "post")
<1>1. PICK before : before = Prologue(Provider[h])
  OBVIOUS
<1>2. PICK after : after = Epilogue(Provider[h])
  OBVIOUS
<1>3. PICK middle : middle = CompactCapture
  OBVIOUS
<1>7. PICK b \in {2, 3, 4} : Len(before) = b
  BY <1>1, PrologueFacts
<1>8. PICK e \in {1, 2} : Len(after) = e /\ e = IF Provider[h] = "local" THEN 1 ELSE 2
  BY <1>2, EpilogueFacts
<1>9. PICK c \in Nat : Len(middle) = c /\ c > 3
  BY <1>3, CaptureFacts
<1>10. PICK t \in Nat : Timed(h) = t /\ t = b + c
  BY <1>1, <1>3, <1>7, <1>9 DEF Timed
<1>11. PICK p : p = PlanOf[h]
  OBVIOUS
<1>12. /\ Len(p) = b + c + e + 3 /\ DOMAIN p = 1..Len(p)
       /\ \A k \in 1..b : p[k] = before[k]
       /\ \A k \in 1..c : p[b + k] = middle[k]
       /\ p[b + c + 1] = Whole("record")
       /\ \A k \in 1..e : p[b + c + 1 + k] = after[k]
       /\ p[b + c + e + 2] = Whole("provenance")
       /\ p[b + c + e + 3] = Whole("archive")
  <2>1. /\ Len(p) = Len(before) + Len(middle) + Len(after) + 3 /\ DOMAIN p = 1..Len(p)
        /\ \A k \in 1..Len(before) : p[k] = before[k]
        /\ \A k \in 1..Len(middle) : p[Len(before) + k] = middle[k]
        /\ p[Len(before) + Len(middle) + 1] = Whole("record")
        /\ \A k \in 1..Len(after) : p[Len(before) + Len(middle) + 1 + k] = after[k]
        /\ p[Len(before) + Len(middle) + Len(after) + 2] = Whole("provenance")
        /\ p[Len(before) + Len(middle) + Len(after) + 3] = Whole("archive")
    BY <1>1, <1>2, <1>3, <1>11, PlanIsARow
  <2>2. QED
    BY <1>7, <1>8, <1>9, <2>1
<1>13. BaselineAt(h) = b + 1
  BY <1>1, <1>7 DEF BaselineAt
<1>14. ASSUME NEW k \in 1..Len(p)
       PROVE  /\ p[k].does = "benchmark" => k <= t
              /\ p[k].does = "baseline" => k = b + 1
              /\ p[k].does = "attest" /\ p[k].of = "pre" => k = 2 /\ Provider[h] # "local"
  <2>1. CASE k \in 1..b
    <3>1. p[k] = before[k]
      BY <1>12, <2>1
    <3>2. /\ before[k].does \notin {"benchmark", "baseline"}
          /\ before[k].does = "attest" => k = 2 /\ Provider[h] # "local"
      BY <1>1, <1>7, <2>1, PrologueFacts
    <3>3. QED
      BY <3>1, <3>2, Zenon
  <2>2. CASE k \in (b + 1)..t
    <3>1. PICK j \in 1..c : k = b + j
      BY <1>9, <1>10, <2>2
    <3>2. p[k] = middle[j]
      BY <1>12, <3>1
    <3>3. CASE j = 1
      <4>1. p[k] = Whole("baseline")
        BY <1>3, <3>2, <3>3, CaptureFacts
      <4>2. QED
        BY <2>2, <3>1, <3>3, <4>1 DEF Step, Whole
    <3>4. CASE j # 1
      <4>1. p[k] \in Steps
        BY <1>3, <1>9, <3>1, <3>2, <3>4, CaptureFacts
      <4>2. p[k].does \notin {"baseline", "attest"}
        BY <4>1 DEF Steps, Verbs
      <4>3. QED
        BY <2>2, <4>2
    <3>5. QED
      BY <3>3, <3>4
  <2>3. CASE k \in (t + 2)..(t + 1 + e)
    <3>1. PICK j \in 1..e : k = b + c + 1 + j
      BY <1>10, <2>3
    <3>2. p[k] = after[j]
      BY <1>12, <3>1
    <3>3. /\ after[j].does \notin {"benchmark", "baseline"}
          /\ after[j].does = "attest" => after[j].of # "pre"
      BY <1>2, <1>8, EpilogueFacts
    <3>4. QED
      BY <3>2, <3>3
  <2>4. CASE k \in {t + 1, t + e + 2, t + e + 3}
    <3>1. p[k] \in {Whole("record"), Whole("provenance"), Whole("archive")}
      BY <1>10, <1>12, <2>4
    <3>2. QED
      BY <3>1 DEF Step, Whole
  <2>5. QED
    BY <1>10, <1>12, <2>1, <2>2, <2>3, <2>4
<1>15. p[CheckedAt(h)].does = "check"
  <2>1. PICK j \in 1..e : CheckedAt(h) = b + c + 1 + j
                            /\ j = IF Provider[h] = "local_linux" THEN 2 ELSE 1
    BY <1>8, <1>10 DEF CheckedAt
  <2>2. after[j].does = "check"
    BY <1>2, <2>1, EpilogueFacts
  <2>3. QED
    BY <1>12, <2>1, <2>2
<1>16. ASSUME Provider[h] # "local"
       PROVE  p[AttestedAt(h)] = Step("attest", "post")
  <2>1. PICK j \in 1..e : AttestedAt(h) = b + c + 1 + j
                            /\ j = IF Provider[h] = "local_linux" THEN 1 ELSE 2
    BY <1>8, <1>10, <1>16 DEF AttestedAt
  <2>2. after[j] = Step("attest", "post")
    BY <1>2, <1>16, <2>1, EpilogueFacts
  <2>3. QED
    BY <1>12, <2>1, <2>2
<1>17. p[1] = Whole(IF Provider[h] = "modal" THEN "upload" ELSE "start")
  <2>1. 1 \in 1..b
    OBVIOUS
  <2>2. QED
    BY <1>1, <1>12, <2>1, PrologueFacts
<1>18. /\ Timed(h) \in Nat /\ BaselineAt(h) \in Nat /\ Len(p) \in Nat
       /\ 2 < BaselineAt(h) /\ BaselineAt(h) < Timed(h) /\ Timed(h) + 3 < Len(p)
  <2>1. Len(p) = t + e + 3 /\ b + 1 < t
    BY <1>9, <1>10, <1>12
  <2>2. QED
    BY <1>10, <1>13, <2>1
<1>19. QED
  BY <1>10, <1>11, <1>12, <1>13, <1>14, <1>15, <1>16, <1>17, <1>18

-------------------------------------------------------------------------------
(* The invariant of the hosts                                                 *)

(* The checkout is at one of its versions.                                    *)
CheckoutHolds ==
    /\ DOMAIN checkout = {"head", "tree"}
    /\ checkout.head \in Versions /\ checkout.tree \in Versions
    /\ DOMAIN disk = {"archive", "unvalidated"} /\ DOMAIN disk.archive = Hosts
    /\ DOMAIN capture = Hosts

HostShape(h) ==
    /\ DOMAIN capture[h] = {"at", "failed", "clock", "environment", "baseline", "allocation",
                            "image", "workspace", "artifact"}
    /\ DOMAIN Artifact(h) = {"source", "started", "created", "completed", "masks", "wheel",
                             "build", "checkpoints", "reports", "results", "noise",
                             "failures", "members"}
    /\ capture[h].at \in Nat
    /\ capture[h].environment \in Nat /\ capture[h].baseline \in {0, 1}
    /\ capture[h].allocation \in Nat /\ Artifact(h).masks \in {0, 1}

(* Environment and allocation change after they were first looked at only.    *)
FirstLooks(h) ==
    /\ capture[h].environment >= 1 /\ capture[h].allocation >= 1
    /\ capture[h].baseline # 0 => capture[h].at > BaselineAt(h)
    /\ capture[h].environment # 1 => capture[h].baseline = 1
    /\ Artifact(h).masks # 0 => capture[h].at > 2 /\ Provider[h] # "local"
    /\ capture[h].allocation # 1 => Artifact(h).masks = 1

ResultsHold(a) ==
    /\ \A t \in DOMAIN a.results : a.results[t].speed \in {"met", "noisy", "slow"}
    /\ \A t \in BudgetSet : <<"benchmark", t>> \in a.members => t \in DOMAIN a.results

AllUndisturbed(a) == \A t \in DOMAIN a.results : a.results[t].undisturbed

(* A result that was disturbed leaves a mark, which the last looks see unless *)
(* it was taken away.                                                         *)
DisturbancesShow(h) ==
    LET a == Artifact(h)
        checked == capture[h].at > CheckedAt(h)
        attested == Provider[h] = "local" \/ capture[h].at > AttestedAt(h) IN
    Steady /\ (capture[h].environment = 1 \/ checked)
           /\ (capture[h].allocation = 1 \/ attested)
      => AllUndisturbed(a)

(* A wheel of the sandbox is of the source its capture names, a local one of  *)
(* that source or what the checkout has become since.                         *)
WheelIsOf(h, a, tree, restored) ==
    <<"wheel">> \in a.members =>
        IF Provider[h] = "modal"
        THEN a.wheel = a.source
        ELSE /\ a.wheel \in Versions
             /\ restored \/ (a.source <= a.wheel /\ a.wheel <= tree)

WheelHolds(h) == WheelIsOf(h, Artifact(h), checkout.tree, Restored)

(* The image was compared with the source; a local source is of the checkout. *)
SourceHolds(h) ==
    /\ capture[h].at = 0 => Artifact(h).members = {}
    /\ IF Provider[h] = "modal"
       THEN capture[h].at > 1 => capture[h].image.tree = Artifact(h).source
       ELSE /\ Artifact(h).source \in Versions \cup {0}
            /\ Restored \/ Artifact(h).source <= checkout.tree

(* A local capture that has started has a workspace, or its archive.          *)
WorkspaceHolds(h) ==
    Provider[h] # "modal" /\ capture[h].at > 1 =>
        disk.archive[h] # <<>> \/ capture[h].workspace

HostHolds(h) ==
    /\ HostShape(h) /\ FirstLooks(h) /\ ResultsHold(Artifact(h)) /\ DisturbancesShow(h)
    /\ WheelHolds(h) /\ SourceHolds(h) /\ WorkspaceHolds(h)

-------------------------------------------------------------------------------
(* The invariant of the sandbox and of those who use it                       *)

SandboxShape ==
    /\ DOMAIN control = {"at", "defer", "source", "holds", "failed", "exit", "payload"}
    /\ control.at \in {"hydrate", "main", "create", "exec", "wait", "join", "read",
                       "terminate", "detach", "keep", "ended", "killed"}
    /\ control.failed \in BOOLEAN
    /\ DOMAIN remote = {"sandbox", "attached", "exit", "output", "written"}
    /\ remote.exit \in {-1, 0, 1, 137} /\ remote.written \in [Streams -> Nat]
    /\ stream \in [Streams -> [at : {"idle", "reading", "ended", "broken"}, read : Nat]]
    /\ DOMAIN finalizer = {"at", "source", "payload", "attempts"}
    /\ finalizer.at \in {"idle", "read", "write", "unlink"}
    /\ ~OnModal => control.at = "hydrate" /\ remote.sandbox = "none"

Unstarted == control.at \in {"hydrate", "main", "create", "exec"}

(* Before the worker is started nothing of it is there.                       *)
NothingEarly ==
    Unstarted =>
        /\ remote.exit = -1
        /\ OnModal => capture[VM].at = 0
        /\ \A s \in Streams : stream[s].at = "idle" /\ stream[s].read = 0
        /\ "stream" \notin faults.kinds

(* Streams are read as they were written, and end when the worker has.        *)
StreamsHold ==
    /\ \A s \in Streams : stream[s].read <= remote.written[s]
    /\ \A s \in Streams : stream[s].at = "ended" =>
         stream[s].read = remote.written[s] /\ remote.exit # -1
    /\ "stream" \in faults.kinds =>
         control.at = "killed" \/ \E s \in Streams : stream[s].at = "broken"

ExitsHold ==
    /\ "worker" \in faults.kinds => remote.exit = 137
    /\ remote.exit = 0 => remote.output # <<>>
    /\ control.at = "join" => control.exit = remote.exit /\ remote.exit # -1

(* What is to become a payload.                                               *)
Fetched ==
    \/ control.at \in {"read", "keep"}
    \/ control.at \in {"terminate", "detach"} /\ ~control.failed

EndedWell ==
    /\ remote.exit = 0
    /\ \A s \in Streams : stream[s].at = "ended"
    /\ faults.kinds \cap {"stream", "worker"} = {}

ReleasesHold ==
    /\ "terminate" \in faults.kinds \/ "detach" \in faults.kinds => control.failed
    /\ control.failed => control.at \in {"terminate", "detach", "ended", "killed"}
    /\ Fetched => EndedWell
    /\ Fetched /\ control.at # "read" => control.payload # <<>>
    /\ control.at = "keep" \/ (control.at = "detach" /\ ~control.failed) =>
         remote.sandbox = "terminated"
    /\ control.at = "keep" => ~remote.attached

Kept ==
    \/ disk.unvalidated # <<>> \/ disk.archive[VM] # <<>> \/ finalizer.at # "idle"

Released ==
    /\ control.at \in {"ended", "killed"} /\ ~control.failed
    /\ remote.exit = 0 /\ remote.sandbox = "terminated" /\ ~remote.attached
    /\ \A s \in Streams : /\ stream[s].read = remote.written[s]
                          /\ stream[s].at \in {"ended", "idle"}
    /\ faults.kinds \cap {"stream", "worker", "terminate", "detach"} = {}

KeptHolds ==
    /\ OnModal /\ Kept => Released
    /\ ~OnModal => finalizer.at = "idle" /\ disk.unvalidated = <<>>
    /\ finalizer.at = "read" => disk.unvalidated # <<>>
    /\ finalizer.at = "write" => finalizer.payload # <<>>
    /\ finalizer.at = "unlink" => disk.archive[VM] # <<>>
    /\ OnModal /\ control.at = "ended" /\ ~control.failed =>
         disk.archive[VM] # <<>> \/ disk.unvalidated # <<>>

SandboxHolds ==
    /\ SandboxShape /\ NothingEarly /\ StreamsHold /\ ExitsHold
    /\ ReleasesHold /\ KeptHolds

-------------------------------------------------------------------------------
(* What is kept, archived and certified                                       *)

(* The artifact of a capture that was completed.                              *)
Sound(h, payload, tree, restored, steady) ==
    payload # <<>> =>
        /\ ResultsHold(payload[1]) /\ (steady => AllUndisturbed(payload[1]))
        /\ WheelIsOf(h, payload[1], tree, restored)

SoundNow(h, payload) == Sound(h, payload, checkout.tree, Restored, Steady)

(* Every file and every message that holds one of a host.                     *)
Payloads(h) ==
    {disk.archive[h]} \cup
    IF h = VM THEN {remote.output, control.payload, finalizer.payload, disk.unvalidated}
              ELSE {}

PayloadsAreSound == \A h \in Hosts : \A payload \in Payloads(h) : SoundNow(h, payload)

(* What ReleasesRestOnBothCaptures says of one artifact.                      *)
RestsOn(taken, source, h, restored, steady) ==
    /\ taken.source = source
    /\ Provider[h] = "modal" \/ ~restored => taken.wheel = source
    /\ \A t \in BudgetSet :
         /\ taken.results[t].wheel = taken.wheel
         /\ taken.results[t].workload = WorkloadOf[source]
         /\ steady => taken.results[t].undisturbed

Rests(artifact, restored, steady) ==
    /\ \A h \in Hosts : RestsOn(artifact.captures[h], artifact.source, h, restored, steady)
    /\ artifact.releasable <=>
         \A h \in Hosts, t \in BudgetSet : artifact.captures[h].results[t].speed = "met"

CertificatesHold ==
    /\ DOMAIN certifier = {"at", "artifact", "runs"}
    /\ DOMAIN release = {"artifact", "report", "accepted"}
    /\ \A i \in DOMAIN certifier.artifact : Rests(certifier.artifact[i], Restored, Steady)
    /\ \A i \in DOMAIN release.artifact : Rests(release.artifact[i], Restored, Steady)

Inv ==
    /\ CheckoutHolds /\ (\A h \in Hosts : HostHolds(h))
    /\ SandboxHolds /\ PayloadsAreSound /\ CertificatesHold

-------------------------------------------------------------------------------
(* What is left alone                                                         *)

(* There are two hosts, and the one that is no virtual machine is local.      *)
LEMMA HostsAre ==
    VM \in Hosts /\ Hosts = {"arm64", "x86_64"} /\ Provider["arm64"] = "local"
BY ProviderAssumption DEF VM, Hosts

(* The initial states satisfy the invariant.                                  *)
LEMMA Initially == Init => Inv
<1> SUFFICES ASSUME Init PROVE Inv
  OBVIOUS
<1> USE DEF Init, CaptureInit, SandboxInit, CertificateInit
<1>1. CheckoutHolds
  BY VersionsAssumption DEF CheckoutHolds
<1>2. ASSUME NEW h \in Hosts PROVE HostHolds(h)
  <2>1. capture[h] = [at |-> 0, failed |-> FALSE, clock |-> ClockStep * MaxFaults, environment |-> 1,
                      baseline |-> 0, allocation |-> 1, image |-> NoImage,
                      workspace |-> FALSE, artifact |-> NoArtifact]
    OBVIOUS
  <2>2. HostShape(h) /\ FirstLooks(h) /\ WorkspaceHolds(h)
    BY <2>1 DEF HostShape, FirstLooks, WorkspaceHolds, Artifact, NoArtifact
  <2>3. /\ ResultsHold(Artifact(h)) /\ DisturbancesShow(h)
        /\ WheelHolds(h)
    BY <2>1 DEF ResultsHold, DisturbancesShow, AllUndisturbed, WheelHolds, WheelIsOf,
      Artifact, NoArtifact
  <2>4. SourceHolds(h)
    BY <2>1, VersionsAssumption DEF SourceHolds, Artifact, NoArtifact
  <2>5. QED
    BY <2>2, <2>3, <2>4 DEF HostHolds
<1>3. SandboxHolds
  <2>1. SandboxShape /\ NothingEarly
    BY HostsAre DEF SandboxShape, NothingEarly, OnModal, Streams
  <2>2. StreamsHold /\ ExitsHold
    BY DEF StreamsHold, ExitsHold
  <2>3. ReleasesHold /\ KeptHolds
    BY HostsAre DEF ReleasesHold, KeptHolds, Kept, Fetched
  <2>4. QED
    BY <2>1, <2>2, <2>3 DEF SandboxHolds
<1>4. PayloadsAreSound /\ CertificatesHold
  BY DEF PayloadsAreSound, Payloads, SoundNow, Sound, CertificatesHold
<1>5. QED
  BY <1>1, <1>2, <1>3, <1>4 DEF Inv

(* What has gone wrong with the sandbox, of what the proofs look at.          *)
Watched == {"stream", "worker", "terminate", "detach"}

(* Whatever goes wrong is noted, and so is what was brought back.             *)
LEMMA FaultIsNoted ==
    ASSUME NEW kind, Fault(kind) \/ Restoration(kind)
    PROVE  /\ faults.kinds \subseteq faults'.kinds /\ kind \in faults'.kinds
           /\ kind \notin Watched => faults'.kinds \cap Watched = faults.kinds \cap Watched
           /\ kind \in {"environment_restored", "allocation_restored"} => ~Steady'
<1>1. faults'.kinds = faults.kinds \cup {kind}
  BY DEF Fault, Restoration
<1>2. /\ faults.kinds \subseteq faults'.kinds /\ kind \in faults'.kinds
      /\ kind \notin Watched => faults'.kinds \cap Watched = faults.kinds \cap Watched
  BY <1>1
<1>3. kind \in {"environment_restored", "allocation_restored"} => ~Steady'
  BY <1>1 DEF Steady
<1>4. QED
  BY <1>2, <1>3

(* The controller and its sandbox keep their invariant while others work.     *)
LEMMA SandboxFrame ==
    ASSUME SandboxHolds, UNCHANGED sandboxVars,
           faults'.kinds \cap Watched = faults.kinds \cap Watched,
           disk'.unvalidated = disk.unvalidated,
           OnModal => disk'.archive[VM] = disk.archive[VM],
           OnModal /\ Unstarted => capture'[VM].at = capture[VM].at
    PROVE  SandboxHolds'
<1> USE DEF sandboxVars
<1>1. SandboxShape' /\ StreamsHold' /\ ExitsHold'
  BY DEF SandboxHolds, SandboxShape, StreamsHold, ExitsHold, Watched, OnModal
<1>2. NothingEarly'
  BY DEF SandboxHolds, NothingEarly, Watched, OnModal, Unstarted
<1>3. ReleasesHold'
  BY DEF SandboxHolds, ReleasesHold, Fetched, EndedWell, Watched
<1>4. KeptHolds'
  BY DEF SandboxHolds, KeptHolds, Kept, Released, Watched, OnModal
<1>5. QED
  BY <1>1, <1>2, <1>3, <1>4 DEF SandboxHolds

(* What was brought back is never forgotten, and until then the checkout goes *)
(* from one version to a later one.                                           *)
Onward ==
    /\ checkout.tree \in Versions /\ checkout'.tree \in Versions
    /\ Restored => Restored'
    /\ Steady' => Steady
    /\ Restored' \/ checkout.tree <= checkout'.tree

(* This is so because whatever goes wrong is noted.                           *)
LEMMA NotedIsOnward ==
    ASSUME CheckoutHolds, checkout'.tree \in Versions, faults.kinds \subseteq faults'.kinds,
           "checkout_restored" \in faults'.kinds \/ checkout'.tree = checkout.tree
             \/ checkout.tree <= checkout'.tree
    PROVE  Onward
<1>1. checkout.tree <= checkout.tree
  <2>1. checkout.tree \in Nat
    BY VersionsAssumption DEF CheckoutHolds
  <2>2. QED
    BY <2>1
<1>2. Restored' \/ checkout.tree <= checkout'.tree
  <2>1. CASE "checkout_restored" \in faults'.kinds
    BY <2>1 DEF Restored
  <2>2. CASE checkout'.tree = checkout.tree
    BY <1>1, <2>2
  <2>3. CASE checkout.tree <= checkout'.tree
    BY <2>3
  <2>4. QED
    BY <2>1, <2>2, <2>3
<1>3. (Restored => Restored') /\ (Steady' => Steady)
  BY DEF Restored, Steady
<1>4. QED
  BY <1>2, <1>3 DEF Onward, CheckoutHolds

(* A host keeps its invariant while it does nothing.                          *)
LEMMA HostFrame ==
    ASSUME NEW h \in Hosts, HostHolds(h),
           DOMAIN capture'[h] = DOMAIN capture[h],
           capture'[h].at = capture[h].at, capture'[h].environment = capture[h].environment,
           capture'[h].baseline = capture[h].baseline,
           capture'[h].allocation = capture[h].allocation,
           capture'[h].image = capture[h].image, capture'[h].artifact = capture[h].artifact,
           capture'[h].workspace = capture[h].workspace \/ disk'.archive[h] # <<>>,
           disk.archive[h] # <<>> => disk'.archive[h] # <<>>,
           Onward
    PROVE  HostHolds(h)'
<1> USE DEF HostHolds, Artifact
<1>1. HostShape(h)' /\ FirstLooks(h)' /\ ResultsHold(Artifact(h))'
  BY DEF HostShape, FirstLooks, ResultsHold
<1>2. DisturbancesShow(h)'
  BY DEF DisturbancesShow, AllUndisturbed, CheckedAt, AttestedAt, Timed, Onward
<1>3. WheelHolds(h)'
  BY VersionsAssumption DEF WheelHolds, WheelIsOf, Onward
<1>4. SourceHolds(h)' /\ WorkspaceHolds(h)'
  BY VersionsAssumption DEF SourceHolds, WorkspaceHolds, Onward
<1>5. QED
  BY <1>1, <1>2, <1>3, <1>4

(* What is sound stays so.                                                    *)
LEMMA SoundOnward ==
    ASSUME NEW h \in Hosts, NEW payload, SoundNow(h, payload), Onward
    PROVE  Sound(h, payload, checkout'.tree, Restored', Steady')
<1>1. SUFFICES ASSUME payload # <<>>
               PROVE  /\ Steady' => AllUndisturbed(payload[1])
                      /\ WheelIsOf(h, payload[1], checkout'.tree, Restored')
  BY DEF SoundNow, Sound
<1>2. Steady' => AllUndisturbed(payload[1])
  BY <1>1 DEF SoundNow, Sound, Onward
<1>3. WheelIsOf(h, payload[1], checkout'.tree, Restored')
  BY <1>1, VersionsAssumption, SMTT(40) DEF SoundNow, Sound, WheelIsOf, Onward
<1>4. QED
  BY <1>2, <1>3

(* What is kept now was kept, or is sound itself.                             *)
LEMMA PayloadsFrame ==
    ASSUME PayloadsAreSound, Onward,
           \A h \in Hosts : \A payload \in Payloads(h)' :
             payload \in Payloads(h) \/ SoundNow(h, payload)
    PROVE  PayloadsAreSound'
<1>1. ASSUME NEW h \in Hosts, NEW payload \in Payloads(h)'
      PROVE  Sound(h, payload, checkout'.tree, Restored', Steady')
  <2>1. SoundNow(h, payload)
    BY DEF PayloadsAreSound
  <2>2. QED
    BY <2>1, SoundOnward
<1>2. QED
  BY <1>1 DEF PayloadsAreSound, SoundNow

(* A certification that is written rests where it did.                        *)
LEMMA CertificatesFrame ==
    ASSUME CertificatesHold, Onward,
           DOMAIN certifier' = DOMAIN certifier, certifier'.artifact = certifier.artifact,
           UNCHANGED release
    PROVE  CertificatesHold'
<1>1. ASSUME NEW artifact, Rests(artifact, Restored, Steady)
      PROVE  Rests(artifact, Restored', Steady')
  BY <1>1 DEF Rests, RestsOn, Onward
<1>2. QED
  BY <1>1 DEF CertificatesHold

-------------------------------------------------------------------------------
(* The steps of a host                                                        *)

(* While a host works its next step is one of its plan.                       *)
LEMMA Elsewhere ==
    ASSUME NEW h \in Hosts, NEW what, Does(h, what)
    PROVE  /\ Working(h) /\ capture[h].at \in Nat /\ capture[h].at >= 1
           /\ what # "check" => capture[h].at # CheckedAt(h)
           /\ what # "attest" /\ Provider[h] # "local" => capture[h].at # AttestedAt(h)
           /\ Provider[h] # "modal" /\ what # "start" => capture[h].at # 1
           /\ Provider[h] = "modal" /\ what # "upload" => capture[h].at # 1
           /\ what = "benchmark" => capture[h].at <= Timed(h)
           /\ what = "baseline" => capture[h].at = BaselineAt(h)
           /\ what = "attest" /\ Subject(h) = "pre" =>
                /\ capture[h].at = 2 /\ Provider[h] # "local"
                /\ capture[h].at # AttestedAt(h)
<1>1. PICK at : at = capture[h].at
  OBVIOUS
<1>2. /\ Working(h) /\ at \in DOMAIN PlanOf[h] /\ PlanOf[h][at].does = what
      /\ Subject(h) = PlanOf[h][at].of
  BY <1>1 DEF Does, Working, Subject
<1>3. at \in Nat /\ at >= 1
  BY <1>2, PlanFacts
<1>4. what # "check" => at # CheckedAt(h)
  BY <1>2, PlanFacts
<1>5. /\ what # "attest" /\ Provider[h] # "local" => at # AttestedAt(h)
      /\ Provider[h] # "local" /\ Subject(h) = "pre" => at # AttestedAt(h)
  <2>1. Step("attest", "post").does = "attest" /\ Step("attest", "post").of = "post"
    BY DEF Step
  <2>2. QED
    BY <1>2, <2>1, PlanFacts
<1>6. /\ Provider[h] # "modal" /\ what # "start" => at # 1
      /\ Provider[h] = "modal" /\ what # "upload" => at # 1
  <2>1. PlanOf[h][1] = Whole(IF Provider[h] = "modal" THEN "upload" ELSE "start")
    BY PlanFacts
  <2>2. PlanOf[h][1].does = IF Provider[h] = "modal" THEN "upload" ELSE "start"
    BY <2>1 DEF Whole, Step
  <2>3. QED
    BY <1>2, <2>2
<1>7. /\ what = "benchmark" => at <= Timed(h)
      /\ what = "baseline" => at = BaselineAt(h)
      /\ what = "attest" /\ Subject(h) = "pre" => at = 2 /\ Provider[h] # "local"
  BY <1>2, PlanFacts
<1>8. QED
  BY <1>1, <1>2, <1>3, <1>4, <1>5, <1>6, <1>7

(* Artifacts that differ in nothing the invariant is about.                   *)
Alike(a, b) ==
    /\ DOMAIN b = DOMAIN a
    /\ b.source = a.source /\ b.masks = a.masks /\ b.wheel = a.wheel /\ b.results = a.results
    /\ <<"wheel">> \in b.members => <<"wheel">> \in a.members
    /\ \A t \in BudgetSet : <<"benchmark", t>> \in b.members => <<"benchmark", t>> \in a.members

(* A step that changes nothing the invariant is about keeps it, when it is    *)
(* not a last look at something that has changed.                             *)
LEMMA StepHolds ==
    ASSUME NEW h \in Hosts, HostHolds(h), Working(h),
           DOMAIN capture'[h] = DOMAIN capture[h],
           capture'[h].at = capture[h].at + 1,
           capture'[h].environment = capture[h].environment,
           capture'[h].baseline = capture[h].baseline,
           capture'[h].allocation = capture[h].allocation,
           capture'[h].image = capture[h].image,
           Alike(capture[h].artifact, capture'[h].artifact),
           capture'[h].workspace \/
             (capture'[h].workspace = capture[h].workspace
                /\ (Provider[h] # "modal" => capture[h].at # 1)),
           capture[h].at = CheckedAt(h) => capture[h].environment = 1,
           Provider[h] # "local" /\ capture[h].at = AttestedAt(h) =>
             capture[h].allocation = 1,
           Provider[h] = "modal" /\ capture[h].at = 1 =>
             capture[h].image.tree = capture[h].artifact.source,
           Onward, UNCHANGED <<checkout, disk>>
    PROVE  HostHolds(h)'
<1> USE DEF HostHolds, Artifact, Alike
<1>0. /\ capture[h].at \in Nat /\ capture[h].at >= 1 /\ CheckedAt(h) \in Nat
      /\ AttestedAt(h) \in Nat /\ BaselineAt(h) \in Nat
  BY PlanFacts, SMTT(40) DEF HostShape, Working, CheckedAt, AttestedAt
<1>1. HostShape(h)' /\ FirstLooks(h)'
  BY <1>0 DEF HostShape, FirstLooks, BaselineAt
<1>2. ResultsHold(Artifact(h))'
  BY DEF ResultsHold
<1>3. DisturbancesShow(h)'
  BY <1>0 DEF DisturbancesShow, AllUndisturbed, HostShape, Onward
<1>4. WheelHolds(h)' /\ WorkspaceHolds(h)'
  BY <1>0 DEF WheelHolds, WheelIsOf, WorkspaceHolds, Onward
<1>5. SourceHolds(h)'
  BY <1>0 DEF SourceHolds, Onward
<1>6. QED
  BY <1>1, <1>2, <1>3, <1>4, <1>5

(* The same for steps that only write to the artifact.                        *)
LEMMA ProgressHolds ==
    ASSUME NEW h \in Hosts, CheckoutHolds, HostHolds(h),
           NEW what, what # "start", Does(h, what),
           what = "check" => capture[h].environment = 1,
           what = "attest" /\ Provider[h] # "local" => capture[h].allocation = 1,
           what = "upload" => capture[h].image.tree = Artifact(h).source,
           Onward, NEW artifact, Alike(Artifact(h), artifact), Progress(h, artifact)
    PROVE  HostHolds(h)'
<1>1. DOMAIN capture = Hosts /\ HostShape(h)
  BY DEF CheckoutHolds, HostHolds
<1>2. /\ DOMAIN capture'[h] = DOMAIN capture[h] /\ capture'[h].at = capture[h].at + 1
      /\ capture'[h].environment = capture[h].environment
      /\ capture'[h].baseline = capture[h].baseline
      /\ capture'[h].allocation = capture[h].allocation
      /\ capture'[h].image = capture[h].image
      /\ capture'[h].workspace = capture[h].workspace
      /\ capture'[h].artifact = artifact
  BY <1>1 DEF Progress, HostShape
<1>3. Alike(capture[h].artifact, capture'[h].artifact)
  BY <1>2 DEF Artifact
<1>4. /\ Working(h)
      /\ what # "check" => capture[h].at # CheckedAt(h)
      /\ what # "attest" /\ Provider[h] # "local" => capture[h].at # AttestedAt(h)
      /\ Provider[h] # "modal" => capture[h].at # 1
      /\ Provider[h] = "modal" /\ capture[h].at = 1 =>
           capture[h].image.tree = capture[h].artifact.source
  BY Elsewhere DEF Artifact
<1>5. UNCHANGED <<checkout, disk>>
  BY DEF Progress
<1> HIDE DEF Progress
<1>6. QED
  BY <1>2, <1>3, <1>4, <1>5, StepHolds

(* A failure that is written down changes nothing the invariant is about.     *)
LEMMA FailureHolds ==
    ASSUME NEW h \in Hosts, CheckoutHolds, HostHolds(h), Onward, Working(h),
           NEW artifact, Alike(Artifact(h), artifact),
           capture' = [capture EXCEPT ![h].failed = TRUE, ![h].artifact = artifact],
           UNCHANGED <<checkout, disk>>
    PROVE  HostHolds(h)'
<1> USE DEF HostHolds, Artifact, Alike
<1>1. DOMAIN capture = Hosts /\ HostShape(h)
  BY DEF CheckoutHolds
<1>2. /\ DOMAIN capture'[h] = DOMAIN capture[h] /\ capture'[h].at = capture[h].at
      /\ capture'[h].environment = capture[h].environment
      /\ capture'[h].baseline = capture[h].baseline
      /\ capture'[h].allocation = capture[h].allocation
      /\ capture'[h].image = capture[h].image
      /\ capture'[h].workspace = capture[h].workspace
      /\ capture'[h].artifact = artifact
  BY <1>1 DEF HostShape
<1>3. HostShape(h)' /\ FirstLooks(h)' /\ ResultsHold(Artifact(h))'
  BY <1>2 DEF HostShape, FirstLooks, ResultsHold, BaselineAt
<1>4. DisturbancesShow(h)'
  BY <1>2 DEF DisturbancesShow, AllUndisturbed, CheckedAt, AttestedAt, Timed, Onward
<1>5. WheelHolds(h)'
  BY <1>2 DEF WheelHolds, WheelIsOf, Onward
<1>6. capture[h].at >= 1
  BY PlanFacts DEF Working
<1>7. SourceHolds(h)' /\ WorkspaceHolds(h)'
  BY <1>2, <1>6 DEF SourceHolds, WorkspaceHolds, Onward
<1>8. QED
  BY <1>3, <1>4, <1>5, <1>7

(* Steps that write what the invariant is not about.                          *)
LEMMA PlainSteps ==
    ASSUME NEW h \in Hosts, CheckoutHolds, HostHolds(h), Onward,
           \/ VerifyUpload(h) \/ Start(h) \/ AttestAfter(h) \/ Checkpoint(h)
           \/ Conform(h) \/ Finish(h) \/ Record(h) \/ Provenance(h) \/ Archive(h)
    PROVE  HostHolds(h)'
<1> USE DEF Artifact
<1>1. DOMAIN capture = Hosts /\ HostShape(h)
  BY DEF CheckoutHolds, HostHolds
<1>2. ASSUME Fails(h) PROVE HostHolds(h)'
  BY <1>1, <1>2, HostFrame DEF Fails, HostShape
<1>3. ASSUME NEW what, Does(h, what), what \notin {"check", "attest", "start", "upload"},
             NEW artifact, Alike(Artifact(h), artifact), Progress(h, artifact)
      PROVE  HostHolds(h)'
  BY <1>3, ProgressHolds
<1>4. CASE VerifyUpload(h)
  <2>1. Does(h, "upload")
    BY <1>4 DEF VerifyUpload
  <2>2. CASE Fails(h)
    BY <1>2, <2>2
  <2>3. CASE ~Fails(h)
    <3>1. /\ capture[h].image.tree = Artifact(h).source
          /\ Progress(h, Artifact(h)) /\ Alike(Artifact(h), Artifact(h))
      BY <1>4, <2>3 DEF VerifyUpload, Alike
    <3>2. QED
      BY <2>1, <3>1, ProgressHolds
  <2>4. QED
    BY <2>2, <2>3
<1>5. CASE Start(h)
  <2>1. Does(h, "start")
    BY <1>5 DEF Start
  <2>2. /\ DOMAIN capture'[h] = DOMAIN capture[h] /\ capture'[h].at = capture[h].at + 1
        /\ capture'[h].environment = capture[h].environment
        /\ capture'[h].baseline = capture[h].baseline
        /\ capture'[h].allocation = capture[h].allocation
        /\ capture'[h].image = capture[h].image /\ capture'[h].workspace
        /\ capture'[h].artifact = [capture[h].artifact EXCEPT !.started = Clock(h)]
    BY <1>1, <1>5 DEF Start, HostShape
  <2>3. Alike(capture[h].artifact, capture'[h].artifact)
    BY <1>1, <2>2 DEF HostShape, Alike
  <2>4. /\ Working(h) /\ capture[h].at # CheckedAt(h)
        /\ Provider[h] # "local" => capture[h].at # AttestedAt(h)
        /\ Provider[h] = "modal" => capture[h].at # 1
    BY <2>1, Elsewhere
  <2>5. UNCHANGED <<checkout, disk>>
    BY <1>5 DEF Start
  <2>6. QED
    BY <2>2, <2>3, <2>4, <2>5, StepHolds
<1>6. CASE AttestAfter(h)
  <2>1. Does(h, "attest")
    BY <1>6 DEF AttestAfter
  <2>2. CASE Fails(h)
    BY <1>2, <2>2
  <2>3. CASE ~Fails(h)
    <3>1. PICK artifact : /\ artifact = [Artifact(h) EXCEPT !.members = @ \cup Controls(h)]
                          /\ Progress(h, artifact)
      BY <1>6, <2>3 DEF AttestAfter
    <3>2. Alike(Artifact(h), artifact)
      BY <1>1, <3>1 DEF Alike, HostShape, Controls
    <3>3. capture[h].allocation = Artifact(h).masks
      BY <1>6, <2>3 DEF AttestAfter
    <3>4. Provider[h] # "local" => capture[h].allocation = 1
      BY <3>3 DEF HostHolds, HostShape, FirstLooks
    <3>5. QED
      BY <2>1, <3>1, <3>2, <3>4, ProgressHolds
  <2>4. QED
    BY <2>2, <2>3
<1>7. CASE Checkpoint(h)
  <2>1. Does(h, "check")
    BY <1>7 DEF Checkpoint
  <2>2. PICK artifact : artifact = [Artifact(h) EXCEPT !.checkpoints =
                            Append(@, [name |-> Subject(h), matches |-> Matches(h)])]
    OBVIOUS
  <2>3. Alike(Artifact(h), artifact)
    BY <1>1, <2>2 DEF Alike, HostShape
  <2>4. CASE Matches(h)
    <3>1. Progress(h, artifact)
      BY <1>7, <2>2, <2>4 DEF Checkpoint
    <3>2. capture[h].environment = 1
      BY <2>4 DEF Matches, HostHolds, HostShape, FirstLooks
    <3>3. QED
      BY <2>1, <2>3, <3>1, <3>2, ProgressHolds
  <2>5. CASE ~Matches(h)
    <3>1. /\ capture' = [capture EXCEPT ![h].failed = TRUE, ![h].artifact = artifact]
          /\ UNCHANGED <<checkout, disk>>
      BY <1>7, <2>2, <2>5 DEF Checkpoint
    <3>2. QED
      BY <2>1, <2>3, <3>1, FailureHolds DEF Does
  <2>6. QED
    BY <2>4, <2>5
<1>8. CASE Conform(h)
  <2>1. Does(h, "conform")
    BY <1>8 DEF Conform
  <2>2. CASE Fails(h)
    BY <1>2, <2>2
  <2>3. CASE ~Fails(h)
    <3>1. PICK artifact, report :
            /\ artifact = [Artifact(h) EXCEPT
                 !.reports = With(@, Subject(h), report),
                 !.members = @ \cup {<<"conformance", Subject(h)>>}]
            /\ Progress(h, artifact)
      BY <1>8, <2>3 DEF Conform
    <3>2. Alike(Artifact(h), artifact)
      BY <1>1, <3>1 DEF Alike, HostShape
    <3>3. QED
      BY <1>3, <2>1, <3>1, <3>2
  <2>4. QED
    BY <2>2, <2>3
<1>9. CASE Finish(h)
  <2>1. PICK artifact :
          /\ artifact = [Artifact(h) EXCEPT !.failures = FailuresOf(Artifact(h).noise),
                                       !.created = Clock(h),
                                       !.members = @ \cup {<<"failures">>, <<"capture">>}]
          /\ Does(h, "finish") /\ Progress(h, artifact)
    BY <1>9 DEF Finish
  <2>2. Alike(Artifact(h), artifact)
    BY <1>1, <2>1 DEF Alike, HostShape
  <2>3. QED
    BY <1>3, <2>1, <2>2
<1>10. CASE Record(h)
  <2>1. PICK artifact : /\ artifact = [Artifact(h) EXCEPT !.build.reconciled = TRUE]
                        /\ Does(h, "record") /\ Progress(h, artifact)
    BY <1>10 DEF Record
  <2>2. Alike(Artifact(h), artifact)
    BY <1>1, <2>1 DEF Alike, HostShape
  <2>3. QED
    BY <1>3, <2>1, <2>2
<1>11. CASE Provenance(h)
  <2>1. PICK artifact :
          /\ artifact = [Artifact(h) EXCEPT !.completed = Clock(h),
                                            !.members = @ \cup {<<"provenance">>}]
          /\ Does(h, "provenance") /\ Progress(h, artifact)
    BY <1>11 DEF Provenance
  <2>2. Alike(Artifact(h), artifact)
    BY <1>1, <2>1 DEF Alike, HostShape
  <2>3. QED
    BY <1>3, <2>1, <2>2
<1>12. CASE Archive(h)
  <2>1. Does(h, "archive") /\ (Fails(h) \/ Progress(h, Artifact(h)))
    BY <1>12 DEF Archive
  <2>2. QED
    BY <1>2, <1>3, <2>1 DEF Alike
<1>13. QED
  BY <1>4, <1>5, <1>6, <1>7, <1>8, <1>9, <1>10, <1>11, <1>12

(* A local capture is identified with a commit the checkout has.              *)
LEMMA IdentifyHolds ==
    ASSUME NEW h \in Hosts, CheckoutHolds, HostHolds(h), Onward, Identify(h)
    PROVE  HostHolds(h)'
<1> USE DEF Artifact
<1>1. DOMAIN capture = Hosts /\ HostShape(h)
  BY DEF CheckoutHolds, HostHolds
<1>2. CASE checkout.tree # checkout.head
  BY <1>1, <1>2, HostFrame DEF Identify, Fails, HostShape
<1>3. CASE checkout.tree = checkout.head
  <2>1. Provider[h] # "modal" /\ capture[h].at = 0
    BY DEF Identify
  <2>2. /\ DOMAIN capture'[h] = DOMAIN capture[h] /\ capture'[h].at = 1
        /\ capture'[h].environment = capture[h].environment
        /\ capture'[h].baseline = capture[h].baseline
        /\ capture'[h].allocation = capture[h].allocation
        /\ capture'[h].image = capture[h].image
        /\ capture'[h].artifact = [capture[h].artifact EXCEPT !.source = checkout.head]
        /\ UNCHANGED <<checkout, disk>>
    BY <1>1, <1>3, <2>1 DEF Identify, Progress, HostShape
  <2>3. /\ DOMAIN capture'[h].artifact = DOMAIN capture[h].artifact
        /\ capture'[h].artifact.source = checkout.head
        /\ capture'[h].artifact.masks = capture[h].artifact.masks
        /\ capture'[h].artifact.wheel = capture[h].artifact.wheel
        /\ capture'[h].artifact.results = capture[h].artifact.results
        /\ capture'[h].artifact.members = {} /\ capture[h].artifact.members = {}
    BY <1>1, <2>1, <2>2 DEF HostHolds, HostShape, SourceHolds
  <2>4. CheckedAt(h) \in Nat /\ AttestedAt(h) \in Nat /\ BaselineAt(h) \in Nat
    BY PlanFacts DEF CheckedAt, AttestedAt
  <2>5. HostShape(h)' /\ FirstLooks(h)'
    BY <2>1, <2>2, <2>3, <2>4 DEF HostHolds, HostShape, FirstLooks, BaselineAt
  <2>6. ResultsHold(Artifact(h))' /\ WheelHolds(h)'
    BY <2>2, <2>3 DEF HostHolds, ResultsHold, WheelHolds, WheelIsOf
  <2>7. capture[h].environment = 1 /\ capture[h].allocation = 1
    BY <1>1, <2>1, <2>4 DEF HostHolds, HostShape, FirstLooks
  <2>8. DisturbancesShow(h)'
    BY <2>2, <2>3, <2>7 DEF HostHolds, DisturbancesShow, AllUndisturbed, Onward
  <2>9. checkout.head \in Nat /\ checkout.head \in Versions
    BY VersionsAssumption DEF CheckoutHolds
  <2>10. SourceHolds(h)' /\ WorkspaceHolds(h)'
    BY <1>3, <2>1, <2>2, <2>3, <2>9 DEF HostHolds, SourceHolds, WorkspaceHolds
  <2>11. QED
    BY <2>5, <2>6, <2>8, <2>10 DEF HostHolds
<1>4. QED
  BY <1>2, <1>3

(* The allocation is attested before it has changed.                          *)
LEMMA AttestBeforeHolds ==
    ASSUME NEW h \in Hosts, CheckoutHolds, HostHolds(h), Onward, AttestBefore(h)
    PROVE  HostHolds(h)'
<1> USE DEF Artifact
<1>1. DOMAIN capture = Hosts /\ HostShape(h)
  BY DEF CheckoutHolds, HostHolds
<1>2. /\ capture[h].at = 2 /\ Provider[h] # "local" /\ 2 # AttestedAt(h) /\ 2 # CheckedAt(h)
      /\ AttestedAt(h) \in Nat /\ CheckedAt(h) \in Nat /\ BaselineAt(h) \in Nat
  BY Elsewhere, PlanFacts DEF AttestBefore, CheckedAt, AttestedAt
<1>3. capture[h].environment = 1 /\ capture[h].allocation = 1 /\ capture[h].baseline = 0
  BY <1>1, <1>2, PlanFacts DEF HostHolds, HostShape, FirstLooks
<1>4. PICK artifact :
        /\ artifact = [capture[h].artifact EXCEPT !.masks = capture[h].allocation,
                                                  !.members = @ \cup Controls(h)]
        /\ Progress(h, artifact)
  BY DEF AttestBefore
<1>5. /\ DOMAIN capture'[h] = DOMAIN capture[h] /\ capture'[h].at = 3
      /\ capture'[h].environment = 1 /\ capture'[h].baseline = 0
      /\ capture'[h].allocation = 1
      /\ capture'[h].image = capture[h].image /\ capture'[h].workspace = capture[h].workspace
      /\ capture'[h].artifact = artifact /\ UNCHANGED <<checkout, disk>>
  BY <1>1, <1>2, <1>3, <1>4 DEF Progress, HostShape
<1>6. /\ DOMAIN artifact = DOMAIN capture[h].artifact
      /\ artifact.source = capture[h].artifact.source /\ artifact.masks = 1
      /\ artifact.wheel = capture[h].artifact.wheel
      /\ artifact.results = capture[h].artifact.results
      /\ <<"wheel">> \in artifact.members => <<"wheel">> \in capture[h].artifact.members
      /\ \A t \in BudgetSet : <<"benchmark", t>> \in artifact.members =>
                                <<"benchmark", t>> \in capture[h].artifact.members
  BY <1>1, <1>3, <1>4 DEF HostShape, Controls
<1>7. HostShape(h)' /\ FirstLooks(h)'
  BY <1>1, <1>2, <1>5, <1>6 DEF HostShape, FirstLooks
<1>8. ResultsHold(Artifact(h))' /\ WheelHolds(h)'
  BY <1>5, <1>6 DEF HostHolds, ResultsHold, WheelHolds, WheelIsOf, Onward
<1>9. DisturbancesShow(h)'
  BY <1>3, <1>5, <1>6 DEF HostHolds, DisturbancesShow, AllUndisturbed, Onward
<1>10. SourceHolds(h)' /\ WorkspaceHolds(h)'
  BY <1>2, <1>5, <1>6 DEF HostHolds, SourceHolds, WorkspaceHolds, Onward
<1>11. QED
  BY <1>7, <1>8, <1>9, <1>10 DEF HostHolds

(* The wheel is built from the image that was compared with the source, or    *)
(* from what the checkout is now.                                             *)
LEMMA BuildHolds ==
    ASSUME NEW h \in Hosts, CheckoutHolds, HostHolds(h), Onward, Build(h)
    PROVE  HostHolds(h)'
<1> USE DEF Artifact
<1>1. DOMAIN capture = Hosts /\ HostShape(h)
  BY DEF CheckoutHolds, HostHolds
<1>2. /\ capture[h].at \in Nat /\ capture[h].at >= 1
      /\ capture[h].at # CheckedAt(h)
      /\ Provider[h] # "local" => capture[h].at # AttestedAt(h)
      /\ capture[h].at # 1
      /\ AttestedAt(h) \in Nat /\ CheckedAt(h) \in Nat /\ BaselineAt(h) \in Nat
  BY Elsewhere, PlanFacts DEF Build, CheckedAt, AttestedAt
<1>3. PICK artifact, wheel :
        /\ wheel = Tree(h).tree
        /\ artifact = [capture[h].artifact EXCEPT !.wheel = wheel,
                           !.members = @ \cup {<<"wheel">>, <<"logs">>}]
        /\ Progress(h, artifact)
  BY DEF Build
<1>4. /\ DOMAIN capture'[h] = DOMAIN capture[h] /\ capture'[h].at = capture[h].at + 1
      /\ capture'[h].environment = capture[h].environment
      /\ capture'[h].baseline = capture[h].baseline
      /\ capture'[h].allocation = capture[h].allocation
      /\ capture'[h].image = capture[h].image /\ capture'[h].workspace = capture[h].workspace
      /\ capture'[h].artifact = artifact /\ UNCHANGED <<checkout, disk>>
  BY <1>1, <1>3 DEF Progress, HostShape
<1>5. /\ DOMAIN artifact = DOMAIN capture[h].artifact
      /\ artifact.source = capture[h].artifact.source
      /\ artifact.masks = capture[h].artifact.masks /\ artifact.wheel = wheel
      /\ artifact.results = capture[h].artifact.results
      /\ \A t \in BudgetSet : <<"benchmark", t>> \in artifact.members =>
                                <<"benchmark", t>> \in capture[h].artifact.members
  BY <1>1, <1>3 DEF HostShape
<1>6. HostShape(h)' /\ FirstLooks(h)'
  BY <1>2, <1>4, <1>5 DEF HostHolds, HostShape, FirstLooks
<1>7. IF Provider[h] = "modal" THEN wheel = artifact.source
      ELSE wheel \in Versions /\ (Restored \/ artifact.source <= wheel) /\ wheel <= checkout.tree
  <2>1. CASE Provider[h] = "modal"
    BY <1>2, <1>3, <1>5, <2>1 DEF Tree, HostHolds, SourceHolds
  <2>2. CASE Provider[h] # "modal"
    BY <1>3, <1>5, <2>2, VersionsAssumption DEF Tree, CheckoutHolds, HostHolds, SourceHolds
  <2>3. QED
    BY <2>1, <2>2
<1>8. ResultsHold(Artifact(h))' /\ WheelHolds(h)'
  BY <1>4, <1>5, <1>7 DEF HostHolds, ResultsHold, WheelHolds, WheelIsOf, Onward
<1>9. DisturbancesShow(h)'
  BY <1>2, <1>4, <1>5 DEF HostHolds, DisturbancesShow, AllUndisturbed, Onward
<1>10. SourceHolds(h)' /\ WorkspaceHolds(h)'
  BY <1>2, <1>4, <1>5 DEF HostHolds, SourceHolds, WorkspaceHolds, Onward
<1>11. QED
  BY <1>6, <1>8, <1>9, <1>10 DEF HostHolds

(* The baseline is taken before the environment has changed.                  *)
LEMMA BaselineHolds ==
    ASSUME NEW h \in Hosts, CheckoutHolds, HostHolds(h), Onward, Baseline(h)
    PROVE  HostHolds(h)'
<1> USE DEF Artifact
<1>1. DOMAIN capture = Hosts /\ HostShape(h)
  BY DEF CheckoutHolds, HostHolds
<1>2. /\ capture[h].at \in Nat /\ capture[h].at = BaselineAt(h) /\ 2 < capture[h].at
      /\ capture[h].at # CheckedAt(h)
      /\ Provider[h] # "local" => capture[h].at # AttestedAt(h)
      /\ AttestedAt(h) \in Nat /\ CheckedAt(h) \in Nat /\ BaselineAt(h) \in Nat
  <2>1. Does(h, "baseline")
    BY DEF Baseline
  <2> HIDE DEF Baseline
  <2>2. QED
    BY <2>1, Elsewhere, PlanFacts DEF CheckedAt, AttestedAt
<1>3. capture[h].environment = 1
  BY <1>1, <1>2 DEF HostHolds, HostShape, FirstLooks
<1>4. PICK artifact : artifact = capture'[h].artifact
  OBVIOUS
<1>5. PICK build, checkpoints, clock, members :
        /\ members = capture[h].artifact.members \cup {<<"build">>, <<"integrity">>}
        /\ capture' = [capture EXCEPT
              ![h].at = @ + 1, ![h].clock = clock, ![h].baseline = capture[h].environment,
              ![h].artifact.build = build, ![h].artifact.checkpoints = checkpoints,
              ![h].artifact.members = members]
        /\ UNCHANGED <<checkout, disk>>
  BY DEF Baseline
<1>6. /\ DOMAIN capture'[h] = DOMAIN capture[h] /\ capture'[h].at = capture[h].at + 1
      /\ capture'[h].environment = 1 /\ capture'[h].baseline = 1
      /\ capture'[h].allocation = capture[h].allocation
      /\ capture'[h].image = capture[h].image /\ capture'[h].workspace = capture[h].workspace
      /\ UNCHANGED <<checkout, disk>>
  <2>1. capture'[h] = [capture[h] EXCEPT
              !.at = @ + 1, !.clock = clock, !.baseline = capture[h].environment,
              !.artifact.build = build, !.artifact.checkpoints = checkpoints,
              !.artifact.members = members]
    BY <1>1, <1>5
  <2>2. DOMAIN capture[h] = {"at", "failed", "clock", "environment", "baseline", "allocation",
                             "image", "workspace", "artifact"}
    BY <1>1 DEF HostShape
  <2>3. PICK c : c = capture[h]
    OBVIOUS
  <2>4. DOMAIN capture'[h] = DOMAIN c
    BY <2>1, <2>3
  <2>5. capture'[h].at = c.at + 1 /\ capture'[h].baseline = c.environment
    BY <2>1, <2>2, <2>3
  <2>6. capture'[h].environment = c.environment /\ capture'[h].allocation = c.allocation
    BY <2>1, <2>2, <2>3
  <2>7. capture'[h].image = c.image /\ capture'[h].workspace = c.workspace
    BY <2>1, <2>2, <2>3
  <2>8. QED
    BY <1>3, <1>5, <2>3, <2>4, <2>5, <2>6, <2>7
<1>7. /\ DOMAIN artifact = DOMAIN capture[h].artifact
      /\ artifact.source = capture[h].artifact.source
      /\ artifact.masks = capture[h].artifact.masks
      /\ artifact.wheel = capture[h].artifact.wheel
      /\ artifact.results = capture[h].artifact.results
      /\ artifact.members = capture[h].artifact.members \cup {<<"build">>, <<"integrity">>}
  <2>1. artifact = [capture[h].artifact EXCEPT !.build = build,
                        !.checkpoints = checkpoints, !.members = members]
    BY <1>1, <1>4, <1>5 DEF HostShape
  <2>2. QED
    BY <1>1, <1>5, <2>1 DEF HostShape
<1>8. /\ <<"wheel">> \in artifact.members => <<"wheel">> \in capture[h].artifact.members
      /\ \A t \in BudgetSet : <<"benchmark", t>> \in artifact.members =>
                                <<"benchmark", t>> \in capture[h].artifact.members
  BY <1>7
<1>9. HostShape(h)' /\ FirstLooks(h)'
  BY <1>1, <1>2, <1>4, <1>6, <1>7 DEF HostHolds, HostShape, FirstLooks, BaselineAt
<1>10. ResultsHold(Artifact(h))' /\ WheelHolds(h)'
  BY <1>4, <1>6, <1>7, <1>8 DEF HostHolds, ResultsHold, WheelHolds, WheelIsOf, Onward
<1>11. DisturbancesShow(h)'
  BY <1>2, <1>3, <1>4, <1>6, <1>7 DEF HostHolds, DisturbancesShow, AllUndisturbed, Onward
<1>12. SourceHolds(h)' /\ WorkspaceHolds(h)'
  BY <1>2, <1>4, <1>6, <1>7 DEF HostHolds, SourceHolds, WorkspaceHolds, Onward
<1>13. QED
  BY <1>9, <1>10, <1>11, <1>12 DEF HostHolds

(* A benchmark runs before the last looks, and is disturbed only by what they *)
(* will see.                                                                  *)
LEMMA BenchmarkHolds ==
    ASSUME NEW h \in Hosts, CheckoutHolds, HostHolds(h), Onward, Benchmark(h)
    PROVE  HostHolds(h)'
<1> USE DEF Artifact
<1>1. DOMAIN capture = Hosts /\ HostShape(h)
  BY DEF CheckoutHolds, HostHolds
<1>2. /\ capture[h].at \in Nat /\ capture[h].at >= 1 /\ capture[h].at <= Timed(h)
      /\ Timed(h) \in Nat
      /\ capture[h].at # 1
      /\ AttestedAt(h) \in Nat /\ CheckedAt(h) \in Nat /\ BaselineAt(h) \in Nat
      /\ Timed(h) + 1 < CheckedAt(h) /\ Timed(h) + 1 < AttestedAt(h)
  BY Elsewhere, PlanFacts DEF Benchmark, CheckedAt, AttestedAt
<1>3. PICK speed, t, result, artifact :
        /\ speed \in {"met", "noisy", "slow"} /\ t = Subject(h) /\ result = Result(h, speed)
        /\ artifact = Measured(h, result) /\ Progress(h, artifact)
  BY DEF Benchmark
<1>4. /\ result.speed \in {"met", "noisy", "slow"}
      /\ result.undisturbed <=> capture[h].environment = 1 /\ capture[h].allocation = 1
  BY <1>3 DEF Result
<1>5. /\ DOMAIN artifact = DOMAIN capture[h].artifact
      /\ artifact.source = capture[h].artifact.source
      /\ artifact.masks = capture[h].artifact.masks
      /\ artifact.wheel = capture[h].artifact.wheel
      /\ artifact.results = With(capture[h].artifact.results, t, result)
      /\ artifact.members = capture[h].artifact.members
                              \cup {<<"benchmark", t>>, <<"noise", t>>}
  BY <1>1, <1>3 DEF Measured, HostShape
<1>6. /\ <<"wheel">> \in artifact.members => <<"wheel">> \in capture[h].artifact.members
      /\ \A b \in BudgetSet : <<"benchmark", b>> \in artifact.members =>
                                <<"benchmark", b>> \in capture[h].artifact.members \/ b = t
  BY <1>5
<1>7. /\ DOMAIN artifact.results = DOMAIN capture[h].artifact.results \cup {t}
      /\ \A b \in DOMAIN artifact.results :
           artifact.results[b] = IF b = t THEN result ELSE capture[h].artifact.results[b]
  BY <1>5 DEF With
<1>8. /\ DOMAIN capture'[h] = DOMAIN capture[h] /\ capture'[h].at = capture[h].at + 1
      /\ capture'[h].environment = capture[h].environment
      /\ capture'[h].baseline = capture[h].baseline
      /\ capture'[h].allocation = capture[h].allocation
      /\ capture'[h].image = capture[h].image /\ capture'[h].workspace = capture[h].workspace
      /\ capture'[h].artifact = artifact /\ UNCHANGED <<checkout, disk>>
  BY <1>1, <1>3 DEF Progress, HostShape
<1>9. HostShape(h)' /\ FirstLooks(h)'
  BY <1>2, <1>5, <1>8 DEF HostHolds, HostShape, FirstLooks
<1>10. ResultsHold(Artifact(h))' /\ WheelHolds(h)'
  <2>1. ResultsHold(artifact)
    BY <1>4, <1>6, <1>7 DEF HostHolds, ResultsHold
  <2>2. WheelHolds(h)'
    BY <1>5, <1>6, <1>8 DEF HostHolds, WheelHolds, WheelIsOf, Onward
  <2>3. QED
    BY <1>8, <2>1, <2>2
<1>11. DisturbancesShow(h)'
  <2>1. SUFFICES ASSUME Steady, capture[h].environment = 1,
                        capture[h].allocation = 1 \/ Provider[h] = "local"
                 PROVE  AllUndisturbed(artifact)
    BY <1>2, <1>8 DEF DisturbancesShow, Onward
  <2>2. AllUndisturbed(capture[h].artifact)
    BY <2>1 DEF HostHolds, DisturbancesShow
  <2>3. result.undisturbed
    BY <1>4, <2>1 DEF HostHolds, HostShape, FirstLooks
  <2>4. QED
    BY <1>7, <2>2, <2>3 DEF AllUndisturbed
<1>12. SourceHolds(h)' /\ WorkspaceHolds(h)'
  BY <1>2, <1>5, <1>8 DEF HostHolds, SourceHolds, WorkspaceHolds, Onward
<1>13. QED
  BY <1>9, <1>10, <1>11, <1>12 DEF HostHolds

(* A capture that is complete has taken its last looks.                       *)
LEMMA CompletedIsSound ==
    ASSUME NEW h \in Hosts, HostHolds(h), Complete(h)
    PROVE  SoundNow(h, <<Artifact(h)>>)
<1>1. capture[h].at > CheckedAt(h) /\ capture[h].at > AttestedAt(h)
  BY PlanFacts DEF Complete, HostHolds, HostShape, CheckedAt, AttestedAt
<1>2. Steady => AllUndisturbed(Artifact(h))
  BY <1>1 DEF HostHolds, DisturbancesShow
<1>3. QED
  BY <1>2 DEF SoundNow, Sound, HostHolds, WheelHolds

(* A step of one host leaves the others, and the checkout, alone.             *)
LEMMA StepsAreLocal ==
    ASSUME NEW h \in Hosts, CheckoutHolds, CaptureStep(h)
    PROVE  /\ DOMAIN capture' = Hosts /\ \A g \in Hosts \ {h} : capture'[g] = capture[g]
           /\ UNCHANGED checkout /\ faults'.kinds \cap Watched = faults.kinds \cap Watched
           /\ faults.kinds \subseteq faults'.kinds
           /\ DOMAIN disk' = DOMAIN disk /\ DOMAIN disk'.archive = Hosts
           /\ disk'.unvalidated = disk.unvalidated
           /\ \A g \in Hosts \ {h} : disk'.archive[g] = disk.archive[g]
           /\ Provider[h] = "modal" \/ ~(WriteArchive(h) \/ RemoveWorkspace(h)) =>
                UNCHANGED disk
<1>1. DOMAIN capture = Hosts /\ DOMAIN disk = {"archive", "unvalidated"}
      /\ DOMAIN disk.archive = Hosts
  BY DEF CheckoutHolds
<1>2. ASSUME \/ Fails(h) \/ \E artifact : Progress(h, artifact),
             faults'.kinds \cap Watched = faults.kinds \cap Watched
      PROVE  /\ DOMAIN capture' = Hosts /\ \A g \in Hosts \ {h} : capture'[g] = capture[g]
             /\ UNCHANGED <<checkout, disk>>
  BY <1>1, <1>2 DEF Fails, Progress
<1>3. CASE Identify(h)
  BY <1>1, <1>2, <1>3 DEF Identify
<1>4. CASE VerifyUpload(h)
  BY <1>1, <1>2, <1>4 DEF VerifyUpload
<1>5. CASE Start(h)
  BY <1>1, <1>5 DEF Start
<1>6. CASE AttestBefore(h)
  BY <1>1, <1>2, <1>6 DEF AttestBefore
<1>7. CASE AttestAfter(h)
  BY <1>1, <1>2, <1>7 DEF AttestAfter
<1>8. CASE Build(h)
  BY <1>1, <1>2, <1>8 DEF Build
<1>9. CASE Baseline(h)
  BY <1>1, <1>9 DEF Baseline
<1>10. CASE Checkpoint(h)
  BY <1>1, <1>2, <1>10 DEF Checkpoint
<1>11. CASE Conform(h)
  BY <1>1, <1>2, <1>11 DEF Conform
<1>12. CASE Benchmark(h)
  <2>1. /\ faults'.kinds \cap Watched = faults.kinds \cap Watched
        /\ faults.kinds \subseteq faults'.kinds
    BY <1>12 DEF Benchmark, Fault, Watched
  <2>2. QED
    BY <1>1, <1>2, <1>12, <2>1 DEF Benchmark
<1>13. CASE Finish(h)
  BY <1>1, <1>2, <1>13 DEF Finish
<1>14. CASE Record(h)
  BY <1>1, <1>2, <1>14 DEF Record
<1>15. CASE Provenance(h)
  BY <1>1, <1>2, <1>15 DEF Provenance
<1>16. CASE Archive(h)
  BY <1>1, <1>2, <1>16 DEF Archive
<1>17. CASE WriteArchive(h)
  BY <1>1, <1>17 DEF WriteArchive, Fails
<1>18. CASE RemoveWorkspace(h)
  BY <1>1, <1>18 DEF RemoveWorkspace
<1>19. QED
  BY <1>3, <1>4, <1>5, <1>6, <1>7, <1>8, <1>9, <1>10, <1>11, <1>12, <1>13, <1>14,
    <1>15, <1>16, <1>17, <1>18 DEF CaptureStep

(* A local archive is written from a complete capture, before the workspace   *)
(* goes.                                                                      *)
LEMMA WritingHolds ==
    ASSUME NEW h \in Hosts, CheckoutHolds, HostHolds(h), Onward,
           WriteArchive(h) \/ RemoveWorkspace(h)
    PROVE  /\ HostHolds(h)'
           /\ disk'.archive[h] = disk.archive[h] \/ SoundNow(h, disk'.archive[h])
<1>1. /\ DOMAIN capture = Hosts /\ HostShape(h) /\ DOMAIN disk = {"archive", "unvalidated"}
      /\ DOMAIN disk.archive = Hosts
  BY DEF CheckoutHolds, HostHolds
<1>2. CASE WriteArchive(h)
  <2>1. CASE Fails(h)
    BY <1>1, <2>1, HostFrame DEF Fails, HostShape
  <2>2. CASE ~Fails(h)
    <3>1. /\ disk' = [disk EXCEPT !.archive[h] = <<Artifact(h)>>]
          /\ UNCHANGED <<capture, checkout>> /\ Complete(h)
      BY <1>2, <2>2 DEF WriteArchive
    <3>2. disk'.archive[h] = <<Artifact(h)>>
      BY <1>1, <3>1
    <3>3. SoundNow(h, disk'.archive[h])
      BY <3>1, <3>2, CompletedIsSound
    <3>4. HostHolds(h)'
      BY <3>1, <3>2, HostFrame
    <3>5. QED
      BY <3>3, <3>4
  <2>3. QED
    BY <2>1, <2>2
<1>3. CASE RemoveWorkspace(h)
  BY <1>1, <1>3, HostFrame DEF RemoveWorkspace, HostShape
<1>4. QED
  BY <1>2, <1>3

(* Any step of a capture keeps the invariant of its host.                     *)
LEMMA CaptureStepHolds ==
    ASSUME NEW h \in Hosts, CheckoutHolds, HostHolds(h), Onward, CaptureStep(h)
    PROVE  HostHolds(h)'
BY IdentifyHolds, PlainSteps, AttestBeforeHolds, BuildHolds, BaselineHolds,
  BenchmarkHolds, WritingHolds DEF CaptureStep

(* A capture whose sandbox has not been started does nothing.                 *)
LEMMA NoStepEarly ==
    ASSUME NEW h \in Hosts, Provider[h] = "modal", capture[h].at = 0, CaptureStep(h)
    PROVE  FALSE
<1>1. ~Working(h) /\ ~Complete(h)
  BY PlanFacts DEF Working, Complete
<1>2. QED
  BY <1>1 DEF CaptureStep, Identify, VerifyUpload, Start, AttestBefore, AttestAfter,
    Build, Baseline, Checkpoint, Conform, Benchmark, Finish, Record, Provenance,
    Archive, WriteArchive, RemoveWorkspace, Does

(* A step of a host keeps the whole invariant.                                *)
LEMMA HostStepHolds ==
    ASSUME NEW h \in Hosts, Inv, HostStep(h)
    PROVE  Inv'
<1> USE DEF Inv
<1>1. CaptureStep(h) /\ UNCHANGED sandboxVars /\ UNCHANGED certificateVars
  BY DEF HostStep
<1>2. /\ DOMAIN capture' = Hosts /\ \A g \in Hosts \ {h} : capture'[g] = capture[g]
      /\ checkout' = checkout /\ faults'.kinds \cap Watched = faults.kinds \cap Watched
      /\ faults.kinds \subseteq faults'.kinds
      /\ DOMAIN disk' = DOMAIN disk /\ DOMAIN disk'.archive = Hosts
      /\ disk'.unvalidated = disk.unvalidated
      /\ \A g \in Hosts \ {h} : disk'.archive[g] = disk.archive[g]
      /\ Provider[h] = "modal" \/ ~(WriteArchive(h) \/ RemoveWorkspace(h)) => UNCHANGED disk
  BY <1>1, StepsAreLocal
<1>3. CheckoutHolds' /\ Onward
  BY <1>2, NotedIsOnward DEF CheckoutHolds
<1>4. ASSUME NEW g \in Hosts PROVE HostHolds(g)'
  <2>1. CASE g = h
    BY <1>1, <1>3, <2>1, CaptureStepHolds
  <2>2. CASE g # h
    BY <1>2, <1>3, <2>2, HostFrame
  <2>3. QED
    BY <2>1, <2>2
<1>5. SandboxHolds'
  <2>1. OnModal => disk'.archive[VM] = disk.archive[VM]
    BY <1>2, HostsAre DEF OnModal
  <2>2. OnModal /\ Unstarted => h # VM
    BY <1>1, NoStepEarly DEF SandboxHolds, NothingEarly, OnModal
  <2>3. QED
    BY <1>1, <1>2, <2>1, <2>2, HostsAre, SandboxFrame
<1>6. PayloadsAreSound'
  <2>1. disk'.archive[h] = disk.archive[h] \/ SoundNow(h, disk'.archive[h])
    BY <1>2, <1>3, WritingHolds
  <2>2. ASSUME NEW g \in Hosts, NEW payload \in Payloads(g)'
        PROVE  payload \in Payloads(g) \/ SoundNow(g, payload)
    BY <1>1, <1>2, <2>1 DEF Payloads, sandboxVars
  <2>3. QED
    BY <1>3, <2>2, PayloadsFrame
<1>7. CertificatesHold'
  BY <1>1, <1>3, CertificatesFrame DEF certificateVars
<1>8. QED
  BY <1>3, <1>4, <1>5, <1>6, <1>7

(* What has changed on a host shows, or was brought back.                     *)
LEMMA ChangeHolds ==
    ASSUME NEW h \in Hosts, CheckoutHolds, HostHolds(h), Onward, UNCHANGED disk,
           DOMAIN capture'[h] = DOMAIN capture[h], capture'[h].at = capture[h].at,
           capture'[h].baseline = capture[h].baseline,
           capture'[h].image = capture[h].image,
           capture'[h].workspace = capture[h].workspace,
           capture'[h].artifact = capture[h].artifact,
           capture'[h].environment \in Nat /\ capture'[h].environment >= 1,
           capture'[h].allocation \in Nat /\ capture'[h].allocation >= 1,
           \/ /\ capture'[h].allocation = capture[h].allocation
              /\ capture[h].baseline = 1
              /\ capture'[h].environment # 1 \/ ~Steady'
           \/ /\ capture'[h].environment = capture[h].environment
              /\ Artifact(h).masks = 1
              /\ capture'[h].allocation # 1 \/ ~Steady'
    PROVE  HostHolds(h)'
<1> USE DEF HostHolds, Artifact
<1>1. HostShape(h)' /\ FirstLooks(h)' /\ ResultsHold(Artifact(h))'
  BY DEF HostShape, FirstLooks, ResultsHold, BaselineAt
<1>2. DisturbancesShow(h)'
  BY DEF DisturbancesShow, AllUndisturbed, CheckedAt, AttestedAt, Timed, Onward
<1>3. WheelHolds(h)'
  BY VersionsAssumption DEF WheelHolds, WheelIsOf, Onward
<1>4. SourceHolds(h)' /\ WorkspaceHolds(h)'
  BY VersionsAssumption DEF SourceHolds, WorkspaceHolds, Onward
<1>5. QED
  BY <1>1, <1>2, <1>3, <1>4

(* What may go wrong on a host, or in the checkout.                           *)
HostKinds ==
    {"checkout", "checkout_restored", "command", "clock", "environment",
     "environment_restored", "allocation", "allocation_restored"}

(* Whatever does, the invariant is kept.                                      *)
LEMMA HostFaultsHold ==
    ASSUME Inv, HostFaults, UNCHANGED sandboxVars, UNCHANGED certificateVars
    PROVE  Inv'
<1> USE DEF Inv
<1>1. DOMAIN capture = Hosts /\ \A h \in Hosts : HostShape(h)
  BY DEF CheckoutHolds, HostHolds
<1>2. /\ UNCHANGED disk /\ Onward /\ CheckoutHolds'
      /\ faults'.kinds \cap Watched = faults.kinds \cap Watched
  <2>1. /\ UNCHANGED disk /\ checkout'.tree \in Versions /\ CheckoutHolds'
        /\ faults.kinds \subseteq faults'.kinds
        /\ faults'.kinds \cap Watched = faults.kinds \cap Watched
        /\ \/ "checkout_restored" \in faults'.kinds \/ checkout'.tree = checkout.tree
           \/ checkout.tree <= checkout'.tree
    <3>0. ASSUME NEW kind \in HostKinds, Fault(kind) \/ Restoration(kind)
          PROVE  /\ faults.kinds \subseteq faults'.kinds /\ kind \in faults'.kinds
                 /\ faults'.kinds \cap Watched = faults.kinds \cap Watched
      <4>1. kind \notin Watched
        BY DEF HostKinds, Watched
      <4>2. QED
        BY <3>0, <4>1, FaultIsNoted
    <3>1. ASSUME NEW v \in Versions, CheckoutBecomes(v)
          PROVE  /\ UNCHANGED disk /\ checkout'.tree = v /\ CheckoutHolds'
      BY <1>1, <3>1 DEF CheckoutBecomes, CheckoutHolds
    <3>2. CASE CheckoutChanges
      <4>1. Fault("checkout") /\ \E v \in Versions : v >= checkout.tree /\ CheckoutBecomes(v)
        BY <3>2 DEF CheckoutChanges
      <4>2. QED
        BY <3>0, <3>1, <4>1 DEF HostKinds
    <3>3. CASE CheckoutIsRestored
      <4>1. Restoration("checkout_restored") /\ \E v \in Versions : CheckoutBecomes(v)
        BY <3>3 DEF CheckoutIsRestored
      <4>2. QED
        BY <3>0, <3>1, <4>1 DEF HostKinds
    <3>4. ASSUME NEW h \in Hosts,
                 \/ CommandFails(h) \/ ClockIsSetBack(h)
                 \/ EnvironmentChanges(h) \/ EnvironmentIsRestored(h)
                 \/ AllocationChanges(h) \/ AllocationIsRestored(h)
          PROVE  /\ UNCHANGED <<checkout, disk>> /\ DOMAIN capture' = Hosts
                 /\ \E kind \in HostKinds : Fault(kind) \/ Restoration(kind)
      <4>1. CASE CommandFails(h) \/ ClockIsSetBack(h)
        BY <1>1, <4>1 DEF CommandFails, ClockIsSetBack, Fails, HostKinds
      <4>2. CASE EnvironmentChanges(h) \/ EnvironmentIsRestored(h)
        BY <1>1, <4>2 DEF EnvironmentChanges, EnvironmentIsRestored, EnvironmentBecomes,
          HostKinds
      <4>3. CASE AllocationChanges(h) \/ AllocationIsRestored(h)
        BY <1>1, <4>3 DEF AllocationChanges, AllocationIsRestored, AllocationBecomes,
          HostKinds
      <4>4. QED
        BY <3>4, <4>1, <4>2, <4>3
    <3>5. ASSUME NEW h \in Hosts, UNCHANGED <<checkout, disk>>, DOMAIN capture' = Hosts
          PROVE  CheckoutHolds' /\ checkout'.tree = checkout.tree /\ checkout'.tree \in Versions
      BY <3>5 DEF CheckoutHolds
    <3>6. QED
      BY <3>0, <3>2, <3>3, <3>4, <3>5 DEF HostFaults
  <2>2. QED
    BY <2>1, NotedIsOnward
<1>3. /\ \A h \in Hosts : capture'[h].at = capture[h].at
      /\ \A h \in Hosts : HostHolds(h)'
  <2>1. CASE CheckoutChanges \/ CheckoutIsRestored
    <3>1. UNCHANGED capture
      BY <2>1 DEF CheckoutChanges, CheckoutIsRestored, CheckoutBecomes
    <3>2. QED
      BY <1>1, <1>2, <3>1, HostFrame
  <2>2. ASSUME NEW h \in Hosts, CommandFails(h) \/ ClockIsSetBack(h)
        PROVE  /\ \A g \in Hosts : capture'[g].at = capture[g].at
               /\ \A g \in Hosts : HostHolds(g)'
    BY <1>1, <1>2, <2>2, HostFrame DEF CommandFails, ClockIsSetBack, Fails, HostShape
  <2>3. ASSUME NEW h \in Hosts, EnvironmentChanges(h) \/ EnvironmentIsRestored(h)
        PROVE  /\ \A g \in Hosts : capture'[g].at = capture[g].at
               /\ \A g \in Hosts : HostHolds(g)'
    <3>1. PICK v \in Nat :
            /\ v >= 1 /\ EnvironmentBecomes(h, v) /\ capture[h].baseline # 0
            /\ v # 1 \/ ~Steady'
      <4>1. CASE EnvironmentChanges(h)
        BY <1>1, <4>1 DEF EnvironmentChanges, HostShape, HostHolds, FirstLooks
      <4>2. CASE EnvironmentIsRestored(h)
        <5>1. PICK e \in Nat : capture[h].environment = e
          BY <1>1 DEF HostShape
        <5>2. PICK v \in 1..(e - 1) : EnvironmentBecomes(h, v)
          BY <4>2, <5>1 DEF EnvironmentIsRestored
        <5>3. v \in Nat /\ v >= 1 /\ capture[h].environment # 1
          BY <5>1, <5>2
        <5>4. capture[h].baseline # 0
          BY <1>1, <5>3 DEF HostShape, HostHolds, FirstLooks
        <5>5. ~Steady'
          BY <4>2, FaultIsNoted DEF EnvironmentIsRestored
        <5>6. QED
          BY <5>2, <5>3, <5>4, <5>5
      <4>3. QED
        BY <2>3, <4>1, <4>2
    <3>2. capture' = [capture EXCEPT ![h].environment = v]
      BY <3>1 DEF EnvironmentBecomes
    <3>3. ASSUME NEW g \in Hosts, g # h PROVE HostHolds(g)'
      BY <1>1, <1>2, <3>2, <3>3, HostFrame
    <3>4. HostHolds(h)'
      <4>1. /\ DOMAIN capture'[h] = DOMAIN capture[h] /\ capture'[h].environment = v
            /\ capture'[h].at = capture[h].at /\ capture'[h].baseline = capture[h].baseline
            /\ capture'[h].image = capture[h].image
            /\ capture'[h].workspace = capture[h].workspace
            /\ capture'[h].artifact = capture[h].artifact
            /\ capture'[h].allocation = capture[h].allocation
        BY <1>1, <3>2 DEF HostShape
      <4>2. capture[h].baseline = 1 /\ capture[h].allocation \in Nat /\ capture[h].allocation >= 1
        BY <1>1, <3>1 DEF HostShape, HostHolds, FirstLooks
      <4>3. CheckoutHolds /\ HostHolds(h) /\ UNCHANGED disk
        BY <1>2
      <4>4. QED
        BY <1>2, <3>1, <4>1, <4>2, <4>3, ChangeHolds
    <3>5. QED
      BY <1>1, <3>2, <3>3, <3>4 DEF HostShape
  <2>4. ASSUME NEW h \in Hosts, AllocationChanges(h) \/ AllocationIsRestored(h)
        PROVE  /\ \A g \in Hosts : capture'[g].at = capture[g].at
               /\ \A g \in Hosts : HostHolds(g)'
    <3>1. PICK v \in Nat :
            /\ v >= 1 /\ AllocationBecomes(h, v) /\ Artifact(h).masks = 1
            /\ v # 1 \/ ~Steady'
      <4>1. CASE AllocationChanges(h)
        BY <1>1, <4>1 DEF AllocationChanges, HostShape, HostHolds, FirstLooks
      <4>2. CASE AllocationIsRestored(h)
        <5>1. PICK e \in Nat : capture[h].allocation = e
          BY <1>1 DEF HostShape
        <5>2. PICK v \in 1..(e - 1) : AllocationBecomes(h, v)
          BY <4>2, <5>1 DEF AllocationIsRestored
        <5>3. v \in Nat /\ v >= 1 /\ capture[h].allocation # 1
          BY <5>1, <5>2
        <5>4. Artifact(h).masks = 1
          BY <1>1, <5>3 DEF HostShape, HostHolds, FirstLooks
        <5>5. ~Steady'
          BY <4>2, FaultIsNoted DEF AllocationIsRestored
        <5>6. QED
          BY <5>2, <5>3, <5>4, <5>5
      <4>3. QED
        BY <2>4, <4>1, <4>2
    <3>2. capture' = [capture EXCEPT ![h].allocation = v]
      BY <3>1 DEF AllocationBecomes
    <3>3. ASSUME NEW g \in Hosts, g # h PROVE HostHolds(g)'
      BY <1>1, <1>2, <3>2, <3>3, HostFrame
    <3>4. HostHolds(h)'
      <4>1. /\ DOMAIN capture'[h] = DOMAIN capture[h] /\ capture'[h].allocation = v
            /\ capture'[h].at = capture[h].at /\ capture'[h].baseline = capture[h].baseline
            /\ capture'[h].image = capture[h].image
            /\ capture'[h].workspace = capture[h].workspace
            /\ capture'[h].artifact = capture[h].artifact
            /\ capture'[h].environment = capture[h].environment
        BY <1>1, <3>2 DEF HostShape
      <4>2. capture[h].environment \in Nat /\ capture[h].environment >= 1
        BY <1>1 DEF HostShape, HostHolds, FirstLooks
      <4>3. CheckoutHolds /\ HostHolds(h) /\ UNCHANGED disk
        BY <1>2
      <4>4. QED
        BY <1>2, <3>1, <4>1, <4>2, <4>3, ChangeHolds
    <3>5. QED
      BY <1>1, <3>2, <3>3, <3>4 DEF HostShape
  <2>5. QED
    BY <2>1, <2>2, <2>3, <2>4 DEF HostFaults
<1>4. SandboxHolds'
  BY <1>2, <1>3, HostsAre, SandboxFrame
<1>5. PayloadsAreSound'
  BY <1>2, PayloadsFrame DEF Payloads, sandboxVars
<1>6. CertificatesHold'
  BY <1>2, CertificatesFrame DEF certificateVars
<1>7. QED
  BY <1>2, <1>3, <1>4, <1>5, <1>6

-------------------------------------------------------------------------------
(* The steps of the controller, of its threads and of its sandbox             *)

(* From the identity of the checkout to the worker that is waited for.        *)
LEMMA BeginningsHold ==
    ASSUME CheckoutHolds, HostHolds(VM), SandboxHolds,
           Main \/ Hydrate \/ Create \/ Exec \/ Wait
    PROVE  SandboxHolds'
<1> USE DEF SandboxHolds, SandboxShape, captureVars
<1>1. CASE Main
  <2>1. SandboxShape' /\ NothingEarly'
    BY <1>1 DEF Main, NothingEarly, Unstarted, CheckoutHolds, OnModal
  <2>2. StreamsHold' /\ ExitsHold'
    BY <1>1 DEF Main, StreamsHold, ExitsHold
  <2>3. ReleasesHold' /\ KeptHolds'
    BY <1>1 DEF Main, ReleasesHold, KeptHolds, Fetched, EndedWell, Kept, Released,
      OnModal
  <2>4. QED
    BY <2>1, <2>2, <2>3
<1>2. CASE Hydrate
  <2>1. SandboxShape' /\ NothingEarly'
    BY <1>2, HostsAre DEF Hydrate, Moves, NothingEarly, Unstarted,
      CheckoutHolds, OnModal
  <2>2. StreamsHold' /\ ExitsHold'
    BY <1>2 DEF Hydrate, Moves, StreamsHold, ExitsHold
  <2>3. ReleasesHold' /\ KeptHolds'
    BY <1>2 DEF Hydrate, Moves, ReleasesHold, KeptHolds, Fetched, EndedWell, Kept,
      Released, OnModal
  <2>4. QED
    BY <2>1, <2>2, <2>3
<1>3. CASE Create
  <2>1. SandboxShape' /\ NothingEarly'
    BY <1>3 DEF Create, NothingEarly, Unstarted, CheckoutHolds, OnModal
  <2>2. StreamsHold' /\ ExitsHold'
    BY <1>3 DEF Create, StreamsHold, ExitsHold
  <2>3. ReleasesHold' /\ KeptHolds'
    BY <1>3 DEF Create, ReleasesHold, KeptHolds, Fetched, EndedWell, Kept, Released,
      OnModal
  <2>4. QED
    BY <2>1, <2>2, <2>3
<1>4. CASE Exec
  <2>1. SandboxShape' /\ NothingEarly'
    BY <1>4, HostsAre DEF Exec, Moves, NothingEarly, Unstarted,
      CheckoutHolds, OnModal, Streams
  <2>2. StreamsHold' /\ ExitsHold'
    BY <1>4 DEF Exec, Moves, StreamsHold, ExitsHold, NothingEarly, Unstarted, Streams
  <2>3. ReleasesHold' /\ KeptHolds'
    BY <1>4 DEF Exec, Moves, ReleasesHold, KeptHolds, Fetched, EndedWell, Kept,
      Released, OnModal
  <2>4. QED
    BY <2>1, <2>2, <2>3
<1>5. CASE Wait
  <2>1. SandboxShape' /\ NothingEarly'
    BY <1>5 DEF Wait, NothingEarly, Unstarted, CheckoutHolds, OnModal
  <2>2. StreamsHold' /\ ExitsHold'
    BY <1>5 DEF Wait, StreamsHold, ExitsHold
  <2>3. ReleasesHold' /\ KeptHolds'
    BY <1>5 DEF Wait, ReleasesHold, KeptHolds, Fetched, EndedWell, Kept, Released,
      OnModal
  <2>4. QED
    BY <2>1, <2>2, <2>3
<1>6. QED
  BY <1>1, <1>2, <1>3, <1>4, <1>5

(* From its exit to the payload that is kept.                                 *)
LEMMA EndingsHold ==
    ASSUME CheckoutHolds, HostHolds(VM), SandboxHolds,
           Join \/ ReadPayload \/ Terminate \/ Detach \/ Keep
    PROVE  SandboxHolds'
<1> USE DEF SandboxHolds, SandboxShape, captureVars
<1>1. CASE Join
  <2>1. /\ control.at = "join" /\ UNCHANGED <<captureVars, remote, stream, finalizer>>
        /\ \A s \in Streams : stream[s].at \in {"ended", "broken"}
        /\ DOMAIN control' = DOMAIN control /\ control'.payload = control.payload
        /\ control'.source = control.source
        /\ \/ control'.at \in {"terminate", "ended"} /\ control'.failed
           \/ /\ control'.at = "read" /\ control'.failed = control.failed
              /\ control.exit = 0 /\ \A s \in Streams : stream[s].at # "broken"
    <3>1. CASE (\E s \in Streams : stream[s].at = "broken") \/ control.exit # 0
      <4>1. Raises /\ control.at = "join"
              /\ UNCHANGED <<captureVars, remote, stream, finalizer>>
              /\ \A s \in Streams : stream[s].at \in {"ended", "broken"}
        BY <1>1, <3>1, Zenon DEF Join
      <4>2. QED
        BY <4>1 DEF Raises
    <3>2. CASE ~((\E s \in Streams : stream[s].at = "broken") \/ control.exit # 0)
      BY <1>1, <3>2 DEF Join
    <3>3. QED
      BY <3>1, <3>2
  <2>2. SandboxShape' /\ NothingEarly'
    BY <2>1, HostsAre DEF NothingEarly, Unstarted, CheckoutHolds, OnModal
  <2>3. StreamsHold' /\ ExitsHold'
    BY <2>1 DEF StreamsHold, ExitsHold
  <2>4. ReleasesHold'
    <3>1. CASE control'.failed /\ control'.at # "read"
      BY <2>1, <3>1 DEF ReleasesHold, Fetched
    <3>2. CASE ~(control'.failed /\ control'.at # "read")
      <4>1. EndedWell
        BY <2>1, <3>2 DEF EndedWell, StreamsHold, ExitsHold
      <4>2. QED
        BY <2>1, <3>2, <4>1 DEF ReleasesHold, Fetched, EndedWell
    <3>3. QED
      BY <3>1, <3>2
  <2>5. KeptHolds'
    BY <2>1 DEF KeptHolds, Kept, Released, OnModal
  <2>6. QED
    BY <2>2, <2>3, <2>4, <2>5
<1>2. CASE ReadPayload
  <2>1. SandboxShape' /\ NothingEarly'
    BY <1>2, HostsAre DEF ReadPayload, NothingEarly, Unstarted,
      CheckoutHolds, OnModal
  <2>2. StreamsHold' /\ ExitsHold'
    BY <1>2 DEF ReadPayload, StreamsHold, ExitsHold
  <2>3. ReleasesHold' /\ KeptHolds'
    BY <1>2 DEF ReadPayload, ReleasesHold, KeptHolds, Fetched, EndedWell, Kept,
      Released, StreamsHold, ExitsHold, OnModal
  <2>4. QED
    BY <2>1, <2>2, <2>3
<1>3. CASE Terminate
  <2>1. /\ control.at = "terminate" /\ UNCHANGED <<checkout, disk, stream, finalizer>>
        /\ DOMAIN control' = DOMAIN control /\ control'.payload = control.payload
        /\ control'.source = control.source /\ control'.at = "detach"
        /\ DOMAIN remote' = DOMAIN remote /\ remote'.output = remote.output
        /\ remote'.written = remote.written
        /\ \/ /\ control'.failed = control.failed /\ UNCHANGED faults
              /\ remote'.sandbox = "terminated"
              /\ remote'.exit = IF remote.exit = -1 THEN 137 ELSE remote.exit
           \/ /\ control'.failed /\ faults'.kinds = faults.kinds \cup {"terminate"}
              /\ remote'.sandbox = remote.sandbox /\ remote'.exit = remote.exit
    <3>1. CASE Terminated /\ control' = [control EXCEPT !.at = "detach"] /\ UNCHANGED faults
      BY <1>3, <3>1 DEF Terminate, Terminated
    <3>2. CASE /\ Fault("terminate") /\ UNCHANGED <<capture, remote>>
               /\ control' = [control EXCEPT !.at = "detach", !.failed = TRUE]
      BY <1>3, <3>2 DEF Terminate, Fault
    <3>3. QED
      BY <1>3, <3>1, <3>2 DEF Terminate
  <2>2. SandboxShape' /\ NothingEarly'
    <3>1. SandboxShape'
      BY <2>1
    <3>2. NothingEarly'
      <4>1. control'.at = "detach"
        BY <2>1
      <4>2. QED
        BY <4>1 DEF NothingEarly, Unstarted
    <3>3. QED
      BY <3>1, <3>2
  <2>3. StreamsHold' /\ ExitsHold'
    BY <2>1 DEF StreamsHold, ExitsHold
  <2>4. ReleasesHold'
    BY <2>1 DEF ReleasesHold, Fetched, EndedWell
  <2>5. KeptHolds'
    BY <2>1 DEF KeptHolds, Kept, Released, OnModal
  <2>6. QED
    BY <2>2, <2>3, <2>4, <2>5
<1>4. CASE Detach
  <2>1. SandboxShape' /\ NothingEarly'
    BY <1>4, HostsAre DEF Detach, NothingEarly, Unstarted,
      CheckoutHolds, OnModal
  <2>2. StreamsHold' /\ ExitsHold'
    BY <1>4 DEF Detach, StreamsHold, ExitsHold
  <2>3. ReleasesHold' /\ KeptHolds'
    BY <1>4 DEF Detach, ReleasesHold, KeptHolds, Fetched, EndedWell, Kept, Released,
      StreamsHold, ExitsHold, OnModal
  <2>4. QED
    BY <2>1, <2>2, <2>3
<1>5. CASE Keep
  <2>1. SandboxShape' /\ NothingEarly'
    BY <1>5, HostsAre DEF Keep, NothingEarly, Unstarted, CheckoutHolds,
      OnModal
  <2>2. StreamsHold' /\ ExitsHold'
    BY <1>5 DEF Keep, StreamsHold, ExitsHold
  <2>3. ReleasesHold' /\ KeptHolds'
    BY <1>5 DEF Keep, ReleasesHold, KeptHolds, Fetched, EndedWell, Kept, Released,
      StreamsHold, ExitsHold, OnModal
  <2>4. QED
    BY <2>1, <2>2, <2>3
<1>6. QED
  BY <1>1, <1>2, <1>3, <1>4, <1>5

(* The payload is finalized at once or later.                                 *)
LEMMA FinalizationsHold ==
    ASSUME CheckoutHolds, HostHolds(VM), SandboxHolds,
           FinalizeLater \/ ReadUnvalidated \/ WriteValidated \/ UnlinkUnvalidated
    PROVE  SandboxHolds'
<1> USE DEF SandboxHolds, SandboxShape, captureVars
<1>1. CASE FinalizeLater
  <2>1. SandboxShape' /\ NothingEarly'
    BY <1>1, HostsAre DEF FinalizeLater, NothingEarly, Unstarted,
      CheckoutHolds, OnModal
  <2>2. StreamsHold' /\ ExitsHold'
    BY <1>1 DEF FinalizeLater, StreamsHold, ExitsHold
  <2>3. ReleasesHold' /\ KeptHolds'
    BY <1>1 DEF FinalizeLater, ReleasesHold, KeptHolds, Fetched, EndedWell, Kept,
      Released, StreamsHold, ExitsHold, OnModal
  <2>4. QED
    BY <2>1, <2>2, <2>3
<1>2. CASE ReadUnvalidated
  <2>1. SandboxShape' /\ NothingEarly'
    BY <1>2, HostsAre DEF ReadUnvalidated, NothingEarly, Unstarted,
      CheckoutHolds, OnModal
  <2>2. StreamsHold' /\ ExitsHold'
    BY <1>2 DEF ReadUnvalidated, StreamsHold, ExitsHold
  <2>3. ReleasesHold' /\ KeptHolds'
    BY <1>2 DEF ReadUnvalidated, ReleasesHold, KeptHolds, Fetched, EndedWell, Kept,
      Released, StreamsHold, ExitsHold, OnModal
  <2>4. QED
    BY <2>1, <2>2, <2>3
<1>3. CASE WriteValidated
  <2>1. SandboxShape' /\ NothingEarly'
    BY <1>3, HostsAre DEF WriteValidated, NothingEarly, Unstarted,
      CheckoutHolds, OnModal
  <2>2. StreamsHold' /\ ExitsHold'
    BY <1>3 DEF WriteValidated, StreamsHold, ExitsHold
  <2>3. ReleasesHold'
    BY <1>3 DEF WriteValidated, ReleasesHold, Fetched, EndedWell
  <2>4. /\ finalizer.at = "write" /\ UNCHANGED <<control, remote, stream, faults>>
        /\ disk'.unvalidated = disk.unvalidated
        /\ \/ finalizer'.at = "unlink" /\ disk'.archive[VM] # <<>>
           \/ finalizer'.at = "idle" /\ disk'.archive[VM] = disk.archive[VM]
    BY <1>3, HostsAre DEF WriteValidated, KeptHolds, CheckoutHolds
  <2>5. KeptHolds'
    BY <2>4 DEF KeptHolds, Kept, Released, OnModal
  <2>6. QED
    BY <2>1, <2>2, <2>3, <2>5
<1>4. CASE UnlinkUnvalidated
  <2>1. SandboxShape' /\ NothingEarly'
    BY <1>4, HostsAre DEF UnlinkUnvalidated, NothingEarly, Unstarted,
      CheckoutHolds, OnModal
  <2>2. StreamsHold' /\ ExitsHold'
    BY <1>4 DEF UnlinkUnvalidated, StreamsHold, ExitsHold
  <2>3. ReleasesHold' /\ KeptHolds'
    BY <1>4 DEF UnlinkUnvalidated, ReleasesHold, KeptHolds, Fetched, EndedWell,
      Kept, Released, StreamsHold, ExitsHold, OnModal
  <2>4. QED
    BY <2>1, <2>2, <2>3
<1>5. QED
  BY <1>1, <1>2, <1>3, <1>4

(* The worker ends, or is ended.                                              *)
LEMMA WorkerHolds ==
    ASSUME CheckoutHolds, HostHolds(VM), SandboxHolds,
           WorkerExits \/ WorkerIsKilled \/ TimeLimit
    PROVE  SandboxHolds'
<1> USE DEF SandboxHolds, SandboxShape, captureVars
<1>1. CASE WorkerExits
  <2>1. /\ remote.sandbox = "live" /\ remote.exit = -1 /\ capture[VM].at > 0
        /\ UNCHANGED <<captureVars, control, stream, finalizer>>
    BY <1>1 DEF WorkerExits, Alive
  <2>2. /\ DOMAIN remote' = DOMAIN remote /\ remote'.sandbox = "live"
        /\ remote'.attached = remote.attached
        /\ remote'.written \in [Streams -> Nat]
        /\ \A s \in Streams : remote'.written[s] >= remote.written[s]
        /\ \/ remote'.exit = -1 /\ remote'.written = remote.written
           \/ remote'.exit = 0 /\ remote'.output # <<>>
           \/ remote'.exit = 1
    <3>1. CASE Complete(VM) /\ remote' = [remote EXCEPT !.output = <<Artifact(VM)>>]
      BY <2>1, <3>1
    <3>2. CASE /\ remote.output # <<>>
               /\ remote' = [remote EXCEPT !.exit = 0, !.written["stdout"] = @ + 1]
      BY <2>1, <3>2 DEF Streams
    <3>3. CASE remote' = [remote EXCEPT !.exit = 1,
                                        !.written = [s \in Streams |-> @[s] + 1]]
      BY <2>1, <3>3
    <3>4. QED
      BY <1>1, <3>1, <3>2, <3>3 DEF WorkerExits
  <2>3. SandboxShape' /\ NothingEarly'
    BY <2>1, <2>2, HostsAre DEF NothingEarly, Unstarted, CheckoutHolds,
      OnModal
  <2>4. StreamsHold' /\ ExitsHold'
    BY <2>1, <2>2 DEF StreamsHold, ExitsHold
  <2>5. ReleasesHold' /\ KeptHolds'
    BY <2>1, <2>2 DEF ReleasesHold, KeptHolds, Fetched, EndedWell, Kept, Released,
      OnModal
  <2>6. QED
    BY <2>3, <2>4, <2>5
<1>2. CASE WorkerIsKilled
  <2>1. SandboxShape' /\ NothingEarly'
    BY <1>2, HostsAre DEF WorkerIsKilled, Alive, Fault, NothingEarly,
      Unstarted, CheckoutHolds, OnModal
  <2>2. StreamsHold' /\ ExitsHold'
    BY <1>2 DEF WorkerIsKilled, Alive, Fault, StreamsHold, ExitsHold
  <2>3. ReleasesHold' /\ KeptHolds'
    BY <1>2 DEF WorkerIsKilled, Alive, Fault, ReleasesHold, KeptHolds, Fetched,
      EndedWell, Kept, Released, StreamsHold, ExitsHold, OnModal
  <2>4. QED
    BY <2>1, <2>2, <2>3
<1>3. CASE TimeLimit
  <2>1. SandboxShape' /\ NothingEarly'
    BY <1>3, HostsAre DEF TimeLimit, Terminated, NothingEarly,
      Unstarted, CheckoutHolds, OnModal
  <2>2. StreamsHold' /\ ExitsHold'
    BY <1>3 DEF TimeLimit, Terminated, StreamsHold, ExitsHold
  <2>3. ReleasesHold' /\ KeptHolds'
    BY <1>3 DEF TimeLimit, Terminated, ReleasesHold, KeptHolds, Fetched, EndedWell,
      Kept, Released, StreamsHold, ExitsHold, OnModal
  <2>4. QED
    BY <2>1, <2>2, <2>3
<1>4. QED
  BY <1>1, <1>2, <1>3

(* A call of the controller fails, or its process ends.                       *)
LEMMA CallsThatFailHold ==
    ASSUME CheckoutHolds, HostHolds(VM), SandboxHolds,
           RemoteCallFails \/ DetachFails \/ ControllerIsKilled
    PROVE  SandboxHolds'
<1> USE DEF SandboxHolds, SandboxShape, captureVars
<1>1. CASE RemoteCallFails
  <2>1. /\ control.at \in {"hydrate", "create", "exec", "wait", "read"}
        /\ faults'.kinds = faults.kinds \cup {"remote"} /\ OnModal
        /\ UNCHANGED <<capture, checkout, disk, stream, finalizer>>
    BY <1>1 DEF RemoteCallFails, Fault
  <2>2. /\ DOMAIN control' = DOMAIN control /\ control'.failed
        /\ control'.at \in {"terminate", "ended"}
        /\ control'.source = control.source /\ control'.payload = control.payload
    BY <1>1 DEF RemoteCallFails, Raises
  <2>3. /\ DOMAIN remote' = DOMAIN remote /\ remote'.attached = remote.attached
        /\ remote'.exit = remote.exit /\ remote'.output = remote.output
        /\ remote'.written = remote.written
        /\ remote'.sandbox = remote.sandbox \/ control.at = "create"
    BY <1>1 DEF RemoteCallFails
  <2>4. SandboxShape' /\ NothingEarly'
    BY <2>1, <2>2, <2>3 DEF NothingEarly, Unstarted, CheckoutHolds,
      OnModal
  <2>5. StreamsHold' /\ ExitsHold'
    BY <2>1, <2>2, <2>3 DEF StreamsHold, ExitsHold
  <2>6. ReleasesHold' /\ KeptHolds'
    BY <2>1, <2>2, <2>3 DEF ReleasesHold, KeptHolds, Fetched, EndedWell, Kept,
      Released, OnModal
  <2>7. QED
    BY <2>4, <2>5, <2>6
<1>2. CASE DetachFails
  <2>1. SandboxShape' /\ NothingEarly'
    BY <1>2, HostsAre DEF DetachFails, Fault, NothingEarly, Unstarted,
      CheckoutHolds, OnModal
  <2>2. StreamsHold' /\ ExitsHold'
    BY <1>2 DEF DetachFails, Fault, StreamsHold, ExitsHold
  <2>3. ReleasesHold' /\ KeptHolds'
    BY <1>2 DEF DetachFails, Fault, ReleasesHold, KeptHolds, Fetched, EndedWell,
      Kept, Released, StreamsHold, ExitsHold, OnModal
  <2>4. QED
    BY <2>1, <2>2, <2>3
<1>3. CASE ControllerIsKilled
  <2>0. stream' \in [Streams -> [at : {"idle"}, read : Nat]]
    BY <1>3 DEF ControllerIsKilled
  <2>1. SandboxShape' /\ NothingEarly'
    <3>1. /\ control' = [control EXCEPT !.at = "killed"]
          /\ finalizer' = [finalizer EXCEPT !.at = "idle"]
          /\ UNCHANGED <<capture, checkout, disk, remote>> /\ OnModal
      BY <1>3 DEF ControllerIsKilled, KeptHolds
    <3>2. QED
      BY <2>0, <3>1 DEF NothingEarly, Unstarted, CheckoutHolds, OnModal
  <2>2. StreamsHold' /\ ExitsHold'
    BY <1>3, SMTT(40) DEF ControllerIsKilled, Fault, StreamsHold, ExitsHold
  <2>3. ReleasesHold' /\ KeptHolds'
    BY <1>3 DEF ControllerIsKilled, Fault, ReleasesHold, KeptHolds, Fetched,
      EndedWell, Kept, Released, StreamsHold, ExitsHold, OnModal
  <2>4. QED
    BY <2>1, <2>2, <2>3
<1>4. QED
  BY <1>1, <1>2, <1>3

(* A thread reads, ends or breaks.                                            *)
LEMMA DrainsHold ==
    ASSUME NEW s \in Streams, CheckoutHolds, HostHolds(VM), SandboxHolds,
           Drain(s) \/ DrainBreaks(s)
    PROVE  SandboxHolds'
<1> USE DEF SandboxHolds, SandboxShape, captureVars
<1>1. CASE Drain(s)
  <2>1. SandboxShape' /\ NothingEarly'
    BY <1>1, HostsAre DEF Drain, NothingEarly, Unstarted, CheckoutHolds,
      OnModal
  <2>2. StreamsHold' /\ ExitsHold'
    <3>1. /\ stream[s].at = "reading" /\ UNCHANGED <<captureVars, control, remote, finalizer>>
          /\ \A r \in Streams \ {s} : stream'[r] = stream[r]
          /\ \/ /\ stream[s].read < remote.written[s]
                /\ stream'[s].at = "reading" /\ stream'[s].read = stream[s].read + 1
             \/ /\ stream[s].read >= remote.written[s] /\ remote.exit >= 0
                /\ stream'[s].at = "ended" /\ stream'[s].read = stream[s].read
      BY <1>1 DEF Drain
    <3>2. stream[s].read \in Nat /\ remote.written[s] \in Nat
      OBVIOUS
    <3>3. stream'[s].read <= remote.written[s]
          /\ (stream'[s].at = "ended" => stream'[s].read = remote.written[s])
      BY <3>1, <3>2 DEF StreamsHold
    <3>4. "stream" \in faults.kinds /\ control.at # "killed" =>
            \E r \in Streams : stream'[r].at = "broken"
      <4>1. HAVE "stream" \in faults.kinds /\ control.at # "killed"
      <4>2. PICK r \in Streams : stream[r].at = "broken"
        BY <4>1 DEF StreamsHold
      <4>3. QED
        BY <3>1, <4>2
    <3>5. ASSUME NEW r \in Streams
          PROVE  /\ stream'[r].read <= remote.written[r]
                 /\ stream'[r].at = "ended" =>
                      stream'[r].read = remote.written[r] /\ remote.exit # -1
      BY <3>1, <3>3 DEF StreamsHold
    <3>6. StreamsHold'
      BY <3>1, <3>4, <3>5 DEF StreamsHold
    <3>7. ExitsHold'
      BY <3>1 DEF ExitsHold
    <3>8. QED
      BY <3>6, <3>7
  <2>3. ReleasesHold' /\ KeptHolds'
    BY <1>1 DEF Drain, ReleasesHold, KeptHolds, Fetched, EndedWell, Kept, Released,
      StreamsHold, ExitsHold, OnModal
  <2>4. QED
    BY <2>1, <2>2, <2>3
<1>2. CASE DrainBreaks(s)
  <2>1. SandboxShape' /\ NothingEarly'
    BY <1>2, HostsAre DEF DrainBreaks, Fault, NothingEarly, Unstarted,
      CheckoutHolds, OnModal
  <2>2. StreamsHold' /\ ExitsHold'
    BY <1>2 DEF DrainBreaks, Fault, StreamsHold, ExitsHold
  <2>3. ReleasesHold' /\ KeptHolds'
    BY <1>2 DEF DrainBreaks, Fault, ReleasesHold, KeptHolds, Fetched, EndedWell,
      Kept, Released, StreamsHold, ExitsHold, OnModal
  <2>4. QED
    BY <2>1, <2>2, <2>3
<1>3. QED
  BY <1>1, <1>2

(* The image is taken before the worker is there.                             *)
LEMMA HydrateHolds ==
    ASSUME CheckoutHolds, HostHolds(VM), SandboxHolds, Onward, Hydrate
    PROVE  HostHolds(VM)'
<1> USE DEF Artifact
<1>1. OnModal /\ capture[VM].at = 0
  BY DEF Hydrate, Moves, SandboxHolds, SandboxShape, NothingEarly, Unstarted
<1>2. capture' = [capture EXCEPT ![VM].image = checkout] /\ UNCHANGED <<checkout, disk>>
  BY DEF Hydrate
<1>3. DOMAIN capture = Hosts /\ HostShape(VM)
  BY DEF CheckoutHolds, HostHolds
<1>4. /\ capture'[VM].at = capture[VM].at /\ capture'[VM].artifact = capture[VM].artifact
      /\ capture'[VM].environment = capture[VM].environment
      /\ capture'[VM].baseline = capture[VM].baseline
      /\ capture'[VM].allocation = capture[VM].allocation
      /\ DOMAIN capture'[VM] = DOMAIN capture[VM]
  BY <1>2, <1>3, HostsAre DEF HostShape
<1>5. HostShape(VM)' /\ FirstLooks(VM)' /\ ResultsHold(Artifact(VM))'
  BY <1>4 DEF HostHolds, HostShape, FirstLooks, ResultsHold, BaselineAt
<1>6. DisturbancesShow(VM)'
  BY <1>2, <1>4 DEF HostHolds, DisturbancesShow, AllUndisturbed, CheckedAt, AttestedAt,
    Timed, Onward
<1>7. WheelHolds(VM)'
  BY <1>2, <1>4 DEF HostHolds, WheelHolds, WheelIsOf, Onward
<1>8. SourceHolds(VM)' /\ WorkspaceHolds(VM)'
  BY <1>1, <1>2, <1>4 DEF HostHolds, SourceHolds, WorkspaceHolds, OnModal
<1>9. QED
  BY <1>5, <1>6, <1>7, <1>8 DEF HostHolds

(* The worker is started on that image, with the identity the controller took *)
(* before.                                                                    *)
LEMMA ExecHolds ==
    ASSUME CheckoutHolds, HostHolds(VM), SandboxHolds, Onward, Exec
    PROVE  HostHolds(VM)'
<1> USE DEF Artifact
<1>1. OnModal /\ capture[VM].at = 0
  BY DEF Exec, Moves, SandboxHolds, SandboxShape, NothingEarly, Unstarted
<1>2. /\ capture' = [capture EXCEPT ![VM].at = 1, ![VM].artifact.source = control.source]
      /\ UNCHANGED <<checkout, disk>>
  BY DEF Exec
<1>3. DOMAIN capture = Hosts /\ HostShape(VM)
  BY DEF CheckoutHolds, HostHolds
<1>4. /\ capture'[VM].image = capture[VM].image /\ capture'[VM].at = 1
      /\ capture'[VM].environment = capture[VM].environment
      /\ capture'[VM].baseline = capture[VM].baseline
      /\ capture'[VM].allocation = capture[VM].allocation
      /\ capture'[VM].artifact = [capture[VM].artifact EXCEPT !.source = control.source]
      /\ DOMAIN capture'[VM] = DOMAIN capture[VM]
  BY <1>2, <1>3, HostsAre DEF HostShape
<1>5. /\ DOMAIN capture'[VM].artifact = DOMAIN capture[VM].artifact
      /\ capture'[VM].artifact.source = control.source
      /\ capture'[VM].artifact.masks = capture[VM].artifact.masks
      /\ capture'[VM].artifact.wheel = capture[VM].artifact.wheel
      /\ capture'[VM].artifact.results = capture[VM].artifact.results
      /\ capture'[VM].artifact.members = {} /\ capture[VM].artifact.members = {}
  BY <1>1, <1>3, <1>4 DEF HostHolds, HostShape, SourceHolds
<1>6. CheckedAt(VM) \in Nat /\ AttestedAt(VM) \in Nat /\ BaselineAt(VM) \in Nat
  BY HostsAre, PlanFacts, SMTT(40) DEF CheckedAt, AttestedAt
<1>7. HostShape(VM)' /\ FirstLooks(VM)'
  BY <1>1, <1>4, <1>5, <1>6 DEF HostHolds, HostShape, FirstLooks, BaselineAt
<1>8. ResultsHold(Artifact(VM))' /\ WheelHolds(VM)'
  BY <1>2, <1>4, <1>5 DEF HostHolds, ResultsHold, WheelHolds, WheelIsOf
<1>9. capture[VM].environment = 1 /\ capture[VM].allocation = 1
  BY <1>1, <1>3, <1>6 DEF HostHolds, HostShape, FirstLooks
<1>10. DisturbancesShow(VM)'
  BY <1>4, <1>5, <1>9 DEF HostHolds, DisturbancesShow, AllUndisturbed, Onward
<1>11. SourceHolds(VM)' /\ WorkspaceHolds(VM)'
  BY <1>1, <1>2, <1>4, <1>5 DEF HostHolds, SourceHolds, WorkspaceHolds, OnModal
<1>12. QED
  BY <1>7, <1>8, <1>10, <1>11 DEF HostHolds

(* A step of the controller, of what it started or of what follows it.        *)
SandboxStep ==
    \/ ControlStep \/ FinalizerStep \/ FinalizeLater \/ WorkerExits \/ TimeLimit
    \/ \E s \in Streams : Drain(s)
    \/ SandboxFaults

(* Such a step notes what goes wrong, if anything does.                       *)
LEMMA SandboxStepIsNoted ==
    ASSUME SandboxStep
    PROVE  faults.kinds \subseteq faults'.kinds
<1>1. ASSUME NEW kind, Fault(kind) PROVE faults.kinds \subseteq faults'.kinds
  BY <1>1 DEF Fault
<1>2. CASE SandboxFaults
  BY <1>1, <1>2 DEF SandboxFaults, RemoteCallFails, WorkerIsKilled, DetachFails,
    ControllerIsKilled, DrainBreaks
<1>3. CASE ControlStep
  <2>1. UNCHANGED faults \/ Fault("terminate")
    BY <1>3 DEF ControlStep, Hydrate, Main, Create, Exec, Wait, Join, ReadPayload,
      Terminate, Detach, Keep, captureVars
  <2>2. QED
    BY <1>1, <2>1
<1>4. CASE FinalizerStep \/ FinalizeLater \/ WorkerExits \/ TimeLimit
  BY <1>4 DEF FinalizerStep, ReadUnvalidated, WriteValidated, UnlinkUnvalidated,
    FinalizeLater, WorkerExits, TimeLimit, captureVars
<1>5. CASE \E s \in Streams : Drain(s)
  BY <1>5 DEF Drain, captureVars
<1>6. QED
  BY <1>2, <1>3, <1>4, <1>5 DEF SandboxStep

(* What such a step does to the disk: a payload moves towards the archive.    *)
LEMMA PayloadsMove ==
    ASSUME Inv, SandboxStep
    PROVE  /\ UNCHANGED checkout
           /\ DOMAIN disk' = DOMAIN disk /\ DOMAIN disk'.archive = DOMAIN disk.archive
           /\ \A h \in Hosts \ {VM} : disk'.archive[h] = disk.archive[h]
           /\ disk.archive[VM] # <<>> => disk'.archive[VM] # <<>>
           /\ \A payload \in Payloads(VM)' :
                payload \in Payloads(VM) \/ SoundNow(VM, payload)
<1> DEFINE Moved ==
             /\ UNCHANGED <<checkout, disk>>
             /\ remote'.output = remote.output \/ SoundNow(VM, remote'.output)
             /\ control'.payload = control.payload \/ control'.payload = remote.output
             /\ finalizer'.payload = finalizer.payload
                  \/ finalizer'.payload = disk.unvalidated
<1>1. /\ DOMAIN disk = {"archive", "unvalidated"} /\ DOMAIN disk.archive = Hosts
      /\ SandboxShape /\ HostHolds(VM)
  BY HostsAre DEF Inv, CheckoutHolds, SandboxHolds
<1>2. SoundNow(VM, <<>>)
  BY DEF SoundNow, Sound
<1>3. SUFFICES ASSUME ~Moved
               PROVE  Keep \/ WriteValidated \/ UnlinkUnvalidated
  <2>1. CASE Moved
    BY <2>1 DEF Payloads
  <2>2. CASE Keep
    BY <1>1, <2>2 DEF Payloads, Keep, SandboxShape
  <2>3. CASE WriteValidated
    <3>1. finalizer.payload # <<>>
      BY <2>3 DEF WriteValidated, Inv, SandboxHolds, KeptHolds
    <3>2. /\ UNCHANGED <<checkout, remote, control>>
          /\ finalizer'.payload = finalizer.payload
          /\ \/ disk' = [disk EXCEPT !.archive[VM] = finalizer.payload]
             \/ UNCHANGED disk
      BY <1>1, <2>3 DEF WriteValidated, SandboxShape
    <3>3. CASE disk' = [disk EXCEPT !.archive[VM] = finalizer.payload]
      BY <1>1, <3>1, <3>2, <3>3 DEF Payloads
    <3>4. CASE UNCHANGED disk
      BY <3>2, <3>4 DEF Payloads
    <3>5. QED
      BY <3>2, <3>3, <3>4
  <2>4. CASE UnlinkUnvalidated
    BY <1>1, <1>2, <2>4 DEF Payloads, UnlinkUnvalidated, SandboxShape
  <2>5. QED
    BY <2>1, <2>2, <2>3, <2>4
<1> USE DEF captureVars
<1>4. ASSUME Raises PROVE control'.payload = control.payload
  BY <1>1, <1>4 DEF Raises, SandboxShape
<1>5. ASSUME Terminated PROVE remote'.output = remote.output
  BY <1>1, <1>5 DEF Terminated, SandboxShape
<1>6. CASE Main
  BY <1>1, <1>3, <1>6 DEF Main, SandboxShape
<1>7. CASE Hydrate
  BY <1>1, <1>3, <1>7 DEF Hydrate, Moves, SandboxShape
<1>8. CASE Create
  BY <1>1, <1>3, <1>8 DEF Create, SandboxShape
<1>9. CASE Exec
  BY <1>1, <1>3, <1>9 DEF Exec, Moves, SandboxShape
<1>10. CASE Wait
  BY <1>1, <1>3, <1>10 DEF Wait, SandboxShape
<1>11. CASE Join
  BY <1>1, <1>3, <1>4, <1>11 DEF Join, SandboxShape
<1>12. CASE ReadPayload
  BY <1>1, <1>3, <1>12 DEF ReadPayload, SandboxShape
<1>13. CASE Terminate
  <2>1. UNCHANGED <<checkout, disk, finalizer>>
    BY <1>13 DEF Terminate
  <2>2. remote'.output = remote.output
    BY <1>5, <1>13 DEF Terminate
  <2>3. control'.payload = control.payload
    <3>1. \/ control' = [control EXCEPT !.at = "detach"]
          \/ control' = [control EXCEPT !.at = "detach", !.failed = TRUE]
      BY <1>13, Zenon DEF Terminate
    <3>2. {"at", "payload", "failed"} \subseteq DOMAIN control
      BY <1>1 DEF SandboxShape
    <3>3. CASE control' = [control EXCEPT !.at = "detach"]
      BY <3>2, <3>3
    <3>4. CASE control' = [control EXCEPT !.at = "detach", !.failed = TRUE]
      BY <3>2, <3>4
    <3>5. QED
      BY <3>1, <3>3, <3>4
  <2>4. QED
    BY <1>3, <2>1, <2>2, <2>3
<1>14. CASE Detach
  BY <1>1, <1>3, <1>14 DEF Detach, SandboxShape
<1>15. CASE FinalizeLater
  BY <1>1, <1>3, <1>15 DEF FinalizeLater, SandboxShape
<1>16. CASE ReadUnvalidated
  BY <1>1, <1>3, <1>16 DEF ReadUnvalidated, SandboxShape
<1>17. CASE WorkerExits
  <2>1. Complete(VM) => SoundNow(VM, <<Artifact(VM)>>)
    BY <1>1, HostsAre, CompletedIsSound
  <2>2. UNCHANGED <<checkout, disk, control, finalizer>>
    BY <1>17 DEF WorkerExits
  <2>3. CASE Complete(VM) /\ remote' = [remote EXCEPT !.output = <<Artifact(VM)>>]
    BY <1>1, <1>3, <2>1, <2>2, <2>3 DEF SandboxShape
  <2>4. CASE remote'.output = remote.output
    BY <1>3, <2>2, <2>4
  <2>5. QED
    <3>1. CASE remote' = [remote EXCEPT !.exit = 0, !.written["stdout"] = @ + 1]
      BY <1>1, <2>4, <3>1 DEF SandboxShape
    <3>2. CASE remote' = [remote EXCEPT !.exit = 1,
                                        !.written = [s \in Streams |-> @[s] + 1]]
      BY <1>1, <2>4, <3>2 DEF SandboxShape
    <3>3. QED
      BY <1>17, <2>3, <3>1, <3>2 DEF WorkerExits
<1>18. CASE TimeLimit
  BY <1>1, <1>3, <1>5, <1>18 DEF TimeLimit, SandboxShape
<1>19. CASE \E s \in Streams : Drain(s)
  BY <1>1, <1>3, <1>19 DEF Drain, SandboxShape
<1>20. CASE RemoteCallFails
  BY <1>1, <1>3, <1>4, <1>20 DEF RemoteCallFails, SandboxShape
<1>21. CASE WorkerIsKilled
  BY <1>1, <1>3, <1>21 DEF WorkerIsKilled, SandboxShape
<1>22. CASE DetachFails
  BY <1>1, <1>3, <1>22 DEF DetachFails, SandboxShape
<1>23. CASE ControllerIsKilled
  BY <1>1, <1>3, <1>23 DEF ControllerIsKilled, SandboxShape
<1>24. CASE \E s \in Streams : DrainBreaks(s)
  BY <1>1, <1>3, <1>24 DEF DrainBreaks, SandboxShape
<1>25. QED
  BY <1>6, <1>7, <1>8, <1>9, <1>10, <1>11, <1>12, <1>13, <1>14, <1>15, <1>16,
     <1>17, <1>18, <1>19, <1>20, <1>21, <1>22, <1>23, <1>24
  DEF SandboxStep, ControlStep, FinalizerStep, SandboxFaults

(* The hosts keep their invariant meanwhile.                                  *)
LEMMA HostsFollow ==
    ASSUME Inv, SandboxStep
    PROVE  CheckoutHolds' /\ Onward /\ \A h \in Hosts : HostHolds(h)'
<1>1. /\ CheckoutHolds /\ SandboxHolds /\ DOMAIN capture = Hosts
      /\ \A h \in Hosts : HostHolds(h) /\ HostShape(h)
  BY DEF Inv, CheckoutHolds, HostHolds
<1>2. /\ UNCHANGED checkout
      /\ DOMAIN disk' = DOMAIN disk /\ DOMAIN disk'.archive = DOMAIN disk.archive
      /\ \A h \in Hosts : disk.archive[h] # <<>> => disk'.archive[h] # <<>>
  BY PayloadsMove, HostsAre
<1>3. /\ DOMAIN capture' = Hosts /\ \A h \in Hosts \ {VM} : capture'[h] = capture[h]
      /\ \/ Hydrate \/ Exec
         \/ UNCHANGED capture
         \/ capture' = [capture EXCEPT ![VM].failed = TRUE]
  <2>1. CASE Hydrate \/ Exec
    BY <1>1, <2>1 DEF Hydrate, Exec
  <2>2. CASE Main \/ Create \/ Wait \/ Join \/ ReadPayload \/ Detach \/ Keep
    BY <1>1, <2>2 DEF Main, Create, Wait, Join, ReadPayload, Detach, Keep, captureVars
  <2>3. ASSUME Terminated
        PROVE  UNCHANGED capture \/ capture' = [capture EXCEPT ![VM].failed = TRUE]
    BY <2>3 DEF Terminated
  <2>4. CASE Terminate \/ TimeLimit
    <3>1. UNCHANGED capture \/ capture' = [capture EXCEPT ![VM].failed = TRUE]
      BY <2>3, <2>4 DEF Terminate, TimeLimit
    <3>2. QED
      BY <1>1, <3>1
  <2>5. CASE FinalizerStep \/ FinalizeLater \/ WorkerExits
    BY <1>1, <2>5 DEF FinalizerStep, ReadUnvalidated, WriteValidated,
      UnlinkUnvalidated, FinalizeLater, WorkerExits, captureVars
  <2>6. CASE \E s \in Streams : Drain(s) \/ DrainBreaks(s)
    BY <1>1, <2>6 DEF Drain, DrainBreaks, captureVars
  <2>7. CASE RemoteCallFails \/ DetachFails \/ ControllerIsKilled
    BY <1>1, <2>7 DEF RemoteCallFails, DetachFails, ControllerIsKilled
  <2>8. CASE WorkerIsKilled
    BY <1>1, <2>8 DEF WorkerIsKilled
  <2>9. QED
    BY <2>1, <2>2, <2>4, <2>5, <2>6, <2>7, <2>8
    DEF SandboxStep, ControlStep, SandboxFaults
<1>4. CheckoutHolds' /\ Onward
  <2>1. CheckoutHolds'
    BY <1>1, <1>2, <1>3 DEF CheckoutHolds
  <2>2. checkout'.tree = checkout.tree /\ checkout'.tree \in Versions
    BY <1>1, <1>2 DEF CheckoutHolds
  <2>3. faults.kinds \subseteq faults'.kinds
    BY SandboxStepIsNoted
  <2>4. QED
    BY <1>1, <2>1, <2>2, <2>3, NotedIsOnward
<1>5. ASSUME NEW h \in Hosts \ {VM} PROVE HostHolds(h)'
  BY <1>1, <1>2, <1>3, <1>4, HostFrame
<1>6. HostHolds(VM)'
  <2>1. CASE Hydrate \/ Exec
    BY <1>1, <1>4, <2>1, HydrateHolds, ExecHolds, HostsAre
  <2>2. CASE UNCHANGED capture
    BY <1>1, <1>2, <1>4, <2>2, HostFrame, HostsAre
  <2>3. CASE capture' = [capture EXCEPT ![VM].failed = TRUE]
    BY <1>1, <1>2, <1>4, <2>3, HostFrame, HostsAre DEF HostShape
  <2>4. QED
    BY <1>3, <2>1, <2>2, <2>3
<1>7. QED
  BY <1>4, <1>5, <1>6

(* A step of the controller or of its sandbox keeps the whole invariant.      *)
LEMMA SandboxStepHolds ==
    ASSUME Inv, SandboxStep, UNCHANGED certificateVars
    PROVE  Inv'
<1>1. CheckoutHolds' /\ Onward /\ \A h \in Hosts : HostHolds(h)'
  BY HostsFollow
<1>2. SandboxHolds'
  <2>1. CheckoutHolds /\ HostHolds(VM) /\ SandboxHolds
    BY HostsAre DEF Inv
  <2>2. QED
    BY <2>1, BeginningsHold, EndingsHold, FinalizationsHold, WorkerHolds,
      CallsThatFailHold, DrainsHold DEF SandboxStep, ControlStep, FinalizerStep,
      SandboxFaults
<1>3. PayloadsAreSound'
  <2>1. ASSUME NEW h \in Hosts, NEW payload \in Payloads(h)'
        PROVE  payload \in Payloads(h) \/ SoundNow(h, payload)
    <3>1. CASE h = VM
      BY <3>1, PayloadsMove
    <3>2. CASE h # VM
      BY <3>2, PayloadsMove DEF Payloads
    <3>3. QED
      BY <3>1, <3>2
  <2>2. QED
    BY <1>1, <2>1, PayloadsFrame DEF Inv
<1>4. CertificatesHold'
  BY <1>1, CertificatesFrame DEF Inv, certificateVars
<1>5. QED
  BY <1>1, <1>2, <1>3, <1>4 DEF Inv

-------------------------------------------------------------------------------
(* The certification                                                          *)

(* What is rebuilt from two sound archives rests on both captures: the one    *)
(* source they name is the version the checkout has now.  The wheel of the    *)
(* sandbox is of that source; a local one is of a version between the two     *)
(* unless files were brought back.                                            *)
LEMMA RebuiltRests ==
    ASSUME CheckoutHolds, PayloadsAreSound, BothArchives, Rebuilds(Archives)
    PROVE  Rests(Certification(Archives), Restored, Steady)
<1>1. PICK archives : archives = Archives
  OBVIOUS
<1>2. PICK source : source = archives["arm64"].source
  OBVIOUS
<1>3. ASSUME NEW h \in Hosts
      PROVE  /\ archives[h].source = source /\ source = checkout.head
             /\ source = checkout.tree /\ source \in Versions
  BY <1>1, <1>2, <1>3, HostsAre
  DEF Rebuilds, IdentityAgrees, SourceIsCurrent, CheckoutHolds
<1>4. ASSUME NEW h \in Hosts
      PROVE  /\ ResultsHold(archives[h]) /\ (Steady => AllUndisturbed(archives[h]))
             /\ WheelIsOf(h, archives[h], checkout.tree, Restored)
  <2>1. SoundNow(h, disk.archive[h]) /\ disk.archive[h] # <<>>
    BY DEF PayloadsAreSound, Payloads, BothArchives
  <2>2. archives[h] = disk.archive[h][1]
    BY <1>1 DEF Archives
  <2>3. QED
    BY <2>1, <2>2 DEF SoundNow, Sound
<1>5. ASSUME NEW h \in Hosts
      PROVE  /\ <<"wheel">> \in archives[h].members
             /\ \A t \in BudgetSet : <<"benchmark", t>> \in archives[h].members
             /\ \A i \in DOMAIN Budgets : BenchmarkAgrees(archives[h], i)
  BY <1>1 DEF Rebuilds, Authentic, Readable, Required
<1>6. ASSUME NEW h \in Hosts, Provider[h] = "modal" \/ ~Restored
      PROVE  archives[h].wheel = source
  <2>1. CASE Provider[h] = "modal"
    BY <1>3, <1>4, <1>5, <2>1 DEF WheelIsOf
  <2>2. CASE Provider[h] # "modal"
    <3>1. /\ archives[h].wheel \in Nat /\ source \in Nat
          /\ source <= archives[h].wheel /\ archives[h].wheel <= source
      BY <1>3, <1>4, <1>5, <1>6, <2>2, VersionsAssumption DEF WheelIsOf
    <3>2. QED
      BY <3>1
  <2>3. QED
    BY <2>1, <2>2
<1>7. ASSUME NEW h \in Hosts, NEW t \in BudgetSet
      PROVE  /\ archives[h].results[t].wheel = archives[h].wheel
             /\ Steady => archives[h].results[t].undisturbed
             /\ archives[h].results[t].workload = WorkloadOf[source]
             /\ archives[h].results[t].speed \in {"met", "noisy", "slow"}
  <2>1. t \in DOMAIN archives[h].results
    BY <1>4, <1>5 DEF ResultsHold
  <2>2. PICK i \in DOMAIN Budgets : Budgets[i] = t
    BY DEF BudgetSet
  <2>3. archives[h].results[t].wheel = archives[h].wheel
    BY <1>5, <2>2 DEF BenchmarkAgrees
  <2>4. archives[h].results[t].workload = WorkloadOf[source]
    BY <1>1, <1>3 DEF Rebuilds, WorkloadIsCurrent
  <2>5. QED
    BY <1>4, <2>1, <2>3, <2>4 DEF ResultsHold, AllUndisturbed
<1>8. /\ Certification(archives).source = source
      /\ Certification(archives).captures = archives
      /\ Certification(archives).releasable <=> \A gate \in Gates : ~Missed(archives, gate)
  BY <1>2 DEF Certification
<1>9. (\A gate \in Gates : ~Missed(archives, gate))
        <=> \A h \in Hosts, t \in BudgetSet : archives[h].results[t].speed = "met"
  <2>1. ASSUME \A gate \in Gates : ~Missed(archives, gate),
               NEW h \in Hosts, NEW t \in BudgetSet
        PROVE  archives[h].results[t].speed = "met"
    <3>1. <<"noise", h, t>> \in Gates /\ <<"speed", h, t>> \in Gates
      BY DEF Gates
    <3>2. ~Missed(archives, <<"noise", h, t>>) /\ ~Missed(archives, <<"speed", h, t>>)
      BY <2>1, <3>1
    <3>3. QED
      BY <1>7, <3>2 DEF Missed
  <2>2. ASSUME \A h \in Hosts, t \in BudgetSet : archives[h].results[t].speed = "met",
               NEW gate \in Gates
        PROVE  ~Missed(archives, gate)
    BY <2>2 DEF Gates, Missed
  <2>3. QED
    BY <2>1, <2>2
<1>10. ASSUME NEW h \in Hosts
       PROVE  RestsOn(archives[h], source, h, Restored, Steady)
  BY <1>3, <1>6, <1>7 DEF RestsOn
<1>11. QED
  BY <1>1, <1>8, <1>9, <1>10 DEF Rests

(* The processes that certify, and the end of one, change nothing else.       *)
LEMMA CertificatesFollow ==
    ASSUME Inv, CertificateStep \/ CertifierIsKilled
    PROVE  Inv'
<1> USE DEF Inv
<1>1. /\ UNCHANGED <<capture, checkout, disk, sandboxVars>>
      /\ faults'.kinds \cap Watched = faults.kinds \cap Watched
      /\ faults.kinds \subseteq faults'.kinds
  BY DEF CertificateStep, Certify, WriteArtifact, WriteReport, Accept,
    CertifierIsKilled, captureVars, Fault, Watched
<1>2. Onward
  BY <1>1, NotedIsOnward DEF CheckoutHolds
<1>3. CheckoutHolds' /\ (\A h \in Hosts : HostHolds(h)') /\ SandboxHolds'
  <2>1. CheckoutHolds'
    BY <1>1 DEF CheckoutHolds
  <2>2. ASSUME NEW h \in Hosts PROVE HostHolds(h)'
    <3>1. capture'[h].workspace = capture[h].workspace \/ disk'.archive[h] # <<>>
      BY <1>1
    <3>2. QED
      BY <1>1, <1>2, <3>1, HostFrame
  <2>3. SandboxHolds'
    BY <1>1, SandboxFrame
  <2>4. QED
    BY <2>1, <2>2, <2>3
<1>4. PayloadsAreSound'
  BY <1>1, <1>2, PayloadsFrame DEF Payloads, sandboxVars
<1>5. CertificatesHold'
  <2>0. ASSUME UNCHANGED faults PROVE Restored' = Restored /\ Steady' = Steady
    BY <2>0 DEF Restored, Steady
  <2>1. CASE Certify
    <3>0. Restored' = Restored /\ Steady' = Steady
      BY <2>0, <2>1 DEF Certify, captureVars
    <3>1. Rebuilds(Archives) => Rests(Certification(Archives), Restored, Steady)
      BY <2>1, RebuiltRests DEF Certify
    <3>2. CASE Rebuilds(Archives)
      BY <2>1, <3>0, <3>1, <3>2 DEF Certify, CertificatesHold
    <3>3. CASE ~Rebuilds(Archives)
      BY <2>1, <3>0, <3>3 DEF Certify, CertificatesHold
    <3>4. QED
      BY <3>2, <3>3
  <2>2. CASE WriteArtifact
    BY <2>0, <2>2 DEF WriteArtifact, CertificatesHold, captureVars
  <2>3. CASE WriteReport
    BY <2>0, <2>3 DEF WriteReport, CertificatesHold, captureVars
  <2>4. CASE Accept
    BY <2>0, <2>4 DEF Accept, CertificatesHold, captureVars
  <2>5. CASE CertifierIsKilled
    <3>1. certifier' = [certifier EXCEPT !.at = "idle"] /\ UNCHANGED release
      BY <2>5 DEF CertifierIsKilled
    <3>2. QED
      BY <1>2, <3>1, CertificatesFrame DEF CertificatesHold
  <2>6. QED
    BY <2>1, <2>2, <2>3, <2>4, <2>5 DEF CertificateStep
<1>6. QED
  BY <1>3, <1>4, <1>5

-------------------------------------------------------------------------------
(* The theorems                                                               *)

(* Every step keeps the invariant, and so does none.                          *)
LEMMA EveryStepHolds ==
    ASSUME Inv, [Next]_vars
    PROVE  Inv'
<1>1. CASE \E h \in Hosts : HostStep(h)
  BY <1>1, HostStepHolds
<1>2. CASE \E s \in Streams : DrainStep(s)
  BY <1>2, SandboxStepHolds DEF DrainStep, SandboxStep
<1>3. CASE ControllerStep \/ LaterStep \/ WorkerStep \/ Expires \/ Finalizes
  BY <1>3, SandboxStepHolds
  DEF ControllerStep, LaterStep, WorkerStep, Expires, Finalizes, SandboxStep
<1>4. CASE CertificateStep
  BY <1>4, CertificatesFollow
<1>5. CASE Faults
  BY <1>5, HostFaultsHold, SandboxStepHolds, CertificatesFollow DEF Faults,
    SandboxStep
<1>6. CASE UNCHANGED vars
  <2>1. UNCHANGED <<capture, checkout, disk, faults, sandboxVars, certificateVars>>
    BY <1>6 DEF vars, captureVars
  <2>2. CheckoutHolds' /\ Onward
    BY <2>1, NotedIsOnward DEF Inv, CheckoutHolds
  <2>3. ASSUME NEW h \in Hosts PROVE HostHolds(h)'
    <3>1. capture'[h].workspace = capture[h].workspace \/ disk'.archive[h] # <<>>
      BY <2>1
    <3>2. QED
      BY <2>1, <2>2, <3>1, HostFrame DEF Inv
  <2>4. SandboxHolds'
    BY <2>1, SandboxFrame DEF Inv
  <2>5. PayloadsAreSound' /\ CertificatesHold'
    BY <2>1, <2>2, PayloadsFrame, CertificatesFrame
    DEF Inv, Payloads, sandboxVars, certificateVars
  <2>6. QED
    BY <2>2, <2>3, <2>4, <2>5 DEF Inv
<1>7. QED
  BY <1>1, <1>2, <1>3, <1>4, <1>5, <1>6, Zenon DEF Next

(* The invariant of hosts, sandbox, payloads and certifications, for any      *)
(* number of faults of any of the kinds of D4Capture, D4Sandbox and           *)
(* D4Certificate, changes that are taken back again among them.               *)
THEOREM PipelineInvariant == Spec => []Inv
<1>1. Init => Inv
  BY Initially
<1>2. Inv /\ [Next]_vars => Inv'
  BY EveryStepHolds
<1>3. QED
  BY <1>1, <1>2, PTL DEF Spec

(* Whatever fails, in whichever order: a payload is on the disk, validated or *)
(* not, only when its worker ended well, its output was read to the end and   *)
(* its sandbox is terminated and detached (modal_d4.py:312-331, 953-986).     *)
THEOREM PayloadsWereReleased == Spec => []PayloadsComeFromReleasedSandboxes
<1>1. Inv => PayloadsComeFromReleasedSandboxes
  BY DEF Inv, SandboxHolds, KeptHolds, Kept, Released,
    PayloadsComeFromReleasedSandboxes
<1>2. QED
  BY <1>1, PipelineInvariant, PTL

(* A capture that was completed and released is on the disk or still in its   *)
(* workspace, through every failure of writing, validating and unlinking      *)
(* (modal_d4.py:1000-1015, d4_local.py:435-441).                              *)
THEOREM CapturesAreKept == Spec => []NoCaptureIsLost
<1>1. ASSUME Inv PROVE NoCaptureIsLost
  <2>1. OnModal /\ control.at = "ended" /\ ~control.failed =>
          disk.archive[VM] # <<>> \/ disk.unvalidated # <<>>
    BY <1>1 DEF Inv, SandboxHolds, KeptHolds
  <2>2. ASSUME NEW h \in Hosts, Provider[h] # "modal", Complete(h)
        PROVE  disk.archive[h] # <<>> \/ capture[h].workspace
    <3>1. WorkspaceHolds(h) /\ capture[h].at \in Nat
      BY <1>1 DEF Inv, HostHolds, HostShape
    <3>2. capture[h].at > 1
      BY <2>2, <3>1, PlanFacts DEF Complete
    <3>3. QED
      BY <2>2, <3>1, <3>2 DEF WorkspaceHolds
  <2>3. QED
    BY <2>1, <2>2 DEF NoCaptureIsLost
<1>2. QED
  BY <1>1, PipelineInvariant, PTL

(* A certification that was written names one source; every result was        *)
(* measured on the wheel its archive holds and the workload of that source,   *)
(* and it is releasable exactly when every process met its bounds.  The wheel *)
(* of the sandbox is of that source whatever was changed and changed back, a  *)
(* local one and what was measured undisturbed are as long as nothing was     *)
(* changed back (d4_evidence.py:247-278, 1437-1453; modal_d4.py:444-469).     *)
THEOREM CertificationsRest == Spec => []ReleasesRestOnBothCaptures
<1>1. ASSUME CertificatesHold PROVE ReleasesRestOnBothCaptures
  <2>1. ASSUME NEW artifact, Rests(artifact, Restored, Steady)
        PROVE  /\ \A h \in Hosts :
                    /\ artifact.captures[h].source = artifact.source
                    /\ Provider[h] = "modal" \/ ~Restored =>
                         artifact.captures[h].wheel = artifact.source
                    /\ \A t \in BudgetSet :
                         LET r == artifact.captures[h].results[t] IN
                         /\ r.wheel = artifact.captures[h].wheel
                         /\ r.workload = WorkloadOf[artifact.source]
                         /\ Steady => r.undisturbed
               /\ artifact.releasable <=>
                    \A h \in Hosts, t \in BudgetSet :
                      artifact.captures[h].results[t].speed = "met"
    BY <2>1 DEF Rests, RestsOn
  <2>2. QED
    BY <1>1, <2>1 DEF CertificatesHold, ReleasesRestOnBothCaptures
<1>2. QED
  BY <1>1, PipelineInvariant, PTL DEF Inv
================================================================================
