------------------------- MODULE PlanExecutionProofs -------------------------
(* Proofs about PlanExecution, for every number of images and videos, every   *)
(* layout and every destination.                                              *)
EXTENDS PlanExecution, TLAPS

(* A task owns a window of the caller's arrays that starts at its base, so    *)
(* that an index relative to the base is an index relative to the window.     *)
OwnsItsWindow(t) ==
    /\ t.lo < t.hi /\ t.hi <= Images
    /\ t.rowFrom = t.rowBase /\ t.gridFrom = t.gridBase
    /\ t.rowBase <= RowStart[t.lo] /\ RowStart[t.hi] <= t.rowTo
    /\ t.gridBase <= t.lo /\ t.hi <= t.gridTo
    /\ t.rowTo <= dest["pixel_values"].length
    /\ t.gridTo <= dest["image_grid_thw"].length
    /\ t.done <= Rows(t.lo)

Before(t, u) ==
    t.hi <= u.lo /\ t.rowTo <= u.rowFrom /\ t.gridTo <= u.gridFrom

(* The window and the images of s are part of those of t.                     *)
Inside(s, t) ==
    /\ t.lo <= s.lo /\ s.hi <= t.hi
    /\ t.rowFrom <= s.rowFrom /\ s.rowTo <= t.rowTo
    /\ t.gridFrom <= s.gridFrom /\ s.gridTo <= t.gridTo

WindowsAreOwned == \A t \in tasks : OwnsItsWindow(t)

WindowsAreApart == \A t, u \in tasks : t = u \/ Before(t, u) \/ Before(u, t)

SerialTasks ==
    ~Forks => /\ \A t, u \in tasks : t = u
              /\ \A t \in tasks : t.hi = t.lo + 1

(* What each stage of the call may rely on.                                   *)
Stages ==
    /\ pc # "images" => tasks = {}
    /\ groups # {} => pc = "videos" /\ video < Videos
    /\ pc \notin {"videos", "done"} => video = 0
    /\ pc \notin {"identity", "failed"} => identity
    /\ pc \in {"text", "images", "videos", "done"} =>
          \A o \in Outputs : Accepts(o)

Inv == TypeOK /\ WindowsAreOwned /\ WindowsAreApart /\ SerialTasks /\ Stages

-------------------------------------------------------------------------------
(* Layouts grow with the image index.                                         *)
LEMMA LayoutGrows ==
    /\ Images \in Nat
    /\ RowStart \in [0..Images -> Nat]
    /\ \A i, j \in 0..Images : i <= j => RowStart[i] <= RowStart[j]
BY ExecutionAssumption DEF IsLayout

(* The middle of a task of several images lies strictly inside it.            *)
LEMMA MiddleIsInside ==
    ASSUME NEW t \in Tasks, t.hi - t.lo > 1
    PROVE  Middle(t) \in Nat /\ t.lo < Middle(t) /\ Middle(t) < t.hi
BY DEF Tasks, Middle

(* The fields of a task are natural numbers.                                  *)
LEMMA TaskFields ==
    ASSUME NEW t \in Tasks
    PROVE  /\ t.lo \in Nat /\ t.hi \in Nat /\ t.done \in Nat
           /\ t.rowBase \in Nat /\ t.rowFrom \in Nat /\ t.rowTo \in Nat
           /\ t.gridBase \in Nat /\ t.gridFrom \in Nat /\ t.gridTo \in Nat
BY DEF Tasks

(* The halves of a split window are windows of their own, one before the      *)
(* other, inside the window that was split.                                   *)
LEMMA HalvesOwnTheirWindows ==
    ASSUME NEW t \in Tasks, t.hi - t.lo > 1, OwnsItsWindow(t),
           dest \in Destinations
    PROVE  /\ Left(t) \in Tasks /\ Right(t) \in Tasks
           /\ OwnsItsWindow(Left(t)) /\ OwnsItsWindow(Right(t))
           /\ Before(Left(t), Right(t))
           /\ Inside(Left(t), t) /\ Inside(Right(t), t)
<1>0. /\ t.lo \in Nat /\ t.hi \in Nat /\ t.done \in Nat
      /\ t.rowBase \in Nat /\ t.rowFrom \in Nat /\ t.rowTo \in Nat
      /\ t.gridBase \in Nat /\ t.gridFrom \in Nat /\ t.gridTo \in Nat
  BY TaskFields
<1>1. Middle(t) \in Nat /\ t.lo < Middle(t) /\ Middle(t) < t.hi
  BY MiddleIsInside
<1>2. /\ t.lo \in 0..Images /\ t.hi \in 0..Images
      /\ t.lo + 1 \in 0..Images /\ Middle(t) \in 0..Images
      /\ Middle(t) + 1 \in 0..Images
  <2>1. Images \in Nat /\ t.hi <= Images
    BY LayoutGrows DEF OwnsItsWindow
  <2>2. QED
    BY <1>0, <1>1, <2>1
<1>2a. /\ RowStart[t.lo] \in Nat /\ RowStart[t.hi] \in Nat
       /\ RowStart[Middle(t)] \in Nat /\ RowStart[Middle(t) + 1] \in Nat
       /\ RowStart[t.lo + 1] \in Nat
  BY <1>2, LayoutGrows
<1>2b. /\ RowStart[t.lo] <= RowStart[Middle(t)]
       /\ RowStart[Middle(t)] <= RowStart[t.hi]
       /\ RowStart[t.lo] <= RowStart[t.lo + 1]
       /\ RowStart[Middle(t)] <= RowStart[Middle(t) + 1]
  <2>1. /\ t.lo <= Middle(t) /\ Middle(t) <= t.hi
        /\ t.lo <= t.lo + 1 /\ Middle(t) <= Middle(t) + 1
    BY <1>1, <1>2
  <2>2. QED
    BY <1>2, <2>1, LayoutGrows
<1>3. /\ t.rowFrom + RowSplit(t) = RowStart[Middle(t)]
      /\ t.gridFrom + GridSplit(t) = Middle(t)
  BY <1>1, <1>2a, <1>0 DEF OwnsItsWindow, RowSplit, GridSplit
<1>4. Left(t) = Task(t.lo, Middle(t), t.rowBase, t.rowFrom,
                     RowStart[Middle(t)], t.gridBase, t.gridFrom, Middle(t))
  BY <1>3 DEF Left
<1>5. Right(t) = Task(Middle(t), t.hi, RowStart[Middle(t)],
                      RowStart[Middle(t)], t.rowTo, Middle(t), Middle(t),
                      t.gridTo)
  BY <1>3 DEF Right
<1>6a. Left(t) \in Tasks
  BY <1>0, <1>1, <1>2a, <1>4 DEF Tasks, Task
<1>6b. Right(t) \in Tasks
  BY <1>0, <1>1, <1>2a, <1>5 DEF Tasks, Task
<1>6c. /\ dest["pixel_values"].length \in Nat
       /\ dest["image_grid_thw"].length \in Nat
  BY DEF Destinations, Outputs
<1>7. 0 <= Rows(t.lo) /\ 0 <= Rows(Middle(t))
  BY <1>2a, <1>2b DEF Rows
<1>8. OwnsItsWindow(Left(t))
  <2>1. /\ Left(t).lo = t.lo /\ Left(t).hi = Middle(t)
        /\ Left(t).rowBase = t.rowBase /\ Left(t).rowFrom = t.rowFrom
        /\ Left(t).rowTo = RowStart[Middle(t)]
        /\ Left(t).gridBase = t.gridBase /\ Left(t).gridFrom = t.gridFrom
        /\ Left(t).gridTo = Middle(t) /\ Left(t).done = 0
    BY <1>4 DEF Task
  <2>2. Middle(t) <= Images
    BY <1>0, <1>1, <1>2
  <2>2a. t.gridBase <= Middle(t)
    BY <1>0, <1>1 DEF OwnsItsWindow
  <2>2b. RowStart[Middle(t)] <= dest["pixel_values"].length
    BY <1>0, <1>2a, <1>2b, <1>6c DEF OwnsItsWindow
  <2>2c. Middle(t) <= dest["image_grid_thw"].length
    BY <1>0, <1>1, <1>6c DEF OwnsItsWindow
  <2>3. QED
    BY <1>0, <1>1, <1>2a, <1>7, <2>1, <2>2, <2>2a, <2>2b, <2>2c
    DEF OwnsItsWindow
<1>9. OwnsItsWindow(Right(t))
  BY <1>0, <1>1, <1>2a, <1>2b, <1>5, <1>7 DEF OwnsItsWindow, Task
<1>10. Before(Left(t), Right(t))
  BY <1>1, <1>2a, <1>4, <1>5 DEF Before, Task
<1>11. Inside(Left(t), t)
  <2>1. /\ Left(t).lo = t.lo /\ Left(t).hi = Middle(t)
        /\ Left(t).rowFrom = t.rowFrom /\ Left(t).rowTo = RowStart[Middle(t)]
        /\ Left(t).gridFrom = t.gridFrom /\ Left(t).gridTo = Middle(t)
    BY <1>4 DEF Task
  <2>2. RowStart[Middle(t)] <= t.rowTo /\ Middle(t) <= t.gridTo
    BY <1>0, <1>1, <1>2a, <1>2b DEF OwnsItsWindow
  <2>3. QED
    BY <1>0, <1>1, <2>1, <2>2 DEF Inside
<1>12. Inside(Right(t), t)
  <2>1. /\ Right(t).lo = Middle(t) /\ Right(t).hi = t.hi
        /\ Right(t).rowFrom = RowStart[Middle(t)] /\ Right(t).rowTo = t.rowTo
        /\ Right(t).gridFrom = Middle(t) /\ Right(t).gridTo = t.gridTo
    BY <1>5 DEF Task
  <2>2. t.rowFrom <= RowStart[Middle(t)] /\ t.gridFrom <= Middle(t)
    BY <1>0, <1>1, <1>2a, <1>2b DEF OwnsItsWindow
  <2>3. QED
    BY <1>0, <1>1, <2>1, <2>2 DEF Inside
<1>13. QED
  BY <1>6a, <1>6b, <1>8, <1>9, <1>10, <1>11, <1>12

(* What lies inside a window stays apart from everything it was apart from.   *)
LEMMA InsideStaysApart ==
    ASSUME NEW s \in Tasks, NEW t \in Tasks, NEW u \in Tasks, Inside(s, t),
           Before(t, u) \/ Before(u, t)
    PROVE  Before(s, u) \/ Before(u, s)
<1>1. /\ s.lo \in Nat /\ s.hi \in Nat /\ s.rowFrom \in Nat /\ s.rowTo \in Nat
      /\ s.gridFrom \in Nat /\ s.gridTo \in Nat
  BY TaskFields
<1>2. /\ t.lo \in Nat /\ t.hi \in Nat /\ t.rowFrom \in Nat /\ t.rowTo \in Nat
      /\ t.gridFrom \in Nat /\ t.gridTo \in Nat
  BY TaskFields
<1>3. /\ u.lo \in Nat /\ u.hi \in Nat /\ u.rowFrom \in Nat /\ u.rowTo \in Nat
      /\ u.gridFrom \in Nat /\ u.gridTo \in Nat
  BY TaskFields
<1>4. QED
  BY <1>1, <1>2, <1>3 DEF Inside, Before

(* Replacing a task by tasks inside it that are apart keeps all tasks apart.  *)
LEMMA ReplacementStaysApart ==
    ASSUME tasks \subseteq Tasks, WindowsAreApart, NEW t \in tasks,
           NEW S \in SUBSET Tasks, \A s \in S : Inside(s, t),
           \A r, s \in S : r = s \/ Before(r, s) \/ Before(s, r),
           tasks' = (tasks \ {t}) \cup S
    PROVE  WindowsAreApart'
<1>1. SUFFICES ASSUME NEW r \in tasks', NEW s \in tasks'
               PROVE  r = s \/ Before(r, s) \/ Before(s, r)
  BY DEF WindowsAreApart, Before
<1>2. CASE r \in S /\ s \in S
  BY <1>2
<1>3. CASE r \in S /\ s \notin S
  <2>1. s \in tasks /\ (Before(t, s) \/ Before(s, t)) /\ Inside(r, t)
    BY <1>3 DEF WindowsAreApart
  <2>2. QED
    BY <1>3, <2>1, InsideStaysApart
<1>4. CASE r \notin S /\ s \in S
  <2>1. r \in tasks /\ (Before(t, r) \/ Before(r, t)) /\ Inside(s, t)
    BY <1>4 DEF WindowsAreApart
  <2>2. QED
    BY <1>4, <2>1, InsideStaysApart
<1>5. CASE r \notin S /\ s \notin S
  BY <1>5 DEF WindowsAreApart
<1>6. QED
  BY <1>2, <1>3, <1>4, <1>5

(* Accepted destinations hold every planned row and grid row.                 *)
LEMMA AcceptedDestinationsHoldThePlan ==
    ASSUME dest \in Destinations, \A o \in Outputs : Accepts(o), Images > 0
    PROVE  /\ RowStart[Images] <= dest["pixel_values"].length
           /\ Images <= dest["image_grid_thw"].length
<1>1. Accepts("pixel_values") /\ Accepts("image_grid_thw")
  BY DEF Outputs
<1>2. /\ Capacity("pixel_values") = Some(RowCount)
      /\ Capacity("image_grid_thw") = Some(Images)
  BY DEF Capacity, TextOutputs
<1>3. /\ dest["pixel_values"].length \in Nat
      /\ dest["image_grid_thw"].length \in Nat
      /\ RowStart[Images] \in Nat
  BY LayoutGrows DEF Destinations, Outputs
<1>4. /\ dest["pixel_values"].length >= RowCount
      /\ dest["image_grid_thw"].length >= Images
  <2>1. /\ Capacity("pixel_values").present = TRUE
        /\ Capacity("image_grid_thw").present = TRUE
    BY <1>2 DEF Some
  <2>2. /\ Capacity("pixel_values").length = RowCount
        /\ Capacity("image_grid_thw").length = Images
    BY <1>2 DEF Some
  <2>3. /\ dest["pixel_values"].present = TRUE
        /\ dest["image_grid_thw"].present = TRUE
    BY <1>1, <2>1 DEF Accepts
  <2>4. QED
    BY <1>1, <2>2, <2>3 DEF Accepts
<1>5. QED
  BY <1>3, <1>4, LayoutGrows DEF RowCount

(* A slice of the whole destination owns its window.                          *)
LEMMA WholeSliceOwnsItsWindow ==
    ASSUME dest \in Destinations, \A o \in Outputs : Accepts(o),
           NEW lo \in Nat, NEW hi \in Nat, lo < hi, hi <= Images
    PROVE  WholeSlice(lo, hi) \in Tasks /\ OwnsItsWindow(WholeSlice(lo, hi))
<1>1. /\ dest["pixel_values"].length \in Nat
      /\ dest["image_grid_thw"].length \in Nat
  BY DEF Destinations, Outputs
<1>2. /\ RowStart[Images] <= dest["pixel_values"].length
      /\ Images <= dest["image_grid_thw"].length
  BY LayoutGrows, AcceptedDestinationsHoldThePlan
<1>3. /\ lo \in 0..Images /\ hi \in 0..Images /\ lo + 1 \in 0..Images
      /\ Images \in 0..Images /\ lo <= lo + 1
  BY LayoutGrows
<1>4. /\ RowStart[lo] \in Nat /\ RowStart[hi] \in Nat
      /\ RowStart[lo + 1] \in Nat /\ RowStart[Images] \in Nat
      /\ RowStart[hi] <= RowStart[Images] /\ RowStart[lo] <= RowStart[lo + 1]
  BY <1>3, LayoutGrows
<1>5. WholeSlice(lo, hi) \in Tasks
  BY <1>1 DEF WholeSlice, Task, Tasks
<1>6. /\ WholeSlice(lo, hi).lo = lo /\ WholeSlice(lo, hi).hi = hi
      /\ WholeSlice(lo, hi).rowBase = 0 /\ WholeSlice(lo, hi).rowFrom = 0
      /\ WholeSlice(lo, hi).rowTo = dest["pixel_values"].length
      /\ WholeSlice(lo, hi).gridBase = 0 /\ WholeSlice(lo, hi).gridFrom = 0
      /\ WholeSlice(lo, hi).gridTo = dest["image_grid_thw"].length
      /\ WholeSlice(lo, hi).done = 0
  BY DEF WholeSlice, Task
<1>7. /\ RowStart[hi] <= dest["pixel_values"].length
      /\ hi <= dest["image_grid_thw"].length /\ 0 <= Rows(lo)
  BY <1>1, <1>2, <1>3, <1>4, LayoutGrows DEF Rows
<1>8. OwnsItsWindow(WholeSlice(lo, hi))
  BY <1>1, <1>4, <1>6, <1>7 DEF OwnsItsWindow
<1>9. QED
  BY <1>5, <1>8

-------------------------------------------------------------------------------
(* The windows of the tasks depend on the tasks and the destinations only.    *)
LEMMA TasksUnchanged ==
    ASSUME WindowsAreOwned, WindowsAreApart, SerialTasks,
           UNCHANGED <<tasks, dest>>
    PROVE  WindowsAreOwned' /\ WindowsAreApart' /\ SerialTasks'
BY DEF WindowsAreOwned, OwnsItsWindow, WindowsAreApart, SerialTasks

(* No task is there yet, and nothing is written.                              *)
LEMMA InvHoldsInitially == Init => Inv
<1>1. SUFFICES ASSUME Init PROVE Inv
  OBVIOUS
<1>2. TypeOK
  <2>1. dest \in Destinations
    BY <1>1, ExecutionAssumption DEF Init
  <2>2. video \in 0..Videos
    BY <1>1, ExecutionAssumption DEF Init, IsLayout
  <2>3. QED
    BY <1>1, <2>1, <2>2 DEF Init, TypeOK
<1>3. WindowsAreOwned /\ WindowsAreApart /\ SerialTasks /\ Stages
  BY <1>1 DEF Init, WindowsAreOwned, WindowsAreApart, SerialTasks, Stages
<1>4. QED
  BY <1>2, <1>3 DEF Inv

(* Steps before and after the image stage leave the tasks alone.              *)
LEMMA InvThroughChecks ==
    ASSUME Inv, CheckIdentity \/ CheckDestinations \/ Return \/ UNCHANGED vars
    PROVE  Inv'
<1>1. UNCHANGED <<identity, dest, text, pixels, grids, tasks, video, groups,
                  videoPixels, videoGrids>>
  BY DEF CheckIdentity, CheckDestinations, Return, vars
<1>2. pc' \in {"identity", "destinations", "text", "images", "videos", "done",
               "failed"}
  BY DEF CheckIdentity, CheckDestinations, Return, vars, Inv, TypeOK
<1>3. TypeOK'
  BY <1>1, <1>2 DEF Inv, TypeOK, Cells
<1>4. WindowsAreOwned' /\ WindowsAreApart' /\ SerialTasks'
  BY <1>1, TasksUnchanged DEF Inv
<1>5. Stages'
  <2>1. CASE CheckIdentity
    BY <2>1 DEF CheckIdentity, Inv, Stages
  <2>2. CASE CheckDestinations
    BY <2>2 DEF CheckDestinations, Inv, Stages, Accepts
  <2>3. CASE Return
    <3>1. groups = {}
      BY <2>3, ExecutionAssumption DEF Return, Inv, Stages, IsLayout
    <3>2. QED
      BY <2>3, <3>1 DEF Return, Inv, Stages, Accepts
  <2>4. CASE UNCHANGED vars
    BY <2>4 DEF vars, Inv, Stages, Accepts
  <2>5. QED
    BY <2>1, <2>2, <2>3, <2>4
<1>6. QED
  BY <1>3, <1>4, <1>5 DEF Inv

(* Writing the text starts the first tasks, whose windows part the rows.      *)
LEMMA InvThroughText ==
    ASSUME Inv, WriteText
    PROVE  Inv'
<1>1. /\ dest \in Destinations /\ dest' = dest /\ tasks' = FirstTasks
      /\ \A o \in Outputs : Accepts(o)
  BY DEF Inv, TypeOK, Stages, WriteText
<1>2. \A t \in FirstTasks : t \in Tasks /\ OwnsItsWindow(t)
  <2>1. CASE Images = 0
    BY <2>1 DEF FirstTasks
  <2>2. CASE Images # 0 /\ Forks
    BY <1>1, <2>2, LayoutGrows, WholeSliceOwnsItsWindow DEF FirstTasks
  <2>3. CASE Images # 0 /\ ~Forks
    <3>1. 0 \in Nat /\ 1 \in Nat /\ 0 < 1 /\ 1 <= Images
      BY <2>3, LayoutGrows
    <3>2. WholeSlice(0, 1) \in Tasks /\ OwnsItsWindow(WholeSlice(0, 1))
      BY <1>1, <3>1, WholeSliceOwnsItsWindow
    <3>3. QED
      BY <2>3, <3>2 DEF FirstTasks
  <2>4. QED
    BY <2>1, <2>2, <2>3
<1>3. TypeOK'
  <2>1. \A o \in TextOutputs : text'[o] \in [Cells(o) -> {Stale, 0}]
    BY DEF WriteText, Inv, TypeOK
  <2>2. QED
    BY <1>1, <1>2, <2>1 DEF WriteText, Inv, TypeOK, Cells
<1>4. WindowsAreOwned'
  BY <1>1, <1>2 DEF WindowsAreOwned, OwnsItsWindow
<1>5. WindowsAreApart'
  BY <1>1 DEF WindowsAreApart, FirstTasks
<1>6. SerialTasks'
  <2>1. ASSUME ~Forks, NEW t \in FirstTasks PROVE t.hi = t.lo + 1
    BY <2>1 DEF FirstTasks, WholeSlice, Task
  <2>2. QED
    BY <1>1, <2>1 DEF SerialTasks, FirstTasks
<1>7. Stages'
  BY <1>1 DEF WriteText, Inv, Stages, Accepts
<1>8. QED
  BY <1>3, <1>4, <1>5, <1>6, <1>7 DEF Inv

(* The halves of a task share out its window.                                 *)
LEMMA InvThroughFork ==
    ASSUME Inv, NEW t \in tasks, Fork(t)
    PROVE  Inv'
<1>1. /\ t \in Tasks /\ OwnsItsWindow(t) /\ dest \in Destinations
      /\ t.hi - t.lo > 1 /\ dest' = dest /\ tasks \subseteq Tasks
      /\ tasks' = (tasks \ {t}) \cup {Left(t), Right(t)}
  BY DEF Inv, TypeOK, WindowsAreOwned, Fork
<1>2. /\ Left(t) \in Tasks /\ Right(t) \in Tasks
      /\ OwnsItsWindow(Left(t)) /\ OwnsItsWindow(Right(t))
      /\ Before(Left(t), Right(t))
      /\ Inside(Left(t), t) /\ Inside(Right(t), t)
  BY <1>1, HalvesOwnTheirWindows
<1>3. TypeOK'
  BY <1>1, <1>2 DEF Fork, Inv, TypeOK, Cells
<1>4. WindowsAreOwned'
  BY <1>1, <1>2 DEF Inv, WindowsAreOwned, OwnsItsWindow
<1>5. WindowsAreApart'
  <2>1. {Left(t), Right(t)} \in SUBSET Tasks
    BY <1>2
  <2>2. WindowsAreApart
    BY DEF Inv
  <2>3. QED
    BY <1>1, <1>2, <2>1, <2>2, ReplacementStaysApart
<1>6. SerialTasks'
  <2>1. t.lo \in Nat /\ t.hi \in Nat
    BY <1>1, TaskFields
  <2>2. Forks
    BY <1>1, <2>1 DEF Inv, SerialTasks
  <2>3. QED
    BY <2>2 DEF SerialTasks, Forks
<1>7. Stages'
  BY <1>1 DEF Fork, Inv, Stages, Accepts
<1>8. QED
  BY <1>3, <1>4, <1>5, <1>6, <1>7 DEF Inv

(* A row is written in the window of its task and in no other.                *)
LEMMA InvThroughRow ==
    ASSUME Inv, NEW t \in tasks, WriteRow(t)
    PROVE  Inv'
<1> DEFINE s == [t EXCEPT !.done = @ + 1]
<1>1. /\ t \in Tasks /\ OwnsItsWindow(t) /\ dest' = dest
      /\ t.done < Rows(t.lo) /\ tasks \subseteq Tasks
      /\ tasks' = (tasks \ {t}) \cup {s}
  BY DEF Inv, TypeOK, WindowsAreOwned, WriteRow
<1>2. /\ t.lo \in Nat /\ t.hi \in Nat /\ t.done \in Nat
      /\ t.rowBase \in Nat /\ t.rowFrom \in Nat /\ t.rowTo \in Nat
      /\ t.gridBase \in Nat /\ t.gridFrom \in Nat /\ t.gridTo \in Nat
  BY <1>1, TaskFields
<1>3. s \in Tasks
  BY <1>1 DEF Tasks
<1>4. /\ s.lo = t.lo /\ s.hi = t.hi /\ s.done = t.done + 1
      /\ s.rowBase = t.rowBase /\ s.rowFrom = t.rowFrom /\ s.rowTo = t.rowTo
      /\ s.gridBase = t.gridBase /\ s.gridFrom = t.gridFrom
      /\ s.gridTo = t.gridTo
  BY <1>1 DEF Tasks
<1>5. Images \in Nat /\ t.lo \in 0..(Images - 1)
  BY <1>1, <1>2, LayoutGrows DEF OwnsItsWindow
<1>6. OwnsItsWindow(s)
  <2>1. t.lo \in 0..Images /\ t.lo + 1 \in 0..Images
    BY <1>5
  <2>2. Rows(t.lo) \in Int
    BY <2>1, LayoutGrows DEF Rows
  <2>3. t.done + 1 <= Rows(t.lo)
    BY <1>1, <1>2, <2>2
  <2>4. QED
    BY <1>1, <1>4, <2>3 DEF OwnsItsWindow
<1>7. TypeOK'
  <2>1. pixels' \in [Cells("pixel_values") -> {Stale} \cup 0..(Images - 1)]
    BY <1>5 DEF WriteRow, Inv, TypeOK
  <2>2. tasks' \subseteq Tasks
    BY <1>1, <1>3
  <2>3. QED
    BY <1>1, <2>1, <2>2 DEF WriteRow, Inv, TypeOK, Cells
<1>8. WindowsAreOwned'
  BY <1>1, <1>6 DEF Inv, WindowsAreOwned, OwnsItsWindow
<1>9. WindowsAreApart'
  <2>1. Inside(s, t)
    BY <1>2, <1>4 DEF Inside
  <2>2. {s} \in SUBSET Tasks /\ WindowsAreApart
    BY <1>3 DEF Inv
  <2>3. QED
    BY <1>1, <2>1, <2>2, ReplacementStaysApart
<1>10. SerialTasks'
  BY <1>1, <1>4 DEF Inv, SerialTasks, Forks
<1>11. Stages'
  BY <1>1 DEF WriteRow, Inv, Stages, Accepts
<1>12. QED
  BY <1>7, <1>8, <1>9, <1>10, <1>11 DEF Inv

(* So is a row of the grid.                                                   *)
LEMMA InvThroughGrid ==
    ASSUME Inv, NEW t \in tasks, WriteGrid(t)
    PROVE  Inv'
<1>1. /\ t \in Tasks /\ OwnsItsWindow(t) /\ dest \in Destinations
      /\ dest' = dest /\ tasks \subseteq Tasks /\ pc = "images"
      /\ \A o \in Outputs : Accepts(o)
      /\ tasks' = (tasks \ {t}) \cup Successors(t)
  BY DEF Inv, TypeOK, WindowsAreOwned, Stages, WriteGrid
<1>2. t.lo \in Nat /\ t.hi \in Nat
  BY <1>1, TaskFields
<1>3. Images \in Nat /\ t.lo \in 0..(Images - 1)
  BY <1>1, <1>2, LayoutGrows DEF OwnsItsWindow
<1>4. \A u \in Successors(t) : u \in Tasks /\ OwnsItsWindow(u)
  <2>1. CASE ~Forks /\ t.hi < Images
    <3>1. t.hi + 1 \in Nat /\ t.hi < t.hi + 1 /\ t.hi + 1 <= Images
      BY <1>2, <1>3, <2>1
    <3>2. /\ WholeSlice(t.hi, t.hi + 1) \in Tasks
          /\ OwnsItsWindow(WholeSlice(t.hi, t.hi + 1))
      BY <1>1, <1>2, <3>1, WholeSliceOwnsItsWindow
    <3>3. QED
      BY <2>1, <3>2 DEF Successors
  <2>2. CASE ~(~Forks /\ t.hi < Images)
    BY <2>2 DEF Successors
  <2>3. QED
    BY <2>1, <2>2
<1>5. TypeOK'
  <2>1. grids' \in [Cells("image_grid_thw") -> {Stale} \cup 0..(Images - 1)]
    BY <1>3 DEF WriteGrid, Inv, TypeOK
  <2>2. tasks' \subseteq Tasks
    BY <1>1, <1>4
  <2>3. QED
    BY <1>1, <2>1, <2>2 DEF WriteGrid, Inv, TypeOK, Cells
<1>6. WindowsAreOwned'
  BY <1>1, <1>4 DEF Inv, WindowsAreOwned, OwnsItsWindow
<1>7. WindowsAreApart' /\ SerialTasks'
  <2>1. CASE Forks
    BY <1>1, <2>1
    DEF Inv, WindowsAreApart, SerialTasks, Successors, Before, Forks
  <2>2. CASE ~Forks
    <3>1. tasks' = Successors(t)
      BY <1>1, <2>2 DEF Inv, SerialTasks
    <3>2. \A u \in Successors(t) : u.hi = u.lo + 1
      BY DEF Successors, WholeSlice, Task
    <3>3. QED
      BY <2>2, <3>1, <3>2 DEF WindowsAreApart, SerialTasks, Successors
  <2>3. QED
    BY <2>1, <2>2
<1>8. Stages'
  BY <1>1 DEF WriteGrid, Inv, Stages, Accepts
<1>9. QED
  BY <1>5, <1>6, <1>7, <1>8 DEF Inv

(* The temporal groups of a video are among the planned ones.                 *)
LEMMA GroupsArePlanned ==
    ASSUME NEW v \in Nat
    PROVE  GroupsFrom(v) \subseteq 0..(VideoRowCount - 1)
<1>1. CASE v < Videos
  <2>1. /\ v \in 0..Videos /\ v + 1 \in 0..Videos /\ Videos \in 0..Videos
        /\ v + 1 <= Videos
    BY <1>1, ExecutionAssumption DEF IsLayout
  <2>2. /\ VideoRowStart[v] \in Nat /\ VideoRowStart[v + 1] \in Nat
        /\ VideoRowStart[Videos] \in Nat
        /\ VideoRowStart[v + 1] <= VideoRowStart[Videos]
    BY <2>1, ExecutionAssumption DEF IsLayout
  <2>3. QED
    BY <1>1, <2>2 DEF GroupsFrom, GroupsOf, VideoRowCount
<1>2. CASE ~(v < Videos)
  BY <1>2 DEF GroupsFrom
<1>3. QED
  BY <1>1, <1>2

(* The videos come after the join, when no task is left.                      *)
LEMMA InvThroughVideos ==
    ASSUME Inv, JoinImages \/ (\E g \in groups : WriteGroup(g)) \/ WriteVideoGrid
    PROVE  Inv'
<1>1. UNCHANGED <<identity, dest, text, pixels, grids, tasks>>
  BY DEF JoinImages, WriteGroup, WriteVideoGrid
<1>2. WindowsAreOwned' /\ WindowsAreApart' /\ SerialTasks'
  BY <1>1, TasksUnchanged DEF Inv
<1>3. Videos \in Nat /\ video \in 0..Videos
  BY ExecutionAssumption DEF Inv, TypeOK, IsLayout
<1>4. CASE JoinImages
  <2>1. groups' \subseteq 0..(VideoRowCount - 1)
    BY <1>4, GroupsArePlanned DEF JoinImages
  <2>2. TypeOK'
    BY <1>1, <1>4, <2>1 DEF JoinImages, Inv, TypeOK, Cells
  <2>3. video = 0
    BY <1>4 DEF JoinImages, Inv, Stages
  <2>4. Stages'
    BY <1>4, <2>3 DEF JoinImages, ImagesJoined, Inv, Stages, Accepts, GroupsFrom
  <2>5. QED
    BY <1>2, <2>2, <2>4 DEF Inv
<1>5. ASSUME NEW g \in groups, WriteGroup(g) PROVE Inv'
  <2>1. video < Videos /\ pc = "videos"
    BY <1>5 DEF Inv, Stages
  <2>2. videoPixels' \in
          [Cells("pixel_values_videos") -> {Stale} \cup 0..(Videos - 1)]
    <3>1. video \in {Stale} \cup 0..(Videos - 1)
      BY <1>3, <2>1
    <3>2. QED
      BY <1>5, <3>1 DEF WriteGroup, Inv, TypeOK
  <2>3. TypeOK'
    BY <1>1, <1>5, <2>2 DEF WriteGroup, Inv, TypeOK, Cells
  <2>4. Stages'
    BY <1>5, <2>1 DEF WriteGroup, Inv, Stages, Accepts
  <2>5. QED
    BY <1>2, <2>3, <2>4 DEF Inv
<1>6. CASE WriteVideoGrid
  <2>1. video < Videos /\ pc = "videos"
    BY <1>6 DEF WriteVideoGrid
  <2>2. videoGrids' \in
          [Cells("video_grid_thw") -> {Stale} \cup 0..(Videos - 1)]
    <3>1. video \in {Stale} \cup 0..(Videos - 1)
      BY <1>3, <2>1
    <3>2. QED
      BY <1>6, <3>1 DEF WriteVideoGrid, Inv, TypeOK
  <2>3. video' \in 0..Videos /\ groups' \subseteq 0..(VideoRowCount - 1)
    BY <1>3, <1>6, <2>1, GroupsArePlanned DEF WriteVideoGrid
  <2>4. TypeOK'
    BY <1>1, <1>6, <2>2, <2>3 DEF WriteVideoGrid, Inv, TypeOK, Cells
  <2>5. Stages'
    BY <1>6, <2>1 DEF WriteVideoGrid, Inv, Stages, Accepts, GroupsFrom
  <2>6. QED
    BY <1>2, <2>4, <2>5 DEF Inv
<1>7. QED
  BY <1>4, <1>5, <1>6

(* No step lets two tasks write to one place.                                 *)
LEMMA InvIsInductive == Inv /\ [Next]_vars => Inv'
<1>1. SUFFICES ASSUME Inv, [Next]_vars PROVE Inv'
  OBVIOUS
<1>2. CASE WriteText
  BY <1>1, <1>2, InvThroughText
<1>3. CASE \E t \in tasks : Fork(t) \/ WriteRow(t) \/ WriteGrid(t)
  BY <1>1, <1>3, InvThroughFork, InvThroughRow, InvThroughGrid
<1>4. CASE JoinImages \/ (\E g \in groups : WriteGroup(g)) \/ WriteVideoGrid
  BY <1>1, <1>4, InvThroughVideos
<1>5. CASE CheckIdentity \/ CheckDestinations \/ Return \/ UNCHANGED vars
  BY <1>1, <1>5, InvThroughChecks
<1>6. QED
  BY <1>1, <1>2, <1>3, <1>4, <1>5 DEF Next, Step, Finished

(* So the windows are owned and apart in every state.                         *)
LEMMA InvAlways == Spec => []Inv
<1>1. Init => Inv
  BY InvHoldsInitially
<1>2. Inv /\ [Next]_vars => Inv'
  BY InvIsInductive
<1>3. QED
  BY <1>1, <1>2, PTL DEF Spec

-------------------------------------------------------------------------------
(* Every variable keeps its type: the destinations keep their lengths, and a  *)
(* cell only ever holds a planned occurrence or what it held before.          *)
THEOREM TypeCorrect == Spec => []TypeOK
<1>1. Inv => TypeOK
  BY DEF Inv
<1>2. QED
  BY <1>1, InvAlways, PTL

(* No index arithmetic of the writers leaves its slice, so nothing after the  *)
(* validation of the destinations can fail.                                   *)
THEOREM WritesCannotFail == Spec => []SlicesHoldTheirImages
<1>1. Inv => SlicesHoldTheirImages
  <2>1. SUFFICES ASSUME Inv, NEW t \in tasks
                 PROVE  /\ t.lo < t.hi /\ t.hi <= Images
                        /\ t.rowBase <= RowStart[t.lo] /\ t.gridBase <= t.lo
                        /\ t.rowFrom + (RowStart[t.hi] - t.rowBase) <= t.rowTo
                        /\ t.gridFrom + (t.hi - t.gridBase) <= t.gridTo
                        /\ t.rowTo <= dest["pixel_values"].length
                        /\ t.gridTo <= dest["image_grid_thw"].length
                        /\ t.done <= Rows(t.lo)
    BY DEF SlicesHoldTheirImages
  <2>2. t \in Tasks /\ OwnsItsWindow(t)
    BY <2>1 DEF Inv, TypeOK, WindowsAreOwned
  <2>3. /\ t.lo \in Nat /\ t.hi \in Nat
        /\ t.rowBase \in Nat /\ t.rowFrom \in Nat /\ t.rowTo \in Nat
        /\ t.gridBase \in Nat /\ t.gridFrom \in Nat /\ t.gridTo \in Nat
    BY <2>2, TaskFields
  <2>4. RowStart[t.hi] \in Nat
    BY <2>2, <2>3, LayoutGrows DEF OwnsItsWindow
  <2>5. QED
    BY <2>2, <2>3, <2>4 DEF OwnsItsWindow
<1>2. QED
  BY <1>1, InvAlways, PTL

(* Forked writers own disjoint windows, and each writes its own image's rows. *)
THEOREM WritersAreApart == Spec => []WritersNeverShareCells
<1>1. Inv => WritersNeverShareCells
  <2>1. SUFFICES ASSUME Inv PROVE WritersNeverShareCells
    OBVIOUS
  <2>2. ASSUME NEW t \in tasks, NEW u \in tasks, t # u
        PROVE  /\ t.rowTo <= u.rowFrom \/ u.rowTo <= t.rowFrom
               /\ t.gridTo <= u.gridFrom \/ u.gridTo <= t.gridFrom
    BY <2>1, <2>2 DEF Inv, WindowsAreApart, Before
  <2>3. ASSUME NEW t \in tasks
        PROVE  NextCell(t) = RowStart[t.lo] + t.done /\ GridCell(t) = t.lo
    <3>1. t \in Tasks /\ OwnsItsWindow(t)
      BY <2>1 DEF Inv, TypeOK, WindowsAreOwned
    <3>2. /\ t.lo \in Nat /\ t.hi \in Nat /\ t.done \in Nat
          /\ t.rowBase \in Nat /\ t.rowFrom \in Nat
          /\ t.gridBase \in Nat /\ t.gridFrom \in Nat
      BY <3>1, TaskFields
    <3>3. RowStart[t.lo] \in Nat
      BY <3>1, <3>2, LayoutGrows DEF OwnsItsWindow
    <3>4. QED
      BY <3>1, <3>2, <3>3 DEF OwnsItsWindow, NextCell, GridCell
  <2>4. QED
    BY <2>2, <2>3 DEF WritersNeverShareCells
<1>2. QED
  BY <1>1, InvAlways, PTL

-------------------------------------------------------------------------------
(* Until a call writes its text nothing is written, and a refused call is     *)
(* never past that point.                                                     *)
Fresh ==
    /\ \A o \in TextOutputs : \A c \in Cells(o) : text[o][c] = Stale
    /\ \A c \in Cells("pixel_values") : pixels[c] = Stale
    /\ \A c \in Cells("image_grid_thw") : grids[c] = Stale
    /\ \A c \in Cells("pixel_values_videos") : videoPixels[c] = Stale
    /\ \A c \in Cells("video_grid_thw") : videoGrids[c] = Stale

FreshUntilText ==
    pc \in {"identity", "destinations", "failed", "text"} => Fresh

(* A call that has not reached its text has touched no destination.           *)
LEMMA FreshUntilTextAlways == Spec => []FreshUntilText
<1>1. Init => FreshUntilText
  BY DEF Init, FreshUntilText, Fresh
<1>2. FreshUntilText /\ [Next]_vars => FreshUntilText'
  <2>1. SUFFICES ASSUME FreshUntilText, [Next]_vars PROVE FreshUntilText'
    OBVIOUS
  <2>2. CASE CheckIdentity \/ CheckDestinations \/ Return \/ UNCHANGED vars
    BY <2>1, <2>2 DEF CheckIdentity, CheckDestinations, Return, vars,
       FreshUntilText, Fresh, Cells
  <2>3. CASE WriteText \/ JoinImages
    BY <2>3 DEF WriteText, JoinImages, FreshUntilText
  <2>4. CASE \E t \in tasks : Fork(t) \/ WriteRow(t) \/ WriteGrid(t)
    BY <2>4 DEF Fork, WriteRow, WriteGrid, FreshUntilText
  <2>5. CASE (\E g \in groups : WriteGroup(g)) \/ WriteVideoGrid
    BY <2>5 DEF WriteGroup, WriteVideoGrid, FreshUntilText
  <2>6. QED
    BY <2>1, <2>2, <2>3, <2>4, <2>5 DEF Next, Step, Finished
<1>3. QED
  BY <1>1, <1>2, PTL DEF Spec

(* A call that fails has touched none of the seven destinations.              *)
THEOREM RefusalIsClean == Spec => []RefusedCallsWriteNothing
<1>1. FreshUntilText => RefusedCallsWriteNothing
  BY DEF FreshUntilText, Fresh, RefusedCallsWriteNothing
<1>2. QED
  BY <1>1, FreshUntilTextAlways, PTL

-------------------------------------------------------------------------------
(* Images a task has yet to finish, and images that are complete.             *)
RowsOfImage(i) == RowStart[i]..(RowStart[i + 1] - 1)

Covered(i) == \E t \in tasks : t.lo <= i /\ (i < t.hi \/ ~Forks)

Written(i) ==
    (\A c \in RowsOfImage(i) : pixels[c] = i) /\ grids[i] = i

RowsDone(t) == RowStart[t.lo]..(RowStart[t.lo] + t.done - 1)

ImagesAreCoveredOrWritten ==
    pc \in {"images", "videos", "done"} =>
        \A i \in 0..(Images - 1) : Covered(i) \/ Written(i)

WritersKeepTheirRows ==
    \A t \in tasks : t.hi - t.lo = 1 => \A c \in RowsDone(t) : pixels[c] = t.lo

SurplusIsStale ==
    /\ \A c \in Cells("pixel_values") : c >= RowCount => pixels[c] = Stale
    /\ \A c \in Cells("image_grid_thw") : c >= Images => grids[c] = Stale

Progress == ImagesAreCoveredOrWritten /\ WritersKeepTheirRows /\ SurplusIsStale

(* The rows of an image are cells of the output that no other image has.      *)
LEMMA RowsOfImagesAreApart ==
    ASSUME NEW i \in 0..(Images - 1), NEW j \in 0..(Images - 1), i # j,
           NEW c \in RowsOfImage(i)
    PROVE  c \notin RowsOfImage(j) /\ c \in Nat /\ c < RowCount
<1>1. /\ Images \in Nat /\ i \in 0..Images /\ j \in 0..Images
      /\ i + 1 \in 0..Images /\ j + 1 \in 0..Images /\ Images \in 0..Images
      /\ i + 1 <= Images
  BY LayoutGrows
<1>2. /\ RowStart[i] \in Nat /\ RowStart[j] \in Nat /\ RowStart[i + 1] \in Nat
      /\ RowStart[j + 1] \in Nat /\ RowStart[Images] \in Nat
      /\ RowStart[i + 1] <= RowStart[Images]
  BY <1>1, LayoutGrows
<1>3. i + 1 <= j \/ j + 1 <= i
  BY <1>1
<1>4. RowStart[i + 1] <= RowStart[j] \/ RowStart[j + 1] <= RowStart[i]
  BY <1>1, <1>3, LayoutGrows
<1>5. QED
  BY <1>2, <1>4 DEF RowsOfImage, RowCount

(* A one-image task writes a cell that exists and belongs to its image.       *)
LEMMA NextCellIsOwn ==
    ASSUME Inv, NEW t \in tasks, t.hi - t.lo = 1
    PROVE  /\ t.lo \in 0..(Images - 1) /\ t.hi = t.lo + 1
           /\ t.done \in Nat /\ RowStart[t.lo] \in Nat
           /\ RowStart[t.lo + 1] \in Nat
           /\ NextCell(t) = RowStart[t.lo] + t.done
           /\ GridCell(t) = t.lo /\ t.lo \in Cells("image_grid_thw")
           /\ RowsOfImage(t.lo) \subseteq Cells("pixel_values")
           /\ t.done < Rows(t.lo) => NextCell(t) \in RowsOfImage(t.lo)
<1>1. t \in Tasks /\ OwnsItsWindow(t) /\ dest \in Destinations
  BY DEF Inv, TypeOK, WindowsAreOwned
<1>2. /\ t.lo \in Nat /\ t.hi \in Nat /\ t.done \in Nat
      /\ t.rowBase \in Nat /\ t.rowFrom \in Nat /\ t.rowTo \in Nat
      /\ t.gridBase \in Nat /\ t.gridFrom \in Nat /\ t.gridTo \in Nat
  BY <1>1, TaskFields
<1>3. t.lo \in 0..(Images - 1) /\ t.hi = t.lo + 1
  BY <1>1, <1>2, LayoutGrows DEF OwnsItsWindow
<1>4. /\ RowStart[t.lo] \in Nat /\ RowStart[t.lo + 1] \in Nat
  BY <1>3, LayoutGrows
<1>5. /\ dest["pixel_values"].length \in Nat
      /\ dest["image_grid_thw"].length \in Nat
  BY <1>1 DEF Destinations, Outputs
<1>6. /\ RowStart[t.lo + 1] <= dest["pixel_values"].length
      /\ t.lo < dest["image_grid_thw"].length
  BY <1>1, <1>2, <1>3, <1>4, <1>5 DEF OwnsItsWindow
<1>7. NextCell(t) = RowStart[t.lo] + t.done /\ GridCell(t) = t.lo
  BY <1>1, <1>2, <1>4 DEF OwnsItsWindow, NextCell, GridCell
<1>8. RowsOfImage(t.lo) \subseteq Cells("pixel_values")
  BY <1>4, <1>5, <1>6 DEF RowsOfImage, Cells
<1>9. t.lo \in Cells("image_grid_thw")
  BY <1>2, <1>5, <1>6 DEF Cells
<1>10. ASSUME t.done < Rows(t.lo) PROVE NextCell(t) \in RowsOfImage(t.lo)
  BY <1>2, <1>4, <1>7, <1>10 DEF RowsOfImage, Rows
<1>11. QED
  BY <1>2, <1>3, <1>4, <1>7, <1>8, <1>9, <1>10

(* The root of the fork, or the first of the serial loop, covers all images.  *)
LEMMA FirstTasksCover ==
    ASSUME Inv, WriteText
    PROVE  \A i \in 0..(Images - 1) : Covered(i)'
<1>1. SUFFICES ASSUME NEW i \in 0..(Images - 1) PROVE Covered(i)'
  OBVIOUS
<1>2. Images \in Nat /\ Images > 0 /\ tasks' = FirstTasks /\ Forks' = Forks
  BY <1>1, LayoutGrows DEF WriteText, Forks
<1>3. CASE Forks
  <2>1. WholeSlice(0, Images) \in tasks'
    BY <1>2, <1>3 DEF FirstTasks
  <2>2. WholeSlice(0, Images).lo = 0 /\ WholeSlice(0, Images).hi = Images
    BY DEF WholeSlice, Task
  <2>3. QED
    BY <1>1, <1>2, <2>1, <2>2 DEF Covered
<1>4. CASE ~Forks
  <2>1. WholeSlice(0, 1) \in tasks'
    BY <1>2, <1>4 DEF FirstTasks
  <2>2. WholeSlice(0, 1).lo = 0
    BY DEF WholeSlice, Task
  <2>3. QED
    BY <1>1, <1>2, <1>4, <2>1, <2>2 DEF Covered
<1>5. QED
  BY <1>3, <1>4

(* A fork leaves every image of the task to one of its halves.                *)
LEMMA HalvesCover ==
    ASSUME Inv, NEW t \in tasks, Fork(t), NEW i \in Nat, Covered(i)
    PROVE  Covered(i)'
<1>1. t \in Tasks /\ t.lo \in Nat /\ t.hi \in Nat /\ t.hi - t.lo > 1
      /\ Forks' = Forks
  BY TaskFields DEF Inv, TypeOK, Fork, Forks
<1>2. Middle(t) \in Nat
  BY <1>1, MiddleIsInside
<1>3. /\ Left(t) \in tasks' /\ Left(t).lo = t.lo /\ Left(t).hi = Middle(t)
      /\ Right(t) \in tasks' /\ Right(t).lo = Middle(t) /\ Right(t).hi = t.hi
  BY DEF Fork, Left, Right, Task
<1>4. PICK u \in tasks : u.lo <= i /\ (i < u.hi \/ ~Forks)
  BY DEF Covered
<1>5. CASE u # t
  <2>1. u \in tasks'
    BY <1>5 DEF Fork
  <2>2. QED
    BY <1>1, <1>4, <2>1 DEF Covered
<1>6. CASE u = t
  <2>1. CASE i < Middle(t) \/ ~Forks
    BY <1>1, <1>3, <1>4, <1>6, <2>1 DEF Covered
  <2>2. CASE ~(i < Middle(t)) /\ Forks
    <3>1. Middle(t) <= i /\ i < t.hi
      BY <1>1, <1>2, <1>4, <1>6, <2>2
    <3>2. QED
      BY <1>1, <1>3, <2>2, <3>1 DEF Covered
  <2>3. QED
    BY <2>1, <2>2
<1>7. QED
  BY <1>5, <1>6

(* A step that keeps the arrays and every coverage keeps all progress.        *)
LEMMA ProgressThroughFork ==
    ASSUME Inv, Progress, NEW t \in tasks, Fork(t)
    PROVE  Progress'
<1>1. pc = "images" /\ UNCHANGED <<pc, dest, pixels, grids>>
  BY DEF Fork
<1>2. ImagesAreCoveredOrWritten'
  <2>1. SUFFICES ASSUME NEW i \in 0..(Images - 1)
                 PROVE  Covered(i)' \/ Written(i)'
    BY DEF ImagesAreCoveredOrWritten
  <2>2. i \in Nat /\ (Covered(i) \/ Written(i))
    BY <1>1, LayoutGrows DEF Progress, ImagesAreCoveredOrWritten
  <2>3. Written(i) => Written(i)'
    BY <1>1 DEF Written, RowsOfImage
  <2>4. QED
    BY <2>2, <2>3, HalvesCover
<1>3. WritersKeepTheirRows'
  <2>1. SUFFICES ASSUME NEW u \in tasks', u.hi - u.lo = 1,
                        NEW c \in RowsDone(u)
                 PROVE  pixels[c] = u.lo
    BY <1>1 DEF WritersKeepTheirRows, RowsDone
  <2>2. CASE u \in tasks
    BY <2>1, <2>2 DEF Progress, WritersKeepTheirRows
  <2>3. CASE u \notin tasks
    <3>1. u.done = 0
      BY <2>3 DEF Fork, Left, Right, Task
    <3>2. u \in Tasks /\ OwnsItsWindow(u)'
      <4>1. Inv'
        BY InvIsInductive DEF Next, Step
      <4>2. QED
        BY <4>1 DEF Inv, TypeOK, WindowsAreOwned
    <3>3. u.lo \in 0..Images
      BY <3>2, TaskFields, LayoutGrows DEF OwnsItsWindow
    <3>4. RowStart[u.lo] \in Nat
      BY <3>3, LayoutGrows
    <3>5. FALSE
      BY <2>1, <3>1, <3>4 DEF RowsDone
    <3>6. QED
      BY <3>5
  <2>4. QED
    BY <2>2, <2>3
<1>4. SurplusIsStale'
  BY <1>1 DEF Progress, SurplusIsStale, Cells
<1>5. QED
  BY <1>2, <1>3, <1>4 DEF Progress

(* Two tasks of one image each work for different images, and the rows a task *)
(* has done are rows of its image.                                            *)
LEMMA WritersHaveTheirOwnImages ==
    ASSUME Inv, NEW t \in tasks, t.hi - t.lo = 1,
           NEW u \in tasks, u.hi - u.lo = 1
    PROVE  /\ t # u => t.lo # u.lo
           /\ RowsDone(t) \subseteq RowsOfImage(t.lo)
<1>1. /\ t \in Tasks /\ u \in Tasks /\ OwnsItsWindow(t)
      /\ t = u \/ Before(t, u) \/ Before(u, t)
  BY DEF Inv, TypeOK, WindowsAreOwned, WindowsAreApart
<1>2. t.lo \in Nat /\ t.hi \in Nat /\ u.lo \in Nat /\ u.hi \in Nat
  BY <1>1, TaskFields
<1>3. t # u => t.lo # u.lo
  BY <1>1, <1>2 DEF Before
<1>4. RowsDone(t) \subseteq RowsOfImage(t.lo)
  <2>1. /\ t.done \in Nat /\ RowStart[t.lo] \in Nat
        /\ RowStart[t.lo + 1] \in Nat
    BY NextCellIsOwn
  <2>2. t.done <= RowStart[t.lo + 1] - RowStart[t.lo]
    BY <1>1 DEF OwnsItsWindow, Rows
  <2>3. QED
    BY <2>1, <2>2 DEF RowsDone, RowsOfImage
<1>5. QED
  BY <1>3, <1>4

(* While images are written, every planned cell is a cell that was lent.      *)
LEMMA PlannedCellsExist ==
    ASSUME Inv, pc = "images", NEW i \in 0..(Images - 1)
    PROVE  /\ RowsOfImage(i) \subseteq Cells("pixel_values")
           /\ i \in Cells("image_grid_thw")
<1>1. /\ i \in 0..Images /\ i + 1 \in 0..Images /\ Images \in 0..Images
      /\ i + 1 <= Images /\ Images > 0
  BY LayoutGrows
<1>2. /\ RowStart[i] \in Nat /\ RowStart[i + 1] \in Nat
      /\ RowStart[Images] \in Nat /\ RowStart[i + 1] <= RowStart[Images]
  BY <1>1, LayoutGrows
<1>3. dest \in Destinations /\ \A o \in Outputs : Accepts(o)
  BY DEF Inv, TypeOK, Stages
<1>4. /\ dest["pixel_values"].length \in Nat
      /\ dest["image_grid_thw"].length \in Nat
  BY <1>3 DEF Destinations, Outputs
<1>5. /\ RowStart[Images] <= dest["pixel_values"].length
      /\ Images <= dest["image_grid_thw"].length
  BY <1>1, <1>3, AcceptedDestinationsHoldThePlan
<1>6. QED
  BY <1>1, <1>2, <1>4, <1>5 DEF RowsOfImage, Cells

(* Writing a row completes nothing else and disturbs no other image.          *)
LEMMA ProgressThroughRow ==
    ASSUME Inv, Progress, NEW t \in tasks, WriteRow(t)
    PROVE  Progress'
<1> DEFINE n == NextCell(t)
           after == [t EXCEPT !.done = @ + 1]
<1>1. /\ pc = "images" /\ UNCHANGED <<pc, dest, grids>> /\ Forks' = Forks
      /\ t.hi - t.lo = 1 /\ t.done < Rows(t.lo)
      /\ tasks' = (tasks \ {t}) \cup {after}
  BY DEF WriteRow, Forks
<1>2. /\ t.lo \in 0..(Images - 1) /\ n \in RowsOfImage(t.lo)
      /\ RowsOfImage(t.lo) \subseteq Cells("pixel_values")
      /\ n = RowStart[t.lo] + t.done /\ t.done \in Nat
      /\ RowStart[t.lo] \in Nat
  BY <1>1, NextCellIsOwn
<1>3. t \in Tasks /\ DOMAIN pixels = Cells("pixel_values")
  BY DEF Inv, TypeOK
<1>4. after.lo = t.lo /\ after.hi = t.hi /\ after.done = t.done + 1
  BY <1>3 DEF Tasks
<1>5. \A c \in DOMAIN pixels : pixels'[c] = IF c = n THEN t.lo ELSE pixels[c]
  BY DEF WriteRow
<1>6. ASSUME NEW j \in 0..(Images - 1), NEW c \in RowsOfImage(j),
             c \in DOMAIN pixels, pixels[c] = j
      PROVE  pixels'[c] = j
  <2>1. CASE j = t.lo
    BY <1>5, <1>6, <2>1
  <2>2. CASE j # t.lo
    <3>1. c # n
      BY <1>2, <1>6, <2>2, RowsOfImagesAreApart
    <3>2. QED
      BY <1>5, <1>6, <3>1
  <2>3. QED
    BY <2>1, <2>2
<1>7. ImagesAreCoveredOrWritten'
  <2>1. SUFFICES ASSUME NEW i \in 0..(Images - 1)
                 PROVE  Covered(i)' \/ Written(i)'
    BY DEF ImagesAreCoveredOrWritten
  <2>2. Covered(i) => Covered(i)'
    BY <1>1, <1>4 DEF Covered
  <2>3. Written(i) => Written(i)'
    <3>1. RowsOfImage(i) \subseteq DOMAIN pixels
      BY <1>1, <1>3, PlannedCellsExist
    <3>2. QED
      BY <1>1, <1>6, <3>1 DEF Written, RowsOfImage
  <2>4. QED
    BY <1>1, <2>2, <2>3 DEF Progress, ImagesAreCoveredOrWritten
<1>8. WritersKeepTheirRows'
  <2>1. SUFFICES ASSUME NEW u \in tasks', u.hi - u.lo = 1,
                        NEW c \in RowsDone(u)
                 PROVE  pixels'[c] = u.lo
    BY DEF WritersKeepTheirRows, RowsDone
  <2>2. CASE u = after
    <3>1. c \in RowsDone(t) \/ c = n
      BY <1>2, <1>4, <2>1, <2>2 DEF RowsDone
    <3>2. RowsDone(t) \subseteq RowsOfImage(t.lo)
      BY <1>1, WritersHaveTheirOwnImages
    <3>3. c \in DOMAIN pixels
      BY <1>2, <1>3, <3>1, <3>2
    <3>4. c \in RowsDone(t) => pixels[c] = t.lo
      BY <1>1 DEF Progress, WritersKeepTheirRows
    <3>5. QED
      BY <1>4, <1>5, <2>2, <3>1, <3>3, <3>4
  <2>3. CASE u # after
    <3>1. u \in tasks /\ u # t
      BY <1>1, <2>1, <2>3
    <3>2. u.lo # t.lo /\ RowsDone(u) \subseteq RowsOfImage(u.lo)
      BY <1>1, <2>1, <3>1, WritersHaveTheirOwnImages
    <3>3. /\ u.lo \in 0..(Images - 1)
          /\ RowsOfImage(u.lo) \subseteq Cells("pixel_values")
      BY <2>1, <3>1, NextCellIsOwn
    <3>4. pixels[c] = u.lo
      BY <2>1, <3>1 DEF Progress, WritersKeepTheirRows
    <3>5. QED
      BY <1>3, <1>6, <2>1, <3>2, <3>3, <3>4
  <2>4. QED
    BY <2>2, <2>3
<1>9. SurplusIsStale'
  <2>1. n < RowCount
    <3>1. /\ t.lo + 1 \in 0..Images /\ Images \in 0..Images
          /\ t.lo + 1 <= Images
      BY <1>2, LayoutGrows
    <3>2. /\ RowStart[t.lo + 1] \in Nat /\ RowStart[Images] \in Nat
          /\ RowStart[t.lo + 1] <= RowStart[Images]
      BY <3>1, LayoutGrows
    <3>3. QED
      BY <1>2, <3>2 DEF RowsOfImage, RowCount
  <2>2. RowCount \in Nat
    BY LayoutGrows DEF RowCount
  <2>3. \A c \in Cells("pixel_values") : c >= RowCount => c # n
    BY <1>2, <2>1, <2>2 DEF Cells
  <2>4. QED
    BY <1>1, <1>3, <1>5, <2>3 DEF Progress, SurplusIsStale, Cells
<1>10. QED
  BY <1>7, <1>8, <1>9 DEF Progress

(* Writing the grid row of an image whose rows are done completes the image,  *)
(* and the serial loop goes on with the images after it.                      *)
LEMMA ProgressThroughGrid ==
    ASSUME Inv, Progress, NEW t \in tasks, WriteGrid(t)
    PROVE  Progress'
<1>1. /\ pc = "images" /\ UNCHANGED <<pc, dest, pixels>> /\ Forks' = Forks
      /\ t.hi - t.lo = 1 /\ t.done = Rows(t.lo)
      /\ tasks' = (tasks \ {t}) \cup Successors(t)
  BY DEF WriteGrid, Forks
<1>2. /\ t.lo \in 0..(Images - 1) /\ t.hi = t.lo + 1 /\ GridCell(t) = t.lo
      /\ RowStart[t.lo] \in Nat /\ RowStart[t.lo + 1] \in Nat
      /\ t.lo \in Cells("image_grid_thw")
  BY <1>1, NextCellIsOwn
<1>3. DOMAIN grids = Cells("image_grid_thw")
  BY DEF Inv, TypeOK
<1>4. \A c \in DOMAIN grids : grids'[c] = IF c = t.lo THEN t.lo ELSE grids[c]
  BY <1>2 DEF WriteGrid
<1>5. Written(t.lo)'
  <2>1. RowsDone(t) = RowsOfImage(t.lo)
    BY <1>1, <1>2 DEF RowsDone, RowsOfImage, Rows
  <2>2. \A c \in RowsOfImage(t.lo) : pixels[c] = t.lo
    BY <1>1, <2>1 DEF Progress, WritersKeepTheirRows
  <2>3. grids'[t.lo] = t.lo
    BY <1>2, <1>3, <1>4
  <2>4. QED
    BY <1>1, <2>2, <2>3 DEF Written, RowsOfImage
<1>6. ImagesAreCoveredOrWritten'
  <2>1. SUFFICES ASSUME NEW i \in 0..(Images - 1)
                 PROVE  Covered(i)' \/ Written(i)'
    BY DEF ImagesAreCoveredOrWritten
  <2>2. CASE Written(i)
    <3>1. i \in DOMAIN grids
      BY <1>1, <1>3, PlannedCellsExist
    <3>2. QED
      BY <1>1, <1>4, <2>2, <3>1 DEF Written, RowsOfImage
  <2>3. CASE Covered(i)
    <3>1. PICK u \in tasks : u.lo <= i /\ (i < u.hi \/ ~Forks)
      BY <2>3 DEF Covered
    <3>2. CASE u # t
      BY <1>1, <3>1, <3>2 DEF Covered
    <3>3. CASE u = t /\ i = t.lo
      BY <1>5, <3>3
    <3>4. CASE u = t /\ i # t.lo
      <4>1. t.hi <= i /\ ~Forks /\ t.hi < Images
        BY <1>2, <3>1, <3>4, LayoutGrows
      <4>2. WholeSlice(t.hi, t.hi + 1) \in tasks'
        BY <1>1, <4>1 DEF Successors
      <4>3. WholeSlice(t.hi, t.hi + 1).lo = t.hi
        BY DEF WholeSlice, Task
      <4>4. QED
        BY <1>1, <4>1, <4>2, <4>3 DEF Covered
    <3>5. QED
      BY <3>2, <3>3, <3>4
  <2>4. QED
    BY <1>1, <2>2, <2>3 DEF Progress, ImagesAreCoveredOrWritten
<1>7. WritersKeepTheirRows'
  <2>1. SUFFICES ASSUME NEW u \in tasks', u.hi - u.lo = 1,
                        NEW c \in RowsDone(u)
                 PROVE  pixels[c] = u.lo
    BY <1>1 DEF WritersKeepTheirRows, RowsDone
  <2>2. CASE u \in tasks
    BY <2>1, <2>2 DEF Progress, WritersKeepTheirRows
  <2>3. CASE u \notin tasks
    <3>1. u.done = 0 /\ u.lo = t.hi /\ t.hi < Images
      BY <1>1, <2>3 DEF Successors, WholeSlice, Task
    <3>2. RowStart[u.lo] \in Nat
      BY <1>2, <3>1, LayoutGrows
    <3>3. FALSE
      BY <2>1, <3>1, <3>2 DEF RowsDone
    <3>4. QED
      BY <3>3
  <2>4. QED
    BY <2>2, <2>3
<1>8. SurplusIsStale'
  <2>1. \A c \in Cells("image_grid_thw") : c >= Images => c # t.lo
    BY <1>2, LayoutGrows DEF Cells
  <2>2. QED
    BY <1>1, <1>3, <1>4, <2>1 DEF Progress, SurplusIsStale, Cells
<1>9. QED
  BY <1>6, <1>7, <1>8 DEF Progress

(* No other step touches the image outputs or the image tasks.                *)
LEMMA ProgressThroughTheRest ==
    ASSUME Inv, Progress,
           \/ CheckIdentity \/ CheckDestinations \/ WriteText \/ JoinImages
           \/ (\E g \in groups : WriteGroup(g)) \/ WriteVideoGrid \/ Return
           \/ UNCHANGED vars
    PROVE  Progress'
<1>1. UNCHANGED <<dest, pixels, grids>>
  BY DEF CheckIdentity, CheckDestinations, WriteText, JoinImages, WriteGroup,
     WriteVideoGrid, Return, vars
<1>2. SurplusIsStale'
  BY <1>1 DEF Progress, SurplusIsStale, Cells
<1>3. CASE WriteText
  <2>1. ImagesAreCoveredOrWritten'
    BY <1>3, FirstTasksCover DEF ImagesAreCoveredOrWritten
  <2>2. WritersKeepTheirRows'
    <3>1. SUFFICES ASSUME NEW u \in tasks', NEW c \in RowsDone(u)
                   PROVE  FALSE
      BY DEF WritersKeepTheirRows, RowsDone
    <3>2. u.done = 0 /\ u.lo = 0
      BY <1>3 DEF WriteText, FirstTasks, WholeSlice, Task
    <3>3. RowStart[0] \in Nat
      BY LayoutGrows
    <3>4. QED
      BY <3>1, <3>2, <3>3 DEF RowsDone
  <2>3. QED
    BY <1>2, <2>1, <2>2 DEF Progress
<1>4. CASE ~WriteText
  <2>1. /\ tasks' = tasks /\ Forks' = Forks
        /\ pc' \in {"images", "videos", "done"}
              => pc \in {"images", "videos", "done"}
    BY <1>4 DEF CheckIdentity, CheckDestinations, JoinImages, WriteGroup,
       WriteVideoGrid, Return, vars, Forks
  <2>2. ImagesAreCoveredOrWritten'
    BY <1>1, <2>1 DEF Progress, ImagesAreCoveredOrWritten, Covered, Written,
       RowsOfImage
  <2>3. WritersKeepTheirRows'
    BY <1>1, <2>1 DEF Progress, WritersKeepTheirRows, RowsDone
  <2>4. QED
    BY <1>2, <2>2, <2>3 DEF Progress
<1>5. QED
  BY <1>3, <1>4

(* Every image is covered by a task until it is written, in every state.      *)
LEMMA ProgressAlways == Spec => []Progress
<1>1. Init => Progress
  BY DEF Init, Progress, ImagesAreCoveredOrWritten, WritersKeepTheirRows,
     SurplusIsStale
<1>2. Inv /\ Progress /\ [Next]_vars => Progress'
  <2>1. SUFFICES ASSUME Inv, Progress, [Next]_vars PROVE Progress'
    OBVIOUS
  <2>2. CASE \E t \in tasks : Fork(t) \/ WriteRow(t) \/ WriteGrid(t)
    BY <2>1, <2>2, ProgressThroughFork, ProgressThroughRow,
       ProgressThroughGrid
  <2>3. CASE ~(\E t \in tasks : Fork(t) \/ WriteRow(t) \/ WriteGrid(t))
    BY <2>1, <2>3, ProgressThroughTheRest DEF Next, Step, Finished
  <2>4. QED
    BY <2>2, <2>3
<1>3. QED
  BY <1>1, <1>2, InvAlways, PTL DEF Spec

(* A call that returns has written every row and grid row of every image, and *)
(* nothing beyond the plan, whatever the interleaving of the writers.         *)
THEOREM CompletionFillsTheImages == Spec => []CompletedCallsFillTheImages
<1>1. Inv /\ Progress => CompletedCallsFillTheImages
  <2>1. SUFFICES ASSUME Inv, Progress, pc = "done"
                 PROVE  CompletedCallsFillTheImages
    BY DEF CompletedCallsFillTheImages
  <2>2. tasks = {}
    BY <2>1 DEF Inv, Stages
  <2>3. \A i \in 0..(Images - 1) : Written(i)
    BY <2>1, <2>2 DEF Progress, ImagesAreCoveredOrWritten, Covered
  <2>4. QED
    BY <2>1, <2>3
    DEF Progress, SurplusIsStale, Written, RowsOfImage,
        CompletedCallsFillTheImages
<1>2. QED
  BY <1>1, InvAlways, ProgressAlways, PTL

-------------------------------------------------------------------------------
(* What text and videos hold while the call goes on: videos before the cursor *)
(* are complete, and the one at the cursor lacks its pending groups only.     *)
VideoWritten(v) ==
    (\A c \in GroupsOf(v) : videoPixels[c] = v) /\ videoGrids[v] = v

TextIsWritten ==
    pc \in {"images", "videos", "done"} =>
        \A o \in TextOutputs : \A c \in Cells(o) :
            text[o][c] = IF c < TextElements THEN 0 ELSE Stale

VideosInOrder ==
    /\ \A v \in 0..(video - 1) : VideoWritten(v)
    /\ pc = "videos" /\ video < Videos =>
          /\ groups \subseteq GroupsOf(video)
          /\ \A c \in GroupsOf(video) : c \in groups \/ videoPixels[c] = video
    /\ pc = "done" => video = Videos

VideoSurplusIsStale ==
    /\ \A c \in Cells("pixel_values_videos") :
          c >= VideoRowCount => videoPixels[c] = Stale
    /\ \A c \in Cells("video_grid_thw") : c >= Videos => videoGrids[c] = Stale

VideoProgress == TextIsWritten /\ VideosInOrder /\ VideoSurplusIsStale

(* The layout of the videos grows with the video index.                       *)
LEMMA VideoLayoutGrows ==
    /\ Videos \in Nat
    /\ VideoRowStart \in [0..Videos -> Nat]
    /\ \A i, j \in 0..Videos : i <= j => VideoRowStart[i] <= VideoRowStart[j]
BY ExecutionAssumption DEF IsLayout

(* The groups of a video are planned rows, and no other video has them.       *)
LEMMA GroupsAreApart ==
    ASSUME NEW v \in 0..(Videos - 1), NEW c \in GroupsOf(v)
    PROVE  /\ c \in Nat /\ c < VideoRowCount
           /\ \A w \in 0..(Videos - 1) : w # v => c \notin GroupsOf(w)
<1>1. /\ Videos \in Nat /\ v \in 0..Videos /\ v + 1 \in 0..Videos
      /\ Videos \in 0..Videos /\ v + 1 <= Videos
  BY VideoLayoutGrows
<1>2. /\ VideoRowStart[v] \in Nat /\ VideoRowStart[v + 1] \in Nat
      /\ VideoRowStart[Videos] \in Nat
      /\ VideoRowStart[v + 1] <= VideoRowStart[Videos]
  BY <1>1, VideoLayoutGrows
<1>3. ASSUME NEW w \in 0..(Videos - 1), w # v PROVE c \notin GroupsOf(w)
  <2>1. w \in 0..Videos /\ w + 1 \in 0..Videos /\ (v + 1 <= w \/ w + 1 <= v)
    BY <1>1, <1>3
  <2>2. VideoRowStart[w] \in Nat /\ VideoRowStart[w + 1] \in Nat
    BY <2>1, VideoLayoutGrows
  <2>3. \/ VideoRowStart[v + 1] <= VideoRowStart[w]
        \/ VideoRowStart[w + 1] <= VideoRowStart[v]
    BY <1>1, <2>1, VideoLayoutGrows
  <2>4. QED
    BY <1>2, <2>2, <2>3 DEF GroupsOf
<1>4. QED
  BY <1>2, <1>3 DEF GroupsOf, VideoRowCount

(* Accepted destinations have a cell for every planned group and grid row.    *)
LEMMA PlannedVideoCellsExist ==
    ASSUME Inv, pc = "videos", NEW v \in 0..(Videos - 1)
    PROVE  /\ GroupsOf(v) \subseteq DOMAIN videoPixels
           /\ v \in DOMAIN videoGrids
<1>1. Accepts("pixel_values_videos") /\ Accepts("video_grid_thw")
  BY DEF Inv, Stages, Outputs
<1>2. Videos \in Nat /\ Videos > 0
  BY VideoLayoutGrows
<1>3. /\ Capacity("pixel_values_videos") = Some(VideoRowCount)
      /\ Capacity("video_grid_thw") = Some(Videos)
  BY <1>2 DEF Capacity, TextOutputs
<1>4. /\ dest["pixel_values_videos"].present
      /\ dest["video_grid_thw"].present
  BY <1>1, <1>3 DEF Accepts, Some
<1>5. /\ dest["pixel_values_videos"].length >= VideoRowCount
      /\ dest["video_grid_thw"].length >= Videos
  BY <1>1, <1>3, <1>4 DEF Accepts, Some
<1>6. /\ dest["pixel_values_videos"].length \in Nat
      /\ dest["video_grid_thw"].length \in Nat
  BY DEF Inv, TypeOK, Destinations, Outputs
<1>7. /\ DOMAIN videoPixels = Cells("pixel_values_videos")
      /\ DOMAIN videoGrids = Cells("video_grid_thw")
  BY DEF Inv, TypeOK
<1>8. v \in DOMAIN videoGrids
  BY <1>2, <1>5, <1>6, <1>7 DEF Cells
<1>9. ASSUME NEW c \in GroupsOf(v) PROVE c \in DOMAIN videoPixels
  <2>1. VideoRowCount \in Nat
    BY VideoLayoutGrows DEF VideoRowCount
  <2>2. c \in Nat /\ c < VideoRowCount
    BY <1>9, GroupsAreApart
  <2>3. QED
    BY <1>5, <1>6, <1>7, <2>1, <2>2 DEF Cells
<1>10. QED
  BY <1>8, <1>9

(* Writing a group completes one row of the video at the cursor.              *)
LEMMA VideoProgressThroughGroup ==
    ASSUME Inv, VideoProgress, NEW g \in groups, WriteGroup(g)
    PROVE  VideoProgress'
<1>1. /\ pc = "videos" /\ video < Videos /\ video \in 0..(Videos - 1)
      /\ UNCHANGED <<dest, pc, text, video, videoGrids>>
      /\ groups' = groups \ {g}
  BY VideoLayoutGrows DEF WriteGroup, Inv, Stages, TypeOK
<1>2. g \in GroupsOf(video)
  BY <1>1 DEF VideoProgress, VideosInOrder
<1>3. /\ g \in DOMAIN videoPixels
      /\ videoPixels' = [videoPixels EXCEPT ![g] = video]
  BY <1>1, <1>2, PlannedVideoCellsExist DEF WriteGroup
<1>4. /\ videoPixels'[g] = video
      /\ \A c \in DOMAIN videoPixels : c # g => videoPixels'[c] = videoPixels[c]
  BY <1>3
<1>5. TextIsWritten'
  BY <1>1 DEF VideoProgress, TextIsWritten, Cells
<1>6. ASSUME NEW v \in 0..(video - 1) PROVE VideoWritten(v)'
  <2>1. v \in 0..(Videos - 1) /\ v # video
    BY <1>1, <1>6, VideoLayoutGrows
  <2>2. VideoWritten(v)
    BY <1>6 DEF VideoProgress, VideosInOrder
  <2>3. g \notin GroupsOf(v)
    BY <1>1, <1>2, <2>1, GroupsAreApart
  <2>4. GroupsOf(v) \subseteq DOMAIN videoPixels
    BY <1>1, <2>1, PlannedVideoCellsExist
  <2>5. \A c \in GroupsOf(v) : videoPixels'[c] = v
    BY <1>4, <2>2, <2>3, <2>4 DEF VideoWritten
  <2>6. QED
    BY <1>1, <2>2, <2>5 DEF VideoWritten, GroupsOf
<1>7. ASSUME NEW c \in GroupsOf(video)
      PROVE  c \in groups' \/ videoPixels'[c] = video
  <2>1. c \in DOMAIN videoPixels
    BY <1>1, PlannedVideoCellsExist
  <2>2. c \in groups \/ videoPixels[c] = video
    BY <1>1 DEF VideoProgress, VideosInOrder
  <2>3. QED
    BY <1>1, <1>4, <2>1, <2>2
<1>8. VideosInOrder'
  <2>1. groups' \subseteq GroupsOf(video)
    BY <1>1 DEF VideoProgress, VideosInOrder
  <2>2. QED
    BY <1>1, <1>6, <1>7, <2>1 DEF VideosInOrder, GroupsOf
<1>9. VideoSurplusIsStale'
  <2>1. g \in Nat /\ g < VideoRowCount /\ VideoRowCount \in Nat
    BY <1>1, <1>2, GroupsAreApart, VideoLayoutGrows DEF VideoRowCount
  <2>2. DOMAIN videoPixels = Cells("pixel_values_videos")
    BY DEF Inv, TypeOK
  <2>3. ASSUME NEW c \in Cells("pixel_values_videos"), c >= VideoRowCount
        PROVE  videoPixels'[c] = Stale
    <3>1. c # g
      BY <2>1, <2>3 DEF Cells
    <3>2. QED
      BY <1>4, <2>2, <2>3, <3>1 DEF VideoProgress, VideoSurplusIsStale
  <2>4. QED
    BY <1>1, <2>3 DEF VideoProgress, VideoSurplusIsStale, Cells
<1>10. QED
  BY <1>5, <1>8, <1>9 DEF VideoProgress

(* The groups a video starts with are all of its rows.                        *)
LEMMA VideosStartWhole ==
    ASSUME NEW v \in Nat, v < Videos
    PROVE  GroupsFrom(v) = GroupsOf(v)
BY DEF GroupsFrom

(* Writing its grid row completes the video at the cursor.                    *)
LEMMA VideoProgressThroughGrid ==
    ASSUME Inv, VideoProgress, WriteVideoGrid
    PROVE  VideoProgress'
<1>1. /\ pc = "videos" /\ video < Videos /\ video \in 0..(Videos - 1)
      /\ UNCHANGED <<dest, pc, text, videoPixels>>
      /\ groups = {} /\ video' = video + 1 /\ groups' = GroupsFrom(video + 1)
      /\ Videos \in Nat
  BY VideoLayoutGrows DEF WriteVideoGrid, Inv, TypeOK
<1>2. /\ video \in DOMAIN videoGrids
      /\ videoGrids' = [videoGrids EXCEPT ![video] = video]
  BY <1>1, PlannedVideoCellsExist DEF WriteVideoGrid
<1>3. /\ videoGrids'[video] = video
      /\ \A v \in DOMAIN videoGrids : v # video => videoGrids'[v] = videoGrids[v]
  BY <1>2
<1>4. TextIsWritten'
  BY <1>1 DEF VideoProgress, TextIsWritten, Cells
<1>5. ASSUME NEW v \in 0..video PROVE VideoWritten(v)'
  <2>1. v \in 0..(Videos - 1) /\ v \in DOMAIN videoGrids
    BY <1>1, <1>5, PlannedVideoCellsExist
  <2>2. CASE v = video
    <3>1. \A c \in GroupsOf(video) : videoPixels[c] = video
      BY <1>1 DEF VideoProgress, VideosInOrder
    <3>2. QED
      BY <1>1, <1>3, <2>2, <3>1 DEF VideoWritten, GroupsOf
  <2>3. CASE v # video
    <3>1. v \in 0..(video - 1)
      BY <1>1, <1>5, <2>3
    <3>2. VideoWritten(v)
      BY <3>1 DEF VideoProgress, VideosInOrder
    <3>3. QED
      BY <1>1, <1>3, <2>1, <2>3, <3>2 DEF VideoWritten, GroupsOf
  <2>4. QED
    BY <2>2, <2>3
<1>6. VideosInOrder'
  <2>1. \A v \in 0..(video' - 1) : VideoWritten(v)'
    BY <1>1, <1>5
  <2>2. ASSUME video' < Videos
        PROVE  groups' = GroupsOf(video')
    BY <1>1, <2>2, VideosStartWhole
  <2>3. QED
    BY <1>1, <2>1, <2>2 DEF VideosInOrder, GroupsOf
<1>7. VideoSurplusIsStale'
  <2>1. DOMAIN videoGrids = Cells("video_grid_thw")
    BY DEF Inv, TypeOK
  <2>2. ASSUME NEW c \in Cells("video_grid_thw"), c >= Videos
        PROVE  videoGrids'[c] = Stale
    BY <1>1, <1>3, <2>1, <2>2 DEF VideoProgress, VideoSurplusIsStale, Cells
  <2>3. QED
    BY <1>1, <2>2 DEF VideoProgress, VideoSurplusIsStale, Cells
<1>8. QED
  BY <1>4, <1>6, <1>7 DEF VideoProgress

(* Text is written at once, and no other step touches text or videos.         *)
LEMMA VideoProgressThroughTheRest ==
    ASSUME Inv, VideoProgress, FreshUntilText,
           \/ CheckIdentity \/ CheckDestinations \/ WriteText \/ JoinImages
           \/ (\E t \in tasks : Fork(t) \/ WriteRow(t) \/ WriteGrid(t))
           \/ Return \/ UNCHANGED vars
    PROVE  VideoProgress'
<1>1. UNCHANGED <<dest, video, videoPixels, videoGrids>>
  BY DEF CheckIdentity, CheckDestinations, WriteText, JoinImages, Fork,
     WriteRow, WriteGrid, Return, vars
<1>2. VideoSurplusIsStale'
  BY <1>1 DEF VideoProgress, VideoSurplusIsStale, Cells
<1>3. TextIsWritten'
  <2>1. CASE WriteText
    <3>1. text' = [o \in TextOutputs |->
                     [c \in Cells(o) |->
                        IF c < TextElements THEN 0 ELSE text[o][c]]]
      BY <2>1 DEF WriteText
    <3>2. \A o \in TextOutputs : \A c \in Cells(o) : text[o][c] = Stale
      BY <2>1 DEF WriteText, FreshUntilText, Fresh
    <3>3. \A o \in TextOutputs : \A c \in Cells(o) :
             text'[o][c] = IF c < TextElements THEN 0 ELSE Stale
      BY <3>1, <3>2
    <3>4. \A o \in TextOutputs : Cells(o)' = Cells(o)
      BY <1>1 DEF Cells
    <3>5. QED
      BY <3>3, <3>4 DEF TextIsWritten
  <2>2. CASE ~WriteText
    <3>1. /\ text' = text
          /\ pc' \in {"images", "videos", "done"}
                => pc \in {"images", "videos", "done"}
      BY <2>2 DEF CheckIdentity, CheckDestinations, JoinImages, Fork,
         WriteRow, WriteGrid, Return, vars
    <3>2. QED
      BY <1>1, <3>1 DEF VideoProgress, TextIsWritten, Cells
  <2>3. QED
    BY <2>1, <2>2
<1>4. \A v \in 0..(video' - 1) : VideoWritten(v)'
  BY <1>1 DEF VideoProgress, VideosInOrder, VideoWritten, GroupsOf
<1>5. VideosInOrder'
  <2>1. CASE JoinImages
    <3>1. video = 0 /\ groups' = GroupsFrom(0) /\ pc' = "videos"
      BY <2>1 DEF JoinImages, Inv, Stages
    <3>2. video < Videos => groups' = GroupsOf(video)
      BY <3>1, VideosStartWhole
    <3>3. QED
      BY <1>1, <1>4, <3>1, <3>2 DEF VideosInOrder, GroupsOf
  <2>2. CASE Return
    BY <1>1, <1>4, <2>2 DEF Return, VideosInOrder
  <2>3. CASE ~JoinImages /\ ~Return
    <3>1. /\ groups' = groups
          /\ pc' \in {"videos", "done"} => pc' = pc
      BY <2>3 DEF CheckIdentity, CheckDestinations, WriteText, Fork,
         WriteRow, WriteGrid, vars
    <3>2. QED
      BY <1>1, <1>4, <3>1 DEF VideoProgress, VideosInOrder, GroupsOf
  <2>4. QED
    BY <2>1, <2>2, <2>3
<1>6. QED
  BY <1>2, <1>3, <1>5 DEF VideoProgress

(* Text and videos progress in order, in every state.                         *)
LEMMA VideoProgressAlways == Spec => []VideoProgress
<1>1. Init => VideoProgress
  BY DEF Init, VideoProgress, TextIsWritten, VideosInOrder, VideoSurplusIsStale
<1>2. Inv /\ FreshUntilText /\ VideoProgress /\ [Next]_vars
         => VideoProgress'
  <2>1. SUFFICES ASSUME Inv, FreshUntilText, VideoProgress, [Next]_vars
                 PROVE  VideoProgress'
    OBVIOUS
  <2>2. CASE (\E g \in groups : WriteGroup(g)) \/ WriteVideoGrid
    BY <2>1, <2>2, VideoProgressThroughGroup, VideoProgressThroughGrid
  <2>3. CASE ~((\E g \in groups : WriteGroup(g)) \/ WriteVideoGrid)
    BY <2>1, <2>3, VideoProgressThroughTheRest DEF Next, Step, Finished
  <2>4. QED
    BY <2>2, <2>3
<1>3. QED
  BY <1>1, <1>2, InvAlways, FreshUntilTextAlways, PTL DEF Spec

-------------------------------------------------------------------------------
(* A returned call has filled every output as the contract says.              *)
LEMMA CompletedCallsAreFilled ==
    ASSUME Inv, Progress, VideoProgress, pc = "done"
    PROVE  Contract!Filled(Contents)
<1>1. /\ \A o \in TextOutputs : Contents[o] = text[o]
      /\ Contents["pixel_values"] = pixels
      /\ Contents["image_grid_thw"] = grids
      /\ Contents["pixel_values_videos"] = videoPixels
      /\ Contents["video_grid_thw"] = videoGrids
  BY DEF Contents, Outputs, TextOutputs
<1>2. /\ \A o \in TextOutputs : DOMAIN text[o] = Cells(o)
      /\ DOMAIN pixels = Cells("pixel_values")
      /\ DOMAIN grids = Cells("image_grid_thw")
      /\ DOMAIN videoPixels = Cells("pixel_values_videos")
      /\ DOMAIN videoGrids = Cells("video_grid_thw")
  BY DEF Inv, TypeOK
<1>3. \A o \in TextOutputs : Contract!FilledText(Contents[o])
  <2>1. SUFFICES ASSUME NEW o \in TextOutputs
                 PROVE  Contract!FilledText(text[o])
    BY <1>1
  <2>2. \A c \in Cells(o) : text[o][c] = IF c < TextElements THEN 0 ELSE Stale
    BY DEF VideoProgress, TextIsWritten
  <2>3. QED
    BY <1>2, <2>2 DEF Contract!FilledText
<1>4. Contract!FilledRows(pixels, RowStart, Images)
  <2>1. \A i \in 0..(Images - 1) : Written(i)
    BY DEF Inv, Stages, Progress, ImagesAreCoveredOrWritten, Covered
  <2>2. ASSUME NEW c \in Cells("pixel_values"), NEW i \in 0..(Images - 1),
               RowStart[i] <= c, c < RowStart[i + 1]
        PROVE  pixels[c] = i
    <3>1. i \in 0..Images /\ i + 1 \in 0..Images /\ c \in Nat
      BY LayoutGrows DEF Cells
    <3>2. RowStart[i] \in Nat /\ RowStart[i + 1] \in Nat
      BY <3>1, LayoutGrows
    <3>3. c \in RowsOfImage(i)
      BY <2>2, <3>1, <3>2 DEF RowsOfImage
    <3>4. QED
      BY <2>1, <3>3 DEF Written
  <2>3. ASSUME NEW c \in Cells("pixel_values"), RowStart[Images] <= c
        PROVE  pixels[c] = Stale
    <3>1. c \in Nat /\ RowStart[Images] \in Nat
      BY LayoutGrows DEF Cells
    <3>2. QED
      BY <2>3, <3>1 DEF Progress, SurplusIsStale, RowCount
  <2>4. QED
    BY <1>2, <2>2, <2>3 DEF Contract!FilledRows, Stale
<1>5. Contract!FilledGrid(grids, Images)
  <2>1. SUFFICES ASSUME NEW c \in Cells("image_grid_thw")
                 PROVE  grids[c] = IF c < Images THEN c ELSE Stale
    BY <1>2 DEF Contract!FilledGrid, Stale
  <2>2. c \in Nat /\ Images \in Nat
    BY LayoutGrows DEF Cells
  <2>3. ASSUME c < Images PROVE grids[c] = c
    <3>1. c \in 0..(Images - 1)
      BY <2>2, <2>3
    <3>2. Written(c)
      BY <3>1 DEF Inv, Stages, Progress, ImagesAreCoveredOrWritten, Covered
    <3>3. QED
      BY <3>2 DEF Written
  <2>4. QED
    BY <2>2, <2>3 DEF Progress, SurplusIsStale
<1>6. video = Videos /\ Videos \in Nat
  BY VideoLayoutGrows DEF VideoProgress, VideosInOrder
<1>7. \A v \in 0..(Videos - 1) : VideoWritten(v)
  BY <1>6 DEF VideoProgress, VideosInOrder
<1>8. Contract!FilledRows(videoPixels, VideoRowStart, Videos)
  <2>1. ASSUME NEW c \in Cells("pixel_values_videos"),
               NEW v \in 0..(Videos - 1),
               VideoRowStart[v] <= c, c < VideoRowStart[v + 1]
        PROVE  videoPixels[c] = v
    <3>1. v \in 0..Videos /\ v + 1 \in 0..Videos /\ c \in Nat
      BY <1>6 DEF Cells
    <3>2. VideoRowStart[v] \in Nat /\ VideoRowStart[v + 1] \in Nat
      BY <3>1, VideoLayoutGrows
    <3>3. c \in GroupsOf(v)
      BY <2>1, <3>1, <3>2 DEF GroupsOf
    <3>4. QED
      BY <1>7, <3>3 DEF VideoWritten
  <2>2. ASSUME NEW c \in Cells("pixel_values_videos"),
               VideoRowStart[Videos] <= c
        PROVE  videoPixels[c] = Stale
    <3>1. c \in Nat /\ VideoRowStart[Videos] \in Nat
      BY VideoLayoutGrows DEF Cells
    <3>2. QED
      BY <2>2, <3>1 DEF VideoProgress, VideoSurplusIsStale, VideoRowCount
  <2>3. QED
    BY <1>2, <2>1, <2>2 DEF Contract!FilledRows, Stale
<1>9. Contract!FilledGrid(videoGrids, Videos)
  <2>1. SUFFICES ASSUME NEW c \in Cells("video_grid_thw")
                 PROVE  videoGrids[c] = IF c < Videos THEN c ELSE Stale
    BY <1>2 DEF Contract!FilledGrid, Stale
  <2>2. c \in Nat
    BY DEF Cells
  <2>3. ASSUME c < Videos PROVE videoGrids[c] = c
    <3>1. c \in 0..(Videos - 1)
      BY <1>6, <2>2, <2>3
    <3>2. QED
      BY <1>7, <3>1 DEF VideoWritten
  <2>4. QED
    BY <1>6, <2>2, <2>3 DEF VideoProgress, VideoSurplusIsStale
<1>10. QED
  BY <1>1, <1>3, <1>4, <1>5, <1>8, <1>9
  DEF Contract!Filled, Contract!TextOutputs, TextOutputs

(* What nothing has been written to is what was lent.                         *)
LEMMA FreshContentsAreLent ==
    ASSUME Inv, Fresh
    PROVE  Contents = Lent
<1>1. /\ text["input_ids"] = [c \in Cells("input_ids") |-> Stale]
      /\ text["attention_mask"] = [c \in Cells("attention_mask") |-> Stale]
      /\ text["mm_token_type_ids"] = [c \in Cells("mm_token_type_ids") |-> Stale]
  <2>1. \A o \in TextOutputs : text[o] = [c \in Cells(o) |-> Stale]
    BY DEF Inv, TypeOK, Fresh
  <2>2. QED
    BY <2>1 DEF TextOutputs
<1>2. /\ pixels = [c \in Cells("pixel_values") |-> Stale]
      /\ grids = [c \in Cells("image_grid_thw") |-> Stale]
      /\ videoPixels = [c \in Cells("pixel_values_videos") |-> Stale]
      /\ videoGrids = [c \in Cells("video_grid_thw") |-> Stale]
  BY DEF Inv, TypeOK, Fresh
<1>3. ASSUME NEW o \in Outputs PROVE Contents[o] = Lent[o]
  BY <1>1, <1>2 DEF Contents, Lent, Outputs, TextOutputs
<1>4. QED
  BY <1>3 DEF Contents, Lent

(* What the caller finds when the call is over.                               *)
FindingsAreAsPromised ==
    /\ pc = "failed" => Contents = Lent
    /\ pc = "done" => Contract!Filled(Contents)

(* At every moment the caller finds what is promised.                         *)
LEMMA FindingsAlways == Spec => []FindingsAreAsPromised
<1>1. Inv /\ Progress /\ VideoProgress /\ FreshUntilText
         => FindingsAreAsPromised
  BY CompletedCallsAreFilled, FreshContentsAreLent
  DEF FindingsAreAsPromised, FreshUntilText
<1>2. QED
  BY <1>1, InvAlways, ProgressAlways, VideoProgressAlways,
     FreshUntilTextAlways, PTL

(* The plan and the lent destinations are what they were.                     *)
LEMMA OfferIsKept ==
    ASSUME [Next]_vars
    PROVE  identity' = identity /\ dest' = dest
BY DEF Next, Step, Finished, CheckIdentity, CheckDestinations, WriteText, Fork,
   WriteRow, WriteGrid, JoinImages, WriteGroup, WriteVideoGrid, Return, vars

(* A call refuses and leaves every cell of the seven destinations as it was,  *)
(* or fills each planned cell for its own occurrence and no other cell:       *)
(* PlanExecution implements DestinationContract but for the promise to        *)
(* return, which needs fairness.                                              *)
THEOREM ExecutionIsAllOrNothing == Spec => Contract!SafeSpec
<1> DEFINE acceptable == identity /\ \A o \in Outputs : Accepts(o)
           cells == IF Over THEN Contents ELSE Lent
           outcome == CASE pc = "done" -> "filled"
                        [] pc = "failed" -> "refused"
                        [] OTHER -> "lent"
<1>1. Init => Contract!Init
  <2>1. SUFFICES ASSUME Init PROVE Contract!Init
    OBVIOUS
  <2>2. ~Over /\ outcome = "lent"
    BY <2>1 DEF Init, Over
  <2>3. \A o \in DOMAIN Lent : Contract!Fresh(Lent[o])
    BY DEF Lent, Contract!Fresh
  <2>4. QED
    BY <2>2, <2>3 DEF Contract!Init
<1>2. ASSUME Inv, FindingsAreAsPromised', [Next]_vars
      PROVE  [Contract!Next]_(Contract!contractVars)
  <2>1. identity' = identity /\ dest' = dest
    BY <1>2, OfferIsKept
  <2>2. acceptable' = acceptable
    BY <2>1 DEF Accepts
  <2>3. Lent' = Lent
    BY <2>1 DEF Lent, Cells
  <2>4. CASE UNCHANGED vars
    <3>1. Contents' = Contents /\ pc' = pc
      BY <2>4 DEF vars, Contents
    <3>2. cells' = cells /\ outcome' = outcome
      BY <2>3, <3>1 DEF Over
    <3>3. QED
      BY <2>2, <3>2 DEF Contract!contractVars
  <2>5. CASE Step /\ pc' = "failed"
    <3>1. pc # "failed" /\ pc # "done"
      BY <2>5 DEF Step, CheckIdentity, CheckDestinations, WriteText, Fork,
         WriteRow, WriteGrid, JoinImages, WriteGroup, WriteVideoGrid, Return
    <3>2. ~acceptable
      BY <1>2, <2>5, <3>1 DEF Step, CheckIdentity, CheckDestinations,
         WriteText, Fork, WriteRow, WriteGrid, JoinImages, WriteGroup,
         WriteVideoGrid, Return
    <3>3. Contents' = Lent'
      BY <1>2, <2>5 DEF FindingsAreAsPromised
    <3>4. cells = Lent /\ cells' = Lent
      BY <2>3, <2>5, <3>1, <3>3 DEF Over
    <3>5. outcome = "lent" /\ outcome' = "refused"
      BY <2>5, <3>1
    <3>6. QED
      BY <2>2, <3>2, <3>4, <3>5 DEF Contract!Next, Contract!Refuse
  <2>6. CASE Step /\ pc' = "done"
    <3>1. pc = "videos"
      BY <2>6 DEF Step, CheckIdentity, CheckDestinations, WriteText, Fork,
         WriteRow, WriteGrid, JoinImages, WriteGroup, WriteVideoGrid, Return
    <3>2. acceptable
      BY <1>2, <3>1 DEF Inv, Stages
    <3>3. Contract!Filled(Contents)'
      BY <1>2, <2>6 DEF FindingsAreAsPromised
    <3>4. cells' = Contents'
      BY <2>6 DEF Over
    <3>5. outcome = "lent" /\ outcome' = "filled"
      BY <2>6, <3>1
    <3>6. QED
      BY <2>2, <3>2, <3>3, <3>4, <3>5 DEF Contract!Next, Contract!Fill
  <2>7. CASE Step /\ pc' \notin {"failed", "done"}
    <3>1. pc \notin {"failed", "done"}
      BY <2>7 DEF Step, CheckIdentity, CheckDestinations, WriteText, Fork,
         WriteRow, WriteGrid, JoinImages, WriteGroup, WriteVideoGrid, Return
    <3>2. cells' = cells /\ outcome' = outcome
      BY <2>3, <2>7, <3>1 DEF Over
    <3>3. QED
      BY <2>2, <3>2 DEF Contract!contractVars
  <2>8. QED
    BY <1>2, <2>4, <2>5, <2>6, <2>7 DEF Next, Finished
<1>3. QED
  BY <1>1, <1>2, InvAlways, FindingsAlways, PTL DEF Spec, Contract!SafeSpec
================================================================================
