---------------------------- MODULE PlanExecution ----------------------------
(* QwenImageProcessor::execute_plan_into: one owned batch plan is written     *)
(* into destinations the caller lends for the length of the call.  Identity   *)
(* and all seven destinations are validated first; then text, images and      *)
(* videos are written.  Images are written by a recursive fork and join over  *)
(* split slices, or one after another when serial.                            *)
(*                                                                            *)
(* A cell of a pixel array is one patch row and a cell of a grid array one    *)
(* grid row: the factors patch_width and 3 of the code are left out.  A cell  *)
(* holds the index of the occurrence it was written for.                      *)
EXTENDS Integers, FiniteSets

CONSTANTS
    Images,         \* planned images
    RowStart,       \* RowStart[i] is the first row of image i, from zero;
                    \* RowStart[Images] the number of rows
    Videos,         \* planned videos
    VideoRowStart,  \* the same for temporal groups of videos
    TextElements,   \* rows times columns of the text matrices
    Parallel,       \* no recorder and more than one worker
    Offers          \* destinations a caller may lend

TextOutputs == {"input_ids", "attention_mask", "mm_token_type_ids"}

Outputs == TextOutputs \cup {"pixel_values", "image_grid_thw",
                             "pixel_values_videos", "video_grid_thw"}

Destinations == [Outputs -> [present : BOOLEAN, length : Nat]]

(* Layouts are prefix sums of row counts, as batch planning builds them.      *)
IsLayout(start, n) ==
    /\ n \in Nat
    /\ start \in [0..n -> Nat]
    /\ start[0] = 0
    /\ \A i, j \in 0..n : i <= j => start[i] <= start[j]

ASSUME ExecutionAssumption ==
    /\ IsLayout(RowStart, Images)
    /\ IsLayout(VideoRowStart, Videos)
    /\ TextElements \in Nat
    /\ Parallel \in BOOLEAN
    /\ Offers \subseteq Destinations

Stale == -1

VARIABLES
    identity,       \* the plan was made by this processor's contract,
                    \* profile and limits
    dest,           \* lengths of the lent destinations
    pc,
    text,           \* cells of each text matrix
    pixels,         \* cells of pixel_values
    grids,          \* cells of image_grid_thw
    tasks,          \* image writes forked or running
    video,          \* video being written
    groups,         \* its temporal groups not yet written
    videoPixels,    \* cells of pixel_values_videos
    videoGrids      \* cells of video_grid_thw

vars == <<identity, dest, pc, text, pixels, grids, tasks, video, groups,
          videoPixels, videoGrids>>

RowCount == RowStart[Images]
VideoRowCount == VideoRowStart[Videos]

Cells(o) == 0..(dest[o].length - 1)

Init ==
    /\ identity \in BOOLEAN
    /\ dest \in Offers
    /\ pc = "identity"
    /\ text = [o \in TextOutputs |-> [c \in Cells(o) |-> Stale]]
    /\ pixels = [c \in Cells("pixel_values") |-> Stale]
    /\ grids = [c \in Cells("image_grid_thw") |-> Stale]
    /\ tasks = {}
    /\ video = 0
    /\ groups = {}
    /\ videoPixels = [c \in Cells("pixel_values_videos") |-> Stale]
    /\ videoGrids = [c \in Cells("video_grid_thw") |-> Stale]

-------------------------------------------------------------------------------
(* Validation: no destination has been touched.                               *)

Some(n) == [present |-> TRUE, length |-> n]
None == [present |-> FALSE, length |-> 0]

Capacity(o) ==
    CASE o \in TextOutputs -> Some(TextElements)
      [] o = "pixel_values" -> IF Images > 0 THEN Some(RowCount) ELSE None
      [] o = "image_grid_thw" -> IF Images > 0 THEN Some(Images) ELSE None
      [] o = "pixel_values_videos" ->
            IF Videos > 0 THEN Some(VideoRowCount) ELSE None
      [] o = "video_grid_thw" -> IF Videos > 0 THEN Some(Videos) ELSE None

(* Mutated form: only the presence of a destination is compared.              *)
AcceptsPresence(o) == dest[o].present = Capacity(o).present

(* A destination is accepted when it is lent exactly for a planned output and *)
(* is at least as long as planned.                                            *)
Accepts(o) ==
    /\ dest[o].present = Capacity(o).present
    /\ dest[o].present => dest[o].length >= Capacity(o).length

CheckIdentity ==
    /\ pc = "identity"
    /\ pc' = IF identity THEN "destinations" ELSE "failed"
    /\ UNCHANGED <<identity, dest, text, pixels, grids, tasks, video, groups,
                   videoPixels, videoGrids>>

(* Mutated form: a text matrix is written as soon as it is accepted.          *)
CheckAndWriteText ==
    /\ pc = "destinations"
    /\ pc' = IF \A o \in Outputs : Accepts(o) THEN "text" ELSE "failed"
    /\ text' = [o \in TextOutputs |->
                  IF Accepts(o)
                  THEN [c \in Cells(o) |-> IF c < TextElements THEN 0 ELSE Stale]
                  ELSE text[o]]
    /\ UNCHANGED <<identity, dest, pixels, grids, tasks, video, groups,
                   videoPixels, videoGrids>>

CheckDestinations ==
    /\ pc = "destinations"
    /\ pc' = IF \A o \in Outputs : Accepts(o) THEN "text" ELSE "failed"
    /\ UNCHANGED <<identity, dest, text, pixels, grids, tasks, video, groups,
                   videoPixels, videoGrids>>

-------------------------------------------------------------------------------
(* Text rows and their padding fill the planned elements of three matrices.   *)

(* An image write owns a slice: the cells rowFrom..rowTo-1 of pixel_values    *)
(* and gridFrom..gridTo-1 of image_grid_thw, whose first cells stand for row  *)
(* rowBase and grid row gridBase of the plan.  It writes images lo..hi-1.     *)
Task(lo, hi, rowBase, rowFrom, rowTo, gridBase, gridFrom, gridTo) ==
    [lo |-> lo, hi |-> hi, rowBase |-> rowBase, rowFrom |-> rowFrom,
     rowTo |-> rowTo, gridBase |-> gridBase, gridFrom |-> gridFrom,
     gridTo |-> gridTo, done |-> 0]

WholeSlice(lo, hi) ==
    Task(lo, hi, 0, 0, dest["pixel_values"].length,
         0, 0, dest["image_grid_thw"].length)

Forks == Parallel /\ Images > 1

(* The root of the fork, or the first image when serial.                      *)
FirstTasks ==
    IF Images = 0 THEN {}
    ELSE IF Forks THEN {WholeSlice(0, Images)} ELSE {WholeSlice(0, 1)}

WriteText ==
    /\ pc = "text"
    /\ text' = [o \in TextOutputs |->
                  [c \in Cells(o) |-> IF c < TextElements THEN 0 ELSE text[o][c]]]
    /\ tasks' = FirstTasks
    /\ pc' = "images"
    /\ UNCHANGED <<identity, dest, pixels, grids, video, groups, videoPixels,
                   videoGrids>>

-------------------------------------------------------------------------------
(* execute_patchify_images_parallel: a task of several images splits its      *)
(* slices at the first row of its middle image and forks; a task of one image *)
(* writes its rows, addressed relative to its base, then its grid row.        *)

Middle(t) == t.lo + (t.hi - t.lo) \div 2

(* Mutated form: the base is not what is subtracted.                          *)
RowSplitReversed(t) == t.rowBase - RowStart[Middle(t)]

(* Where, relative to the slice, the right half begins.                       *)
RowSplit(t) == RowStart[Middle(t)] - t.rowBase
GridSplit(t) == Middle(t) - t.gridBase

Left(t) ==
    Task(t.lo, Middle(t), t.rowBase, t.rowFrom, t.rowFrom + RowSplit(t),
         t.gridBase, t.gridFrom, t.gridFrom + GridSplit(t))

(* Mutated form: the right half keeps the base of the whole slice.            *)
RightWithOldBase(t) ==
    Task(Middle(t), t.hi, t.rowBase, t.rowFrom + RowSplit(t), t.rowTo,
         t.gridBase, t.gridFrom + GridSplit(t), t.gridTo)

(* Mutated form: both halves are given the whole slice.                       *)
RightOverlapping(t) ==
    Task(Middle(t), t.hi, t.rowBase, t.rowFrom, t.rowTo,
         t.gridBase, t.gridFrom, t.gridTo)

Right(t) ==
    Task(Middle(t), t.hi, RowStart[Middle(t)], t.rowFrom + RowSplit(t), t.rowTo,
         Middle(t), t.gridFrom + GridSplit(t), t.gridTo)

Fork(t) ==
    /\ pc = "images" /\ t.hi - t.lo > 1
    /\ tasks' = (tasks \ {t}) \cup {Left(t), Right(t)}
    /\ UNCHANGED <<identity, dest, pc, text, pixels, grids, video, groups,
                   videoPixels, videoGrids>>

Rows(i) == RowStart[i + 1] - RowStart[i]

(* The cell of the next row of a one-image task.                              *)
NextCell(t) == t.rowFrom + (RowStart[t.lo] - t.rowBase) + t.done

GridCell(t) == t.gridFrom + (t.lo - t.gridBase)

WriteRow(t) ==
    /\ pc = "images" /\ t.hi - t.lo = 1 /\ t.done < Rows(t.lo)
    /\ pixels' = [pixels EXCEPT ![NextCell(t)] = t.lo]
    /\ tasks' = (tasks \ {t}) \cup {[t EXCEPT !.done = @ + 1]}
    /\ UNCHANGED <<identity, dest, pc, text, grids, video, groups, videoPixels,
                   videoGrids>>

(* Mutated form: the serial loop ends after its first image.                  *)
NoSuccessors(t) == {}

(* The serial loop goes on to the next image; a forked task joins.            *)
Successors(t) ==
    IF ~Forks /\ t.hi < Images THEN {WholeSlice(t.hi, t.hi + 1)} ELSE {}

WriteGrid(t) ==
    /\ pc = "images" /\ t.hi - t.lo = 1 /\ t.done = Rows(t.lo)
    /\ grids' = [grids EXCEPT ![GridCell(t)] = t.lo]
    /\ tasks' = (tasks \ {t}) \cup Successors(t)
    /\ UNCHANGED <<identity, dest, pc, text, pixels, video, groups, videoPixels,
                   videoGrids>>

-------------------------------------------------------------------------------
(* Videos are written one after another; the temporal groups of one video are *)
(* written in any order by the pool, or in order when serial.                 *)

GroupsOf(v) == VideoRowStart[v]..(VideoRowStart[v + 1] - 1)

GroupsFrom(v) == IF v < Videos THEN GroupsOf(v) ELSE {}

(* Mutated form: the join is not awaited.                                     *)
ImagesJoinedEarly ==
    \A t \in tasks : t.hi - t.lo = 1

ImagesJoined == tasks = {}

JoinImages ==
    /\ pc = "images" /\ ImagesJoined
    /\ pc' = "videos"
    /\ groups' = GroupsFrom(0)
    /\ UNCHANGED <<identity, dest, text, pixels, grids, tasks, video,
                   videoPixels, videoGrids>>

WriteGroup(g) ==
    /\ pc = "videos" /\ g \in groups
    /\ Parallel \/ \A h \in groups : g <= h
    /\ videoPixels' = [videoPixels EXCEPT ![g] = video]
    /\ groups' = groups \ {g}
    /\ UNCHANGED <<identity, dest, pc, text, pixels, grids, tasks, video,
                   videoGrids>>

WriteVideoGrid ==
    /\ pc = "videos" /\ video < Videos /\ groups = {}
    /\ videoGrids' = [videoGrids EXCEPT ![video] = video]
    /\ video' = video + 1
    /\ groups' = GroupsFrom(video + 1)
    /\ UNCHANGED <<identity, dest, pc, text, pixels, grids, tasks, videoPixels>>

Return ==
    /\ pc = "videos" /\ video = Videos
    /\ pc' = "done"
    /\ UNCHANGED <<identity, dest, text, pixels, grids, tasks, video, groups,
                   videoPixels, videoGrids>>

Step ==
    \/ CheckIdentity \/ CheckDestinations \/ WriteText
    \/ \E t \in tasks : Fork(t) \/ WriteRow(t) \/ WriteGrid(t)
    \/ JoinImages \/ (\E g \in groups : WriteGroup(g)) \/ WriteVideoGrid
    \/ Return

Finished == pc \in {"done", "failed"} /\ UNCHANGED vars

Next == Step \/ Finished

Spec == Init /\ [][Next]_vars

FairSpec == Spec /\ WF_vars(Step)

-------------------------------------------------------------------------------
Tasks ==
    [lo : Nat, hi : Nat, rowBase : Nat, rowFrom : Nat, rowTo : Nat,
     gridBase : Nat, gridFrom : Nat, gridTo : Nat, done : Nat]

TypeOK ==
    /\ identity \in BOOLEAN
    /\ dest \in Destinations
    /\ pc \in {"identity", "destinations", "text", "images", "videos", "done",
              "failed"}
    /\ \A o \in TextOutputs : text[o] \in [Cells(o) -> {Stale, 0}]
    /\ pixels \in [Cells("pixel_values") -> {Stale} \cup 0..(Images - 1)]
    /\ grids \in [Cells("image_grid_thw") -> {Stale} \cup 0..(Images - 1)]
    /\ tasks \subseteq Tasks
    /\ video \in 0..Videos
    /\ groups \subseteq 0..(VideoRowCount - 1)
    /\ videoPixels \in
          [Cells("pixel_values_videos") -> {Stale} \cup 0..(Videos - 1)]
    /\ videoGrids \in
          [Cells("video_grid_thw") -> {Stale} \cup 0..(Videos - 1)]

(* Every index arithmetic of the writers stays within its slice: bases are    *)
(* never above what is addressed, and a slice holds the rows and grid rows of *)
(* all its images ("all code after that boundary is infallible",              *)
(* execute_plan_into).                                                        *)
SlicesHoldTheirImages ==
    \A t \in tasks :
        /\ t.lo < t.hi /\ t.hi <= Images
        /\ t.rowBase <= RowStart[t.lo] /\ t.gridBase <= t.lo
        /\ t.rowFrom + (RowStart[t.hi] - t.rowBase) <= t.rowTo
        /\ t.gridFrom + (t.hi - t.gridBase) <= t.gridTo
        /\ t.rowTo <= dest["pixel_values"].length
        /\ t.gridTo <= dest["image_grid_thw"].length
        /\ t.done <= Rows(t.lo)

(* Concurrent writers never own a common cell, and the cell each one writes   *)
(* next is one of its own image's rows in the caller's array, whatever bases  *)
(* and splits led to it (execute_patchify_images_parallel).                   *)
WritersNeverShareCells ==
    /\ \A t, u \in tasks :
          t # u => /\ t.rowTo <= u.rowFrom \/ u.rowTo <= t.rowFrom
                   /\ t.gridTo <= u.gridFrom \/ u.gridTo <= t.gridFrom
    /\ \A t \in tasks :
          t.hi - t.lo = 1 =>
              /\ NextCell(t) = RowStart[t.lo] + t.done
              /\ GridCell(t) = t.lo

(* A refused call has written nothing, in any of the seven destinations.      *)
RefusedCallsWriteNothing ==
    pc = "failed" =>
        /\ \A o \in TextOutputs : \A c \in Cells(o) : text[o][c] = Stale
        /\ \A c \in Cells("pixel_values") : pixels[c] = Stale
        /\ \A c \in Cells("image_grid_thw") : grids[c] = Stale
        /\ \A c \in Cells("pixel_values_videos") : videoPixels[c] = Stale
        /\ \A c \in Cells("video_grid_thw") : videoGrids[c] = Stale

(* When the call returns a view, every planned image row and grid row holds   *)
(* its own image and the surplus of an oversized destination is untouched.    *)
CompletedCallsFillTheImages ==
    pc = "done" =>
        /\ \A i \in 0..(Images - 1) :
              /\ \A c \in RowStart[i]..(RowStart[i + 1] - 1) : pixels[c] = i
              /\ grids[i] = i
        /\ \A c \in Cells("pixel_values") : c >= RowCount => pixels[c] = Stale
        /\ \A c \in Cells("image_grid_thw") : c >= Images => grids[c] = Stale

(* The caller sees the destinations again when the call is over.              *)
Over == pc \in {"done", "failed"}

Contents ==
    [o \in Outputs |->
        CASE o \in TextOutputs -> text[o]
          [] o = "pixel_values" -> pixels
          [] o = "image_grid_thw" -> grids
          [] o = "pixel_values_videos" -> videoPixels
          [] o = "video_grid_thw" -> videoGrids]

Lent == [o \in Outputs |-> [c \in Cells(o) |-> Stale]]

Contract == INSTANCE DestinationContract WITH
    acceptable <- identity /\ \A o \in Outputs : Accepts(o),
    cells <- IF Over THEN Contents ELSE Lent,
    outcome <- CASE pc = "done" -> "filled"
                 [] pc = "failed" -> "refused"
                 [] OTHER -> "lent"

(* Execution is all or nothing: it refuses or fills, and always returns.      *)
AllOrNothing == Contract!Spec
==============================================================================
