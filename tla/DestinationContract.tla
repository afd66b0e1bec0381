------------------------ MODULE DestinationContract ------------------------
(* The promise of executing a plan into lent destinations: the call either    *)
(* refuses and leaves every cell as it was, or fills exactly the planned      *)
(* cells, each for its own occurrence, and leaves the surplus as it was.      *)
(* Nothing else is observable, because the destinations are borrowed for the  *)
(* length of the call.                                                        *)
EXTENDS Integers

CONSTANTS Images, RowStart, Videos, VideoRowStart, TextElements, Stale

VARIABLES
    acceptable,     \* the plan and the destinations fit each other
    cells,          \* the contents of the seven outputs
    outcome         \* lent, refused or filled

contractVars == <<acceptable, cells, outcome>>

TextOutputs == {"input_ids", "attention_mask", "mm_token_type_ids"}

Fresh(content) == \A c \in DOMAIN content : content[c] = Stale

(* Rows laid out by start belong to the occurrence whose range holds them.    *)
FilledRows(content, start, n) ==
    \A c \in DOMAIN content :
        /\ \A i \in 0..(n - 1) :
              start[i] <= c /\ c < start[i + 1] => content[c] = i
        /\ start[n] <= c => content[c] = Stale

FilledGrid(content, n) ==
    \A c \in DOMAIN content : content[c] = IF c < n THEN c ELSE Stale

FilledText(content) ==
    \A c \in DOMAIN content :
        content[c] = IF c < TextElements THEN 0 ELSE Stale

Filled(content) ==
    /\ \A o \in TextOutputs : FilledText(content[o])
    /\ FilledRows(content["pixel_values"], RowStart, Images)
    /\ FilledGrid(content["image_grid_thw"], Images)
    /\ FilledRows(content["pixel_values_videos"], VideoRowStart, Videos)
    /\ FilledGrid(content["video_grid_thw"], Videos)

Init ==
    /\ outcome = "lent"
    /\ \A o \in DOMAIN cells : Fresh(cells[o])

Refuse ==
    /\ outcome = "lent" /\ ~acceptable
    /\ outcome' = "refused"
    /\ UNCHANGED <<acceptable, cells>>

Fill ==
    /\ outcome = "lent" /\ acceptable
    /\ outcome' = "filled"
    /\ Filled(cells')
    /\ UNCHANGED acceptable

Next == Refuse \/ Fill

SafeSpec == Init /\ [][Next]_contractVars

Spec == SafeSpec /\ <>(outcome # "lent")
==============================================================================
