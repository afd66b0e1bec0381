------------------------------ MODULE BindingCall ------------------------------
(* One prepare_batch call of the native module, from the caller's lists to    *)
(* the arrays and their metadata (input.rs, lib.rs, output.rs).  The lists    *)
(* are read more than once: for their lengths, for the sizes the limits are   *)
(* checked on, and for the copies.  Reading a buffer or a number may run the  *)
(* caller's code, and other threads with it, so they may have changed in      *)
(* between.  The core is given the copies and checks everything again.        *)
EXTENDS TextRanges

LOCAL INSTANCE SequencesExt
LOCAL INSTANCE FiniteSetsExt

CONSTANTS
    Calls,        \* batches: per request its content, images and videos
    NewImages,    \* what the caller may put into a list of images
    NewVideos,    \* what the caller may put into a list of videos
    Sides,        \* padding sides asked for
    MaxWrites,    \* bound: changes the caller makes during the call
    ItemLimit,    \* encoded_bytes_per_item
    BatchLimit,   \* encoded_bytes_per_batch
    PixelLimit,   \* decoded_source_pixels
    FrameLimit,   \* raw_frames_per_video
    TokenLimit    \* rendered_tokens_per_batch

ASSUME LimitsAssumption ==
    {ItemLimit, BatchLimit, PixelLimit, FrameLimit, TokenLimit, MaxWrites} \subseteq Nat
ASSUME SidesAssumption == Sides \subseteq {"left", "right"}

VARIABLES
    content,      \* the messages, copied when the structure is read
    lists,        \* the caller's lists of images and videos
    writes,       \* changes made to them so far
    side,         \* padding_side
    stage,        \* what is read next
    at,           \* the request and the place in its list being read
    length,       \* the length of that list when its loop began
    charged,      \* batch_encoded_bytes of the preflight
    owned,        \* the copies
    plan,         \* per request its tokens and the ranges of its media
    rows,         \* input_ids, attention_mask, mm_token_type_ids
    answer        \* "none", an error category, or "Prepared"

reading == <<content, side>>
made == <<owned, plan, rows>>
vars == <<content, lists, writes, side, stage, at, length, charged, owned, plan,
          rows, answer>>

Requests == DOMAIN content
Total(f(_), s) == MapThenSumSet(LAMBDA k : f(s[k]), DOMAIN s)
Bytes(image) == IF image.form = "encoded" THEN image.size ELSE 0

Begin(next, request, list) == stage' = next /\ at' = <<request, 1>> /\ length' = Len(list)

Answer(with) ==
    /\ stage' = "answered" /\ answer' = with
    /\ UNCHANGED <<lists, writes, at, length, charged>> /\ UNCHANGED reading

Refuse(with) == Answer(with) /\ UNCHANGED made

-------------------------------------------------------------------------------
(* References and limits, on the caller's lists and on the copies             *)

ReferencesHold(items, media) ==
    LET Used(kind) == {item.index : item \in {i \in Range(items) : i.kind = kind}} IN
    /\ Used("image") = 1..Len(media.images)
    /\ Used("video") = 1..Len(media.videos)

ImageFits(image) ==
    image.size <= IF image.form = "encoded" THEN ItemLimit ELSE PixelLimit

VideoFits(video) == video.frames <= FrameLimit

MediaFit(batch) ==
    /\ \A r \in DOMAIN batch : /\ \A k \in DOMAIN batch[r].images : ImageFits(batch[r].images[k])
                               /\ \A k \in DOMAIN batch[r].videos : VideoFits(batch[r].videos[k])
    /\ Total(LAMBDA media : Total(Bytes, media.images), batch) <= BatchLimit

(* Mutated form: the sizes the preflight saw are taken for those of the copies. *)
PreflightTrusted(batch) == TRUE

CopiesFit(batch) == MediaFit(batch)

-------------------------------------------------------------------------------
(* The caller                                                                 *)

WithoutLast(s) == SubSeq(s, 1, Len(s) - 1)

Changes(list, new) ==
    {[list EXCEPT ![k] = value] : k \in DOMAIN list, value \in new}
    \cup {Append(list, value) : value \in new}
    \cup (IF list = <<>> THEN {} ELSE {WithoutLast(list)})

CallerWrites ==
    /\ stage # "answered" /\ writes < MaxWrites
    /\ writes' = writes + 1
    /\ \E r \in Requests :
         \/ \E changed \in Changes(lists[r].images, NewImages) :
              lists' = [lists EXCEPT ![r].images = changed]
         \/ \E changed \in Changes(lists[r].videos, NewVideos) :
              lists' = [lists EXCEPT ![r].videos = changed]
    /\ UNCHANGED <<stage, at, length, charged, answer>>
    /\ UNCHANGED reading /\ UNCHANGED made

-------------------------------------------------------------------------------
(* Parsing, with the interpreter attached                                     *)

Init ==
    \E call \in Calls :
        /\ content = [r \in DOMAIN call |-> call[r].content]
        /\ lists = [r \in DOMAIN call |->
                      [images |-> call[r].images, videos |-> call[r].videos]]
        /\ side \in Sides
        /\ writes = 0 /\ stage = "references"
        /\ at = <<1, 1>> /\ length = 0 /\ charged = 0
        /\ owned = [r \in DOMAIN call |-> [images |-> <<>>, videos |-> <<>>]]
        /\ plan = <<>> /\ rows = <<>>
        /\ answer = "none"

(* The loop over the requests runs none of the caller's code.                 *)
CheckReferences ==
    /\ stage = "references"
    /\ IF \A r \in Requests : ReferencesHold(content[r], lists[r])
       THEN /\ Begin("preflight", 1, lists[1].images)
            /\ UNCHANGED <<lists, writes, charged, answer>>
            /\ UNCHANGED reading /\ UNCHANGED made
       ELSE Refuse("InvalidRequest")

(* A loop ends at the length the list had, or has if that is less.            *)
InList(list) == at[2] <= Min({length, Len(list)})

PreflightImage ==
    /\ stage = "preflight" /\ InList(lists[at[1]].images)
    /\ LET image == lists[at[1]].images[at[2]] IN
       IF ImageFits(image)
       THEN /\ charged' = charged + Bytes(image)
            /\ at' = <<at[1], at[2] + 1>>
            /\ UNCHANGED <<lists, writes, stage, length, answer>>
            /\ UNCHANGED reading /\ UNCHANGED made
       ELSE Refuse("ResourceLimit")

(* The videos of a request are looked at without running the caller's code.   *)
PreflightVideos ==
    /\ stage = "preflight" /\ ~ InList(lists[at[1]].images)
    /\ LET r == at[1]
           fit == \A k \in DOMAIN lists[r].videos : VideoFits(lists[r].videos[k]) IN
       IF ~ fit \/ (r = Len(content) /\ charged > BatchLimit)
       THEN Refuse("ResourceLimit")
       ELSE /\ IF r < Len(content)
               THEN Begin("preflight", r + 1, lists[r + 1].images)
               ELSE Begin("copyImages", 1, lists[1].images)
            /\ UNCHANGED <<lists, writes, charged, answer>>
            /\ UNCHANGED reading /\ UNCHANGED made

CopyImage ==
    /\ stage = "copyImages" /\ InList(lists[at[1]].images)
    /\ owned' = [owned EXCEPT ![at[1]].images = Append(@, lists[at[1]].images[at[2]])]
    /\ at' = <<at[1], at[2] + 1>>
    /\ UNCHANGED <<lists, writes, stage, length, charged, plan, rows, answer>>
    /\ UNCHANGED reading

EndImages ==
    /\ stage = "copyImages" /\ ~ InList(lists[at[1]].images)
    /\ Begin("copyVideos", at[1], lists[at[1]].videos)
    /\ UNCHANGED <<lists, writes, charged, answer>> /\ UNCHANGED reading /\ UNCHANGED made

CopyVideo ==
    /\ stage = "copyVideos" /\ InList(lists[at[1]].videos)
    /\ owned' = [owned EXCEPT ![at[1]].videos = Append(@, lists[at[1]].videos[at[2]])]
    /\ at' = <<at[1], at[2] + 1>>
    /\ UNCHANGED <<lists, writes, stage, length, charged, plan, rows, answer>>
    /\ UNCHANGED reading

EndVideos ==
    /\ stage = "copyVideos" /\ ~ InList(lists[at[1]].videos)
    /\ IF at[1] < Len(content)
       THEN Begin("copyImages", at[1] + 1, lists[at[1] + 1].images)
       ELSE stage' = "plan" /\ UNCHANGED <<at, length>>
    /\ UNCHANGED <<lists, writes, charged, answer>> /\ UNCHANGED reading /\ UNCHANGED made

(* A medium whose type or shape is refused, or for which there is no memory:  *)
(* the preflight has not seen what is only looked at when it is copied.       *)
CopyFails ==
    /\ \/ stage = "copyImages" /\ InList(lists[at[1]].images)
       \/ stage = "copyVideos" /\ InList(lists[at[1]].videos)
    /\ \E why \in {"UnsupportedMedia", "MediaGeometry", "MemoryError"} : Refuse(why)

-------------------------------------------------------------------------------
(* Planning and writing, with the interpreter detached                        *)

(* The grid of every medium, in the order of the items that show them.        *)
Visuals(items, media) ==
    LET Grid(item) == IF item.kind = "image"
                      THEN [kind |-> "image", frames |-> 1,
                            tokens |-> media.images[item.index].tokens]
                      ELSE [kind |-> "video",
                            frames |-> (media.videos[item.index].frames + 1) \div 2,
                            tokens |-> media.videos[item.index].tokens]
        visuals == VisualItems(items) IN
    [k \in DOMAIN visuals |-> Grid(visuals[k])]

PlanOf(items, media) ==
    LET visuals == Visuals(items, media)
        prompt == Expanded(items, visuals) IN
    [tokens |-> Encoded(prompt), ranges |-> Located(prompt, Pending(items, visuals))]

TokenCount(planned) == Len(planned.tokens)
Columns == Max({TokenCount(plan[r]) : r \in Requests})

Plan ==
    /\ stage = "plan"
    /\ IF \E r \in Requests : ~ ReferencesHold(content[r], owned[r])
       THEN Refuse("InvalidRequest")
       ELSE IF ~ CopiesFit(owned) THEN Refuse("ResourceLimit")
       ELSE IF \E r \in Requests : ~ MarkersMatch(content[r]) THEN Refuse("InvalidRequest")
       ELSE LET planned == [r \in Requests |-> PlanOf(content[r], owned[r])] IN
            IF \E r \in Requests : NotFound \in Range(planned[r].ranges)
            THEN Refuse("InternalInvariant")
            ELSE IF Total(TokenCount, planned) > TokenLimit THEN Refuse("ResourceLimit")
            ELSE /\ plan' = planned /\ stage' = "write"
                 /\ UNCHANGED <<lists, writes, at, length, charged, owned, rows, answer>>
                 /\ UNCHANGED reading

AllocationFails == stage = "write" /\ Refuse("MemoryError")

Padding(r) == Columns - TokenCount(plan[r])
Modality(type) == CASE type = "image" -> 1 [] type = "video" -> 2 [] OTHER -> 0

(* Every row is written with its padding on the right.                        *)
Write ==
    /\ stage = "write"
    /\ rows' = [r \in Requests |->
         LET types == [k \in DOMAIN plan[r].tokens |-> plan[r].tokens[k].type] IN
         [input_ids |-> types \o Repeat("pad", Padding(r)),
          attention_mask |-> Repeat(1, Len(types)) \o Repeat(0, Padding(r)),
          mm_token_type_ids |-> [k \in DOMAIN types |-> Modality(types[k])]
                                \o Repeat(0, Padding(r))]]
    /\ stage' = "pad"
    /\ UNCHANGED <<lists, writes, at, length, charged, owned, plan, answer>>
    /\ UNCHANGED reading

RotateRight(row, n) == SubSeq(row, Len(row) - n + 1, Len(row)) \o SubSeq(row, 1, Len(row) - n)

(* Mutated form: the row of modalities is left as it was written.             *)
TwoRowsPadded(row, n) ==
    [row EXCEPT !.input_ids = RotateRight(@, n), !.attention_mask = RotateRight(@, n)]

PaddedLeft(row, n) ==
    [input_ids |-> RotateRight(row.input_ids, n),
     attention_mask |-> RotateRight(row.attention_mask, n),
     mm_token_type_ids |-> RotateRight(row.mm_token_type_ids, n)]

(* The token ranges of the metadata stay those of the plan: left_padding says *)
(* how far the row has moved.                                                 *)
ApplyPaddingSide ==
    /\ stage = "pad"
    /\ rows' = IF side = "left" THEN [r \in Requests |-> PaddedLeft(rows[r], Padding(r))]
               ELSE rows
    /\ Answer("Prepared")
    /\ UNCHANGED <<owned, plan>>

LeftPadding(r) == IF side = "left" THEN Padding(r) ELSE 0

-------------------------------------------------------------------------------
Step == \/ CheckReferences \/ PreflightImage \/ PreflightVideos
        \/ CopyImage \/ EndImages \/ CopyVideo \/ EndVideos \/ CopyFails
        \/ Plan \/ AllocationFails \/ Write \/ ApplyPaddingSide

Next == Step \/ CallerWrites

Spec == Init /\ [][Next]_vars

-------------------------------------------------------------------------------
(* A batch is prepared from copies that keep every limit and hold every       *)
(* medium the messages name, whatever the caller did to the lists after their *)
(* lengths and sizes were checked (input.rs:567-762, limits.rs:389-500).      *)
PreparedCopiesAreWithinTheLimits ==
    stage \in {"write", "pad"} \/ answer = "Prepared" =>
        /\ \A r \in Requests :
             /\ ReferencesHold(content[r], owned[r])
             /\ \A k \in DOMAIN owned[r].images :
                  LET image == owned[r].images[k] IN
                  \/ image.form = "encoded" /\ image.size <= ItemLimit
                  \/ image.form = "raw" /\ image.size <= PixelLimit
             /\ \A k \in DOMAIN owned[r].videos : owned[r].videos[k].frames <= FrameLimit
        /\ Total(LAMBDA media : Total(Bytes, media.images), owned) <= BatchLimit

(* Every range the metadata gives, moved by the left padding, holds exactly   *)
(* the tokens of the medium its item names; no other column has a modality,   *)
(* and attention is paid to the columns of the prompt alone.  A batch that    *)
(* passed the checks is never given up because a range cannot be found        *)
(* (text.rs:626-700, output.rs:151-169).                                      *)
MediaStandWhereTheMetadataSays ==
    /\ answer # "InternalInvariant"
    /\ answer = "Prepared" => \A r \in Requests :
         LET row == rows[r]
             left == LeftPadding(r)
             visuals == Visuals(content[r], owned[r])
             ranges == plan[r].ranges
             ColumnsOf(range) == (left + range.start + 1)..(left + range.end)
             covered == UNION {ColumnsOf(ranges[k]) : k \in DOMAIN ranges} IN
         /\ Len(ranges) = Len(visuals)
         /\ \A k \in DOMAIN ranges :
              LET tokens == SubSeq(row.input_ids, left + ranges[k].start + 1,
                                   left + ranges[k].end)
                  own == {c \in ColumnsOf(ranges[k]) :
                            row.mm_token_type_ids[c] = Modality(visuals[k].kind)} IN
              /\ tokens = [t \in DOMAIN Replacement(visuals[k]).tokens |->
                             Replacement(visuals[k]).tokens[t].type]
              /\ Cardinality(own) = visuals[k].frames * visuals[k].tokens
         /\ \A c \in DOMAIN row.mm_token_type_ids \ covered : row.mm_token_type_ids[c] = 0
         /\ \A c \in DOMAIN row.attention_mask :
              row.attention_mask[c] = 1 <=> row.input_ids[c] # "pad"
         /\ {c \in DOMAIN row.attention_mask : row.attention_mask[c] = 1}
              = (left + 1)..(left + TokenCount(plan[r]))
===============================================================================
