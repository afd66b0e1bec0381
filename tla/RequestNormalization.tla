------------------------- MODULE RequestNormalization -------------------------
(* _media.py and _video.py: the requests of a batch are brought into the      *)
(* native form.  Images and videos written inline are appended to the ones    *)
(* supplied beside the messages and the items renumbered; a supplied video is *)
(* decoded once for every set of options it is used with.  All sources are    *)
(* read through one MediaReading budget.  The native binding then checks the  *)
(* references it is given.                                                    *)
EXTENDS MediaReading, VideoSampling

CONSTANTS
    Batches,      \* sequences of requests
    Backends      \* the video decoders that can be imported

ASSUME BackendsAssumption == Backends \subseteq {"torchcodec", "pyav"}

SourceOptions == {"fps", "nframes", "min_frames", "max_frames",
                  "video_start", "video_end"}
FileForms == {"file", "decoder"}

IsVideo(video) ==
    /\ video.form \in {"file", "decoder", "list", "array"}
    /\ video.form = "file" => video.source \in Sources
    /\ video.form \in FileForms => video.total \in Nat /\ video.fps \in Nat
    /\ video.form = "list" => video.frames \in Seq(Sources)
    /\ video.fault \in {"none", "shape", "pixels", "content"}

IsOptions(options) ==
    \A key \in DOMAIN options \cap SourceOptions : options[key] \in Nat

IsItem(item) ==
    /\ item.kind = "image" => item.source \in Sources
    /\ item.kind = "video" => IsVideo(item.video)
    /\ item.kind \in {"video", "videoRef"} => IsOptions(item.options)
    /\ item.kind \in {"imageRef", "videoRef"} => item.index \in Nat

IsListOf(list, Is(_)) ==
    /\ Len(list) \in Nat /\ DOMAIN list = 1..Len(list)
    /\ \A i \in 1..Len(list) : Is(list[i])

IsRequest(request) ==
    /\ request.form \in {"dict", "other"}
    /\ request.form = "dict" =>
        /\ request.images \in Seq(Sources)
        /\ IsListOf(request.videos, IsVideo)
        /\ IsListOf(request.items, IsItem)

ASSUME BatchesAssumption == \A batch \in Batches : IsListOf(batch, IsRequest)

VARIABLES
    requests,     \* the batch, never written
    stage,        \* "request", "supplied", "content", "frames" or "decode"
    at,           \* the supplied image, or the content item, being handled
    frame,        \* the frame of a list of frames being loaded
    images,       \* where each image came from
    videos,       \* where each video came from, its options and its frames
    cache,        \* video_cache: (index, options) to a position of videos
    items,        \* normalized_content
    prepared      \* the requests normalized so far

requestVars == <<requests, stage, at, frame, images, videos, cache, items, prepared>>
vars == <<requests, stage, at, frame, images, videos, cache, items, prepared,
          source, phase, total, held, limit, answer>>

Malformed == "InvalidRequest"
Prepared == "Prepared"

Current == requests[Len(prepared) + 1]
Item == Current.items[at]
Within == Len(prepared) < Len(requests)

(* The video an item is about, and where it was written.                      *)
VideoOf == IF Item.kind = "videoRef" THEN Current.videos[Item.index + 1] ELSE Item.video
PlaceOf == IF Item.kind = "videoRef" THEN [from |-> "supplied", place |-> Item.index + 1]
           ELSE [from |-> "item", place |-> at]

-------------------------------------------------------------------------------
Init ==
    /\ ReadingInit
    /\ requests \in Batches
    /\ stage = "request" /\ at = 1 /\ frame = 1
    /\ images = <<>> /\ videos = <<>> /\ items = <<>>
    /\ cache = <<>>
    /\ prepared = <<>>

Refuse(with) == Stop(with) /\ UNCHANGED <<source, budget>> /\ UNCHANGED requestVars

(* What is not a dictionary with lists in it is left for the binding to refuse. *)
PassThrough ==
    /\ phase = "idle" /\ stage = "request" /\ Within /\ Current.form = "other"
    /\ prepared' = Append(prepared, [form |-> "other"])
    /\ UNCHANGED readingVars
    /\ UNCHANGED <<requests, stage, at, frame, images, videos, cache, items>>

BeginRequest ==
    /\ phase = "idle" /\ stage = "request" /\ Within /\ Current.form = "dict"
    /\ stage' = "supplied"
    /\ at' = 1 /\ images' = <<>> /\ videos' = <<>> /\ items' = <<>> /\ cache' = <<>>
    /\ UNCHANGED readingVars
    /\ UNCHANGED <<requests, frame, prepared>>

-------------------------------------------------------------------------------
(* Images                                                                     *)

LoadSupplied ==
    /\ stage = "supplied" /\ at <= Len(Current.images)
    /\ Load(Current.images[at])
    /\ UNCHANGED requestVars

KeepSupplied ==
    /\ stage = "supplied" /\ Take
    /\ images' = Append(images, [from |-> "supplied", place |-> at])
    /\ at' = at + 1
    /\ UNCHANGED <<requests, stage, frame, videos, cache, items, prepared>>

BeginContent ==
    /\ phase = "idle" /\ stage = "supplied" /\ at > Len(Current.images)
    /\ stage' = "content" /\ at' = 1
    /\ UNCHANGED readingVars
    /\ UNCHANGED <<requests, frame, images, videos, cache, items, prepared>>

AtItem(kinds) == stage = "content" /\ at <= Len(Current.items) /\ Item.kind \in kinds

NextItem(normalized) == items' = Append(items, normalized) /\ at' = at + 1

KeepText ==
    /\ phase = "idle" /\ AtItem({"text"})
    /\ NextItem([kind |-> "text"])
    /\ UNCHANGED readingVars
    /\ UNCHANGED <<requests, stage, frame, images, videos, cache, prepared>>

(* An image_url without a url; a video without one source, with its options   *)
(* given twice or with options nobody knows.                                  *)
RefuseMalformed ==
    /\ phase = "idle" /\ AtItem({"malformed"})
    /\ Refuse(Malformed)

(* A position is handed on as it is, without a look at the images.            *)
KeepPosition ==
    /\ phase = "idle" /\ AtItem({"imageRef"})
    /\ NextItem([kind |-> "image", index |-> Item.index])
    /\ UNCHANGED readingVars
    /\ UNCHANGED <<requests, stage, frame, images, videos, cache, prepared>>

LoadInline ==
    /\ AtItem({"image"})
    /\ Load(Item.source)
    /\ UNCHANGED requestVars

KeepInline ==
    /\ AtItem({"image"}) /\ Take
    /\ images' = Append(images, [from |-> "item", place |-> at])
    /\ NextItem([kind |-> "image", index |-> Len(images)])
    /\ UNCHANGED <<requests, stage, frame, videos, cache, prepared>>

-------------------------------------------------------------------------------
(* Videos                                                                     *)

CacheKey == <<Item.index, Item.options>>
Cached == Item.kind = "videoRef" /\ CacheKey \in DOMAIN cache

InRange == Item.kind = "videoRef" => Item.index < Len(Current.videos)

(* normalize_video looks at the options before it looks at the video.         *)
OptionError(options) ==
    CASE Given("fps", options) /\ Given("nframes", options) -> InvalidOptions
      [] OTHER ->
         IF OptionOr(options, "video_backend", "auto") \notin {"auto", "pyav", "torchcodec"}
         THEN InvalidOptions
         ELSE IF NotPositive({"fps"}, options) THEN GeometryError ELSE "None"

(* A video that is not read: the list is empty or too long.                   *)
ListError(list) ==
    IF Len(list) = 0 THEN GeometryError
    ELSE IF Len(list) > MaxRawFrames THEN FrameBreach ELSE "None"

EntryError ==
    IF ~InRange THEN Malformed
    ELSE IF OptionError(Item.options) # "None" THEN OptionError(Item.options)
    ELSE IF VideoOf.form = "list" THEN ListError(VideoOf.frames) ELSE "None"

RefuseVideo ==
    /\ phase = "idle" /\ AtItem({"video", "videoRef"}) /\ ~Cached
    /\ EntryError # "None"
    /\ Refuse(EntryError)

ReuseVideo ==
    /\ phase = "idle" /\ AtItem({"videoRef"}) /\ Cached
    /\ NextItem([kind |-> "video", index |-> cache[CacheKey] - 1])
    /\ UNCHANGED readingVars
    /\ UNCHANGED <<requests, stage, frame, images, videos, cache, prepared>>

(* A file is read whole, a list frame by frame, anything else not at all.     *)
OpenVideo ==
    /\ phase = "idle" /\ AtItem({"video", "videoRef"}) /\ ~Cached
    /\ EntryError = "None"
    /\ stage' = IF VideoOf.form = "list" THEN "frames" ELSE "decode"
    /\ frame' = 1
    /\ IF VideoOf.form = "file" THEN Load(VideoOf.source) ELSE UNCHANGED readingVars
    /\ UNCHANGED <<requests, at, images, videos, cache, items, prepared>>

(* What a decoder or a conversion may answer besides frames.                  *)
ContentErrors(fault) ==
    CASE fault = "none" -> {}
      [] fault = "shape" -> {GeometryError}
      [] fault = "pixels" -> {"decoded_edge_length", "decoded_pixels_per_image_or_frame"}
      [] fault = "content" -> {"MediaDecode", "UnsupportedMedia"}

LoadFrame ==
    /\ stage = "frames" /\ frame <= Len(VideoOf.frames)
    /\ Load(VideoOf.frames[frame])
    /\ UNCHANGED requestVars

(* A frame is converted as soon as it is read.                                *)
FailFrame ==
    /\ stage = "frames" /\ phase = "loaded"
    /\ \E failure \in ContentErrors(VideoOf.fault) : Refuse(failure)

KeepFrame ==
    /\ stage = "frames" /\ ContentErrors(VideoOf.fault) = {} /\ Take
    /\ frame' = frame + 1
    /\ stage' = IF frame = Len(VideoOf.frames) THEN "decode" ELSE stage
    /\ UNCHANGED <<requests, at, images, videos, cache, items, prepared>>

(* A decoder that can be imported is used; its failure is not a reason to try *)
(* the other one.                                                             *)
BackendError(options) ==
    LET backend == OptionOr(options, "video_backend", "auto")
    IN  IF backend = "torchcodec" /\ "torchcodec" \notin Backends THEN "UnsupportedMedia"
        ELSE IF \/ backend # "pyav" /\ "torchcodec" \in Backends
                \/ "pyav" \in Backends
             THEN "None" ELSE "UnsupportedMedia"

(* Sampling a clip that is already sampled is refused after it is converted.  *)
ClipErrors(video, options) ==
    IF ContentErrors(video.fault) # {} THEN ContentErrors(video.fault)
    ELSE IF DOMAIN options \cap SourceOptions # {} THEN {InvalidOptions} ELSE {}

(* The indices are chosen, and their number checked, before a frame is        *)
(* decoded.                                                                   *)
FileErrors(video, options) ==
    LET sampling == SamplingError(video.total, video.fps, options)
    IN  IF video.form = "file" /\ BackendError(options) # "None" THEN {BackendError(options)}
        ELSE IF sampling # "None" THEN {sampling}
        ELSE ContentErrors(video.fault)

DecodeErrors ==
    IF VideoOf.form \in FileForms THEN FileErrors(VideoOf, Item.options)
    ELSE ClipErrors(VideoOf, Item.options)

Decoded == stage = "decode" /\ phase = IF VideoOf.form = "file" THEN "loaded" ELSE "idle"

FailToDecode ==
    /\ Decoded
    /\ \E failure \in DecodeErrors : Refuse(failure)

InOrder(n) == [i \in 1..n |-> i - 1]

Frames ==
    IF VideoOf.form \in FileForms
    THEN SampleIndices(VideoOf.total, VideoOf.fps, Item.options)
    ELSE InOrder(IF VideoOf.form = "list" THEN Len(VideoOf.frames) ELSE VideoOf.total)

DecodedVideo ==
    [from |-> PlaceOf.from, place |-> PlaceOf.place, options |-> Item.options,
     indices |-> Frames]

Remember(keys, position) ==
    [key \in DOMAIN cache \cup keys |-> IF key \in keys THEN position ELSE cache[key]]

(* Mutated form: the cache forgets the options a video was decoded with.      *)
KeepVideoByIndex ==
    /\ Decoded /\ DecodeErrors = {}
    /\ videos' = Append(videos, DecodedVideo)
    /\ NextItem([kind |-> "video", index |-> Len(videos)])
    /\ stage' = "content"
    /\ cache' = IF Item.kind # "videoRef" THEN cache
                ELSE Remember({Item.index} \X {Current.items[j].options :
                                   j \in {k \in DOMAIN Current.items :
                                          Current.items[k].kind = "videoRef"}},
                              Len(videos) + 1)
    /\ phase' = "idle"
    /\ UNCHANGED <<source, total, held, limit, answer>>
    /\ UNCHANGED <<requests, frame, images, prepared>>

KeepVideo ==
    /\ Decoded /\ DecodeErrors = {}
    /\ videos' = Append(videos, DecodedVideo)
    /\ NextItem([kind |-> "video", index |-> Len(videos)])
    /\ stage' = "content"
    /\ cache' = IF Item.kind = "videoRef"
                THEN Remember({CacheKey}, Len(videos) + 1) ELSE cache
    /\ phase' = "idle"
    /\ UNCHANGED <<source, total, held, limit, answer>>
    /\ UNCHANGED <<requests, frame, images, prepared>>

-------------------------------------------------------------------------------
(* The end of a request and of the batch                                      *)

ReferencedVideos ==
    {Current.items[i].index + 1 : i \in {j \in DOMAIN Current.items :
                                         Current.items[j].kind = "videoRef"}}

AtEnd == phase = "idle" /\ stage = "content" /\ at > Len(Current.items)

RefuseUnreferenced ==
    /\ AtEnd
    /\ ReferencedVideos # DOMAIN Current.videos
    /\ Refuse(Malformed)

CloseRequest ==
    /\ AtEnd
    /\ ReferencedVideos = DOMAIN Current.videos
    /\ prepared' = Append(prepared, [form |-> "dict", images |-> images,
                                     videos |-> videos, items |-> items])
    /\ stage' = "request"
    /\ UNCHANGED readingVars
    /\ UNCHANGED <<requests, at, frame, images, videos, cache, items>>

(* The binding: a reference outside the images is refused, and so is an image *)
(* or a video that no item refers to.                                         *)
Referenced(request, kind) ==
    {item.index + 1 : item \in {request.items[i] : i \in DOMAIN request.items}
                               \cap {[kind |-> kind, index |-> n] : n \in 0..9}}

NativelyValid(request) ==
    /\ request.form = "dict"
    /\ Referenced(request, "image") = DOMAIN request.images
    /\ Referenced(request, "video") = DOMAIN request.videos

Submit ==
    /\ phase = "idle" /\ stage = "request" /\ ~Within
    /\ Stop(IF \A i \in DOMAIN prepared : NativelyValid(prepared[i])
            THEN Prepared ELSE Malformed)
    /\ UNCHANGED <<source, budget>>
    /\ UNCHANGED requestVars

Step ==
    \/ ReadStep /\ UNCHANGED requestVars
    \/ PassThrough \/ BeginRequest
    \/ LoadSupplied \/ KeepSupplied \/ BeginContent
    \/ KeepText \/ RefuseMalformed \/ KeepPosition \/ LoadInline \/ KeepInline
    \/ RefuseVideo \/ ReuseVideo \/ OpenVideo \/ LoadFrame \/ KeepFrame \/ FailFrame
    \/ FailToDecode \/ KeepVideo
    \/ RefuseUnreferenced \/ CloseRequest \/ Submit

Answered == phase = "done" /\ UNCHANGED vars

Next == Step \/ Answered

Spec == Init /\ [][Next]_vars
FairSpec == Spec /\ WF_vars(Step)

-------------------------------------------------------------------------------
(* Properties                                                                 *)

Answers ==
    Breaches \cup {Pending, Prepared, Malformed, "UnsupportedMedia", "MediaDecode",
                   GeometryError, FrameBreach, "decoded_edge_length",
                   "decoded_pixels_per_image_or_frame"}

TypeOK ==
    /\ ReadingTypeOK
    /\ stage \in {"request", "supplied", "content", "frames", "decode"}
    /\ at \in Nat /\ frame \in Nat
    /\ Len(prepared) <= Len(requests)
    /\ \A i \in DOMAIN images : images[i].from \in {"supplied", "item"}
    /\ \A i \in DOMAIN videos : videos[i].from \in {"supplied", "item"}
    /\ \A key \in DOMAIN cache : cache[key] \in DOMAIN videos
    /\ answer \in Answers

(* Every content item of a normalized request names the medium the caller     *)
(* wrote there: an inline image or video the one of that item, a position the *)
(* supplied one, a video with the options of the item; and no supplied video  *)
(* is decoded twice with the same options.                                    *)
NamesItsMedium(original, normalized, i) ==
    LET item == original.items[i]
        named == normalized.items[i]
    IN  CASE item.kind = "image" ->
                normalized.images[named.index + 1] = [from |-> "item", place |-> i]
          [] item.kind = "imageRef" ->
                item.index < Len(original.images) =>
                    normalized.images[named.index + 1]
                        = [from |-> "supplied", place |-> item.index + 1]
          [] item.kind \in {"video", "videoRef"} ->
                LET video == normalized.videos[named.index + 1]
                IN  /\ video.options = item.options
                    /\ IF item.kind = "video"
                       THEN video.from = "item" /\ video.place = i
                       ELSE video.from = "supplied" /\ video.place = item.index + 1
          [] OTHER -> named.kind = "text"

ItemsNameTheirMedia ==
    \A r \in DOMAIN prepared :
        prepared[r].form = "dict" =>
            /\ Len(prepared[r].items) = Len(requests[r].items)
            /\ \A i \in DOMAIN prepared[r].items :
                   NamesItsMedium(requests[r], prepared[r], i)
            /\ \A i, j \in DOMAIN prepared[r].videos :
                   prepared[r].videos[i] = prepared[r].videos[j] => i = j

(* The bytes of a medium as the budget knows them.                            *)
Charge(s) ==
    CASE s.kind \in Uncharged -> 0
      [] s.kind = "videoPath" -> CHOOSE n \in s.announced : TRUE
      [] OTHER -> s.size

SumOf(sizes) ==
    LET sum[n \in 0..Len(sizes)] == IF n = 0 THEN 0 ELSE sum[n - 1] + sizes[n]
    IN  sum[Len(sizes)]

VideoBytes(video) ==
    CASE video.form = "file" -> Charge(video.source)
      [] video.form = "list" -> SumOf([i \in DOMAIN video.frames |-> Charge(video.frames[i])])
      [] OTHER -> 0

ImagesBytes(original, kept) ==
    SumOf([i \in DOMAIN kept |->
              Charge(IF kept[i].from = "supplied" THEN original.images[kept[i].place]
                     ELSE original.items[kept[i].place].source)])

VideosBytes(original, kept) ==
    SumOf([i \in DOMAIN kept |->
              VideoBytes(IF kept[i].from = "supplied" THEN original.videos[kept[i].place]
                         ELSE original.items[kept[i].place].video)])

KeptBytes(original, normalized) ==
    IF normalized.form = "other" THEN 0
    ELSE ImagesBytes(original, normalized.images) + VideosBytes(original, normalized.videos)

(* When a request is closed, the budget of the batch has been charged with    *)
(* the encoded bytes of the media that were kept, each once: not with what    *)
(* was announced, and a video that is reused not again.                       *)
BudgetIsWhatIsKept ==
    stage = "request" =>
        total = SumOf([r \in DOMAIN prepared |-> KeptBytes(requests[r], prepared[r])])

(* The frames decoded of a file are distinct, in order, within the clip and   *)
(* its ends, and even in number.                                              *)
SampledFramesSpanTheClip ==
    \A i \in DOMAIN videos :
        LET video == IF videos[i].from = "supplied" THEN Current.videos[videos[i].place]
                     ELSE Current.items[videos[i].place].video
        IN  stage # "request" /\ video.form \in FileForms =>
                SpansTheClip(videos[i].indices, video.total, video.fps, videos[i].options)

(* Every batch is answered, also when a server never ends its stream: a chunk *)
(* has at least one byte and the limits are finite.                           *)
EveryBatchIsAnswered == <>(phase = "done")

(* README.md: an item holds an integer position in the request's separate     *)
(* images list.                                                               *)
PositionsNameSuppliedImages ==
    answer = Prepared =>
        \A r \in DOMAIN requests : \A i \in DOMAIN requests[r].items :
            requests[r].items[i].kind = "imageRef" =>
                requests[r].items[i].index < Len(requests[r].images)
===============================================================================
