------------------------ MODULE MCRequestNormalization ------------------------
(* Batches in three families: sources of every kind around the two limits,    *)
(* references in every arrangement, and videos of every length and rate with  *)
(* every set of sampling options.                                             *)
EXTENDS RequestNormalization

CONSTANTS Families

From(kind, announced, size, fault) ==
    [kind |-> kind, announced |-> announced, size |-> size, fault |-> fault]

Small == From("buffer", {}, 1, "none")
Array == From("array", {}, 0, "none")

Sizes == {0, 2, 3, 4, 9}

Announcements(kind) ==
    CASE kind = "path" -> {{n} : n \in {0, 3, 4}}
      [] kind = "url" -> {{}, {2}, {4}}
      [] kind = "videoPath" -> {{2}, {3}, {4}}
      [] kind = "dataUri" -> {{}, {2}}
      [] OTHER -> {{}}

Faults(kind) ==
    CASE kind \in {"path", "url", "dataUri"} -> {"none", "open", "read"}
      [] kind \in {"pillow", "videoPath"} -> {"none", "open"}
      [] OTHER -> {"none"}

ImageSources ==
    UNION {{From(kind, announced, size, fault) :
              announced \in Announcements(kind), size \in Sizes, fault \in Faults(kind)} :
           kind \in Kinds \ {"videoPath"}}

FileSources ==
    UNION {{From(kind, announced, size, fault) :
              announced \in Announcements(kind), size \in {2, 9}, fault \in Faults(kind)} :
           kind \in {"videoPath", "buffer", "url"}}

MCSources == ImageSources \cup FileSources \cup {Small, Array}

NoOptions == <<>>
Text == [kind |-> "text"]
Inline(s) == [kind |-> "image", source |-> s]
Position(n) == [kind |-> "imageRef", index |-> n]
VideoItem(video, options) == [kind |-> "video", video |-> video, options |-> options]
VideoPosition(n, options) == [kind |-> "videoRef", index |-> n, options |-> options]

Request(supplied, clips, content) ==
    [form |-> "dict", images |-> supplied, videos |-> clips, items |-> content]

Clip(n) == [form |-> "array", total |-> n, fault |-> "none"]
File(s, n, fps, fault) ==
    [form |-> "file", source |-> s, total |-> n, fps |-> fps, fault |-> fault]
Decoder(n, fps) == [form |-> "decoder", total |-> n, fps |-> fps, fault |-> "none"]
List(sources, fault) == [form |-> "list", frames |-> sources, fault |-> fault]

(* Sources: one or two images, in one request or two, and a video after one.  *)
Budgets ==
    {<<Request(<<>>, <<>>, <<Inline(s)>>)>> : s \in ImageSources}
    \cup {<<Request(<<From("buffer", {}, 3, "none")>>, <<>>, <<Position(0), Inline(s)>>)>> :
          s \in ImageSources}
    \cup {<<Request(<<>>, <<>>, <<Inline(From("path", {3}, 2, "none"))>>),
            Request(<<s>>, <<>>, <<Position(0)>>)>> : s \in ImageSources}
    \cup {<<Request(<<Small>>, <<>>, <<Position(0),
                    VideoItem(File(s, 4, 2, fault), NoOptions)>>)>> :
          s \in FileSources, fault \in {"none", "pixels", "content", "shape"}}
    \cup {<<Request(<<>>, <<>>, <<VideoItem(List(frames, fault), options)>>)>> :
          frames \in {<<>>, <<Small>>} \cup {<<Small, s, Array>> : s \in ImageSources},
          options \in {NoOptions, [fps |-> 2]}, fault \in {"none", "pixels"}}

Fast == [nframes |-> 2]
ItemPool ==
    {Text, [kind |-> "malformed"], Inline(Small), Position(0), Position(1),
     VideoPosition(0, NoOptions), VideoPosition(0, Fast), VideoPosition(1, NoOptions),
     VideoItem(Decoder(4, 2), NoOptions), VideoItem(Clip(3), NoOptions)}

(* References: up to three items over two supplied images and videos.         *)
References ==
    {<<[form |-> "other"]>>, <<Request(<<>>, <<>>, <<Text>>), [form |-> "other"]>>}
    \cup {<<Request(supplied, clips, content)>> :
          supplied \in {<<>>, <<Small>>, <<Small, Array>>},
          clips \in {<<>>, <<Decoder(4, 2)>>, <<Decoder(4, 2), Clip(2)>>},
          content \in UNION {[1..n -> ItemPool] : n \in 0..3}}

OptionSets ==
    {NoOptions, [fps |-> 1, nframes |-> 2], [video_backend |-> "none"], [fps |-> 0],
     [min_frames |-> 6, max_frames |-> 4], [max_frames |-> 1]}
    \cup {[fps |-> n] : n \in 1..3} \cup {[nframes |-> n] : n \in 0..7}
    \cup {[min_frames |-> n] : n \in {3, 6}} \cup {[max_frames |-> n] : n \in {2, 5}}
    \cup {[video_start |-> a] : a \in 0..9} \cup {[video_end |-> b] : b \in 0..9}
    \cup {[video_start |-> a, video_end |-> b, fps |-> 2] : a, b \in {0, 1, 2, 5, 8}}
    \cup {[video_start |-> a, nframes |-> n] : a \in {1, 4}, n \in {2, 3, 6}}
    \cup {[video_backend |-> b] : b \in {"auto", "pyav", "torchcodec"}}

Samples ==
    {<<Request(<<>>, <<>>, <<VideoItem(File(Small, n, fps, "none"), options)>>)>> :
     n \in 0..9, fps \in 0..2, options \in OptionSets}

MCBatches ==
    (IF "budgets" \in Families THEN Budgets ELSE {})
    \cup (IF "references" \in Families THEN References ELSE {})
    \cup (IF "samples" \in Families THEN Samples ELSE {})
===============================================================================
