----------------------------- MODULE VideoSampling -----------------------------
(* _video.py: which frames of a clip are decoded.  Options are functions with *)
(* the keys the caller gave, as the dictionaries of the code are.  Times are  *)
(* in half seconds and rates are whole, so that every bound of the code is an *)
(* exact quotient of naturals; the rounding of its floats is not modelled.    *)
EXTENDS Naturals, Sequences

CONSTANTS
    MaxRawFrames,     \* limits["raw_frames_per_video"]
    DefaultFrames     \* 768, what max_frames is when it is not given

ASSUME FramesAssumption == {MaxRawFrames, DefaultFrames} \subseteq Nat \ {0}

GeometryError == "MediaGeometry"
InvalidOptions == "InvalidRequest"
FrameBreach == "raw_frames_per_video"

Least(a, b) == IF a < b THEN a ELSE b
Most(a, b) == IF a < b THEN b ELSE a
Ceiling(a, b) == (a + b - 1) \div b

(* Python's round: halves go to the even neighbour.                           *)
RoundHalfEven(a, b) ==
    LET q == a \div b
        r == a % b
    IN  IF 2 * r < b \/ (2 * r = b /\ q % 2 = 0) THEN q ELSE q + 1

Given(key, options) == key \in DOMAIN options

OptionOr(options, key, default) ==
    IF Given(key, options) THEN options[key] ELSE default

(* The frame a time falls on, times 2: the time is first clamped to the clip. *)
AtTime(time, total, fps) == Least(time * fps, 2 * total)

ClipStart(total, fps, options) ==
    IF Given("video_start", options)
    THEN Ceiling(AtTime(options["video_start"], total, fps), 2) ELSE 0

ClipEnd(total, fps, options) ==
    IF Given("video_end", options)
    THEN Least(AtTime(options["video_end"], total, fps) \div 2, total - 1)
    ELSE total - 1

(* One frame is a clip only of a video that has no other, or uncut.           *)
ClipIsEmpty(total, fps, options) ==
    LET start == ClipStart(total, fps, options)
        end == ClipEnd(total, fps, options)
    IN  \/ start > end
        \/ /\ start = end /\ total > 1
           /\ Given("video_start", options) \/ Given("video_end", options)

Available(total, fps, options) ==
    ClipEnd(total, fps, options) - ClipStart(total, fps, options) + 1

MinimumFrames(options) == Ceiling(OptionOr(options, "min_frames", 4), 2) * 2

MaximumFrames(available, options) ==
    (OptionOr(options, "max_frames", Least(DefaultFrames, available)) \div 2) * 2

(* Halving and flooring commute with the clamps, so the count is the clamp of *)
(* floored halves.                                                            *)
RateCount(available, fps, options) ==
    LET wanted == (available * OptionOr(options, "fps", 2)) \div (2 * fps)
        clamped == Least(Most(wanted, MinimumFrames(options) \div 2),
                         MaximumFrames(available, options) \div 2)
    IN  2 * Least(clamped, available \div 2)

(* Mutated form: the count is taken as it is given.                           *)
RequestedUnclamped(available, options) == options["nframes"]

RequestedCount(available, options) == 2 * RoundHalfEven(options["nframes"], 2)

RangeIsInconsistent(available, options) ==
    \/ MaximumFrames(available, options) < 2
    \/ /\ MinimumFrames(options) > MaximumFrames(available, options)
       /\ Given("min_frames", options) /\ Given("max_frames", options)

FrameCount(available, fps, options) ==
    IF Given("nframes", options) THEN RequestedCount(available, options)
    ELSE IF available = 1 THEN 1
    ELSE RateCount(available, fps, options)

NotPositive(keys, options) == \E key \in keys : Given(key, options) /\ options[key] = 0

(* The first complaint of _sample_indices, or "None".                         *)
SamplingError(total, fps, options) ==
    LET available == Available(total, fps, options)
    IN  CASE total = 0 \/ fps = 0 -> GeometryError
          [] total > 0 /\ fps > 0 /\ ClipIsEmpty(total, fps, options) -> GeometryError
          [] OTHER ->
             IF Given("fps", options) /\ Given("nframes", options) THEN InvalidOptions
             ELSE IF Given("nframes", options)
                  THEN LET count == RequestedCount(available, options)
                       IN  IF options["nframes"] = 0 \/ count < 2 \/ count > available
                           THEN GeometryError
                           ELSE IF count > MaxRawFrames THEN FrameBreach ELSE "None"
             ELSE IF available = 1 THEN "None"
             ELSE IF \/ NotPositive({"fps", "min_frames", "max_frames"}, options)
                     \/ RangeIsInconsistent(available, options)
                  THEN GeometryError
             ELSE IF RateCount(available, fps, options) > MaxRawFrames
                  THEN FrameBreach ELSE "None"

Linspace(start, end, count) ==
    [i \in 1..count |->
        RoundHalfEven(start * (count - 1) + (end - start) * (i - 1), count - 1)]

SampleIndices(total, fps, options) ==
    LET start == ClipStart(total, fps, options)
        count == FrameCount(Available(total, fps, options), fps, options)
    IN  IF count = 1 THEN <<start>>
        ELSE Linspace(start, ClipEnd(total, fps, options), count)

-------------------------------------------------------------------------------
(* What is promised of the frames of a video of so many frames: they are in   *)
(* presentation order, all different, reach from one end of the clip to the   *)
(* other, and are even in number except for a single frame.                   *)
SpansTheClip(indices, total, fps, options) ==
    LET start == ClipStart(total, fps, options)
        end == ClipEnd(total, fps, options)
    IN  /\ Len(indices) \in 1..Least(MaxRawFrames, end - start + 1)
        /\ Len(indices) = 1 => start = end
        /\ Len(indices) > 1 =>
            /\ Len(indices) % 2 = 0
            /\ indices[1] = start /\ indices[Len(indices)] = end
        /\ \A i \in 1..(Len(indices) - 1) : indices[i] < indices[i + 1]
        /\ end < total
        /\ Given("video_start", options) => start * 2 >= options["video_start"] * fps
        /\ Given("video_end", options) => end * 2 <= options["video_end"] * fps
===============================================================================
