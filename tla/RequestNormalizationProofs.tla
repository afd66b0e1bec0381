----------------------- MODULE RequestNormalizationProofs -----------------------
(* For every batch, every limit and every set of decoders: a batch reads its  *)
(* media as MediaReading says, its items name the media that were written in  *)
(* them, the frames of its videos span their clips, and its budget is what it *)
(* keeps.                                                                     *)
EXTENDS RequestNormalization, WellFoundedInduction, TLAPS, Integers

-------------------------------------------------------------------------------
(* The read budget, for every limit, chunk size and set of sources.           *)

(* A read in progress holds no more than the limit it computed when it began, *)
(* and that limit is still the one the budget gives: nothing is charged while *)
(* a read is in progress.                                                     *)
ReadInvariant ==
    /\ ReadingTypeOK
    /\ total <= BatchLimit
    /\ phase = "reading" =>
        /\ limit = ReadLimit
        /\ held <= limit
    /\ held <= ItemLimit + 1
    /\ answer # AssertionError

(* The limit of a read is within both limits of the budget.                   *)
LEMMA ReadLimitIsWithinBoth ==
    ASSUME total \in Nat, total <= BatchLimit
    PROVE  /\ ReadLimit \in Nat
           /\ ReadLimit <= ItemLimit
           /\ total + ReadLimit <= BatchLimit
BY LimitsAssumption DEF ReadLimit, Min2, Monus

(* What is held beyond the effective limit is refused by the check, whichever *)
(* of the two limits it was taken from.                                       *)
LEMMA BeyondTheLimitIsRefused ==
    ASSUME total \in Nat, total <= BatchLimit, NEW n \in Nat, n > ReadLimit
    PROVE  Check(n) \in Breaches
BY LimitsAssumption DEF ReadLimit, Min2, Monus, Check, Breaches

(* A check names a limit or accepts; consuming keeps the total within the     *)
(* limit of the batch and ends in no assertion.                               *)
LEMMA ConsumeIsBounded ==
    ASSUME total \in Nat, total <= BatchLimit, NEW n \in Nat, Consume(n),
           answer # AssertionError
    PROVE  /\ total' \in Nat /\ total' <= BatchLimit
           /\ phase' \in {"loaded", "done"}
           /\ answer' # AssertionError
BY LimitsAssumption
   DEF Consume, Check, Stop, Accepted, ItemBreach, BatchBreach, AssertionError

(* No open failure is the assertion.                                          *)
LEMMA OpenFailuresAreNoAssertion ==
    ASSUME NEW kind, NEW failure \in OpenFailures(kind)
    PROVE  failure # AssertionError
BY DEF OpenFailures, AssertionError

(* The invariant holds before anything is read.                               *)
LEMMA InvariantInitially == ReadingInit => ReadInvariant
BY LimitsAssumption
   DEF ReadingInit, ReadInvariant, ReadingTypeOK, NoSource, Pending, AssertionError

(* It is kept by every step.                                                  *)
LEMMA InvariantKept == ReadInvariant /\ [ReadingNext]_readingVars => ReadInvariant'
<1> SUFFICES ASSUME ReadInvariant, [ReadingNext]_readingVars
             PROVE  ReadInvariant'
    OBVIOUS
<1> USE LimitsAssumption, SourcesAssumption
<1>t. /\ total \in Nat /\ held \in Nat /\ limit \in Nat
      /\ phase \in {"begin", "acquire", "reading"} =>
            source \in Sources /\ IsSource(source)
      /\ source \in Sources \cup {NoSource}
      /\ phase \in {"idle", "begin", "acquire", "reading", "loaded", "done"}
      /\ total <= BatchLimit /\ held <= ItemLimit + 1 /\ answer # AssertionError
    BY DEF ReadInvariant, ReadingTypeOK
<1>1. CASE FailToOpen
    <2>1. PICK failure \in OpenFailures(source.kind) : Stop(failure)
        BY <1>1 DEF FailToOpen
    <2> QED BY <1>t, <1>1, <2>1, OpenFailuresAreNoAssertion
            DEF FailToOpen, Stop, ReadInvariant, ReadingTypeOK
<1>2. CASE Announce
    <2>1. ASSUME NEW n \in source.announced, Stop(Check(n))
          PROVE  phase' = "done" /\ answer' # AssertionError
        BY <2>1 DEF Stop, Check, Accepted, ItemBreach, BatchBreach, AssertionError
    <2>2. /\ UNCHANGED <<source, total, held, limit>>
          /\ phase' \in {"acquire", "done"} /\ answer' # AssertionError
          /\ phase = "begin"
        BY <1>t, <1>2, <2>1 DEF Announce
    <2> QED BY <1>t, <2>2 DEF ReadInvariant, ReadingTypeOK
<1>3. CASE KeepUncharged
    BY <1>t, <1>3 DEF KeepUncharged, ReadInvariant, ReadingTypeOK
<1>4. CASE ChargeBuffer
    <2>1. source.size \in Nat
        BY <1>t, <1>4 DEF ChargeBuffer, IsSource
    <2>2. CASE source.kind = "dataUri" /\ source.fault = "read"
        BY <1>t, <1>4, <2>2
           DEF ChargeBuffer, Stop, ReadInvariant, ReadingTypeOK, AssertionError
    <2>3. CASE ~(source.kind = "dataUri" /\ source.fault = "read")
        <3>1. Consume(source.size) /\ UNCHANGED <<source, held, limit>>
            BY <1>4, <2>3 DEF ChargeBuffer
        <3> QED BY <1>t, <2>1, <3>1, ConsumeIsBounded DEF ReadInvariant, ReadingTypeOK
    <2> QED BY <2>2, <2>3
<1>5. CASE ChargeVideoPath
    <2>1. PICK stat \in source.announced : Consume(stat)
        BY <1>5 DEF ChargeVideoPath
    <2>2. stat \in Nat /\ UNCHANGED <<source, held, limit>>
        BY <1>t, <1>5 DEF ChargeVideoPath, IsSource
    <2> QED BY <1>t, <2>1, <2>2, ConsumeIsBounded DEF ReadInvariant, ReadingTypeOK
<1>6. CASE BeginRead
    <2>1. ReadLimit' = ReadLimit
        BY <1>6 DEF BeginRead, ReadLimit
    <2> QED BY <1>t, <1>6, <2>1, ReadLimitIsWithinBoth
            DEF BeginRead, ReadInvariant, ReadingTypeOK
<1>7. CASE ReadChunk
    <2>1. PICK n \in 1..Min2(Requested, Left) :
            /\ held' = held + n
            /\ IF held + n > limit
               THEN Stop(IF Check(held + n) = Accepted THEN AssertionError
                         ELSE Check(held + n))
               ELSE UNCHANGED <<phase, answer>>
        BY <1>7 DEF ReadChunk
    <2>2. /\ UNCHANGED <<source, total, limit>> /\ phase = "reading"
          /\ limit = ReadLimit /\ held <= limit
        BY <1>7 DEF ReadChunk, ReadInvariant
    <2>3. n \in Nat /\ n <= (limit - held) + 1
        <3>1. source.size \in Nat
            BY <1>t, <2>2 DEF IsSource
        <3>2. Left \in Nat
            BY <1>t, <3>1 DEF Left, Monus
        <3>3. Requested \in Nat /\ Requested <= (limit - held) + 1
            BY <1>t, <2>2 DEF Requested, Min2
        <3> QED BY <1>t, <2>2, <3>2, <3>3 DEF Min2
    <2>4. limit <= ItemLimit
        BY <1>t, <2>2, ReadLimitIsWithinBoth
    <2>5. held' \in Nat /\ held' <= ItemLimit + 1
        BY <1>t, <2>1, <2>3, <2>4
    <2>6. CASE held + n > limit
        <3>1. Check(held + n) \in Breaches
            BY <1>t, <2>2, <2>3, <2>6, BeyondTheLimitIsRefused
        <3>2. phase' = "done" /\ answer' # AssertionError
            BY <2>1, <2>6, <3>1
               DEF Stop, Breaches, Accepted, ItemBreach, BatchBreach, AssertionError
        <3> QED BY <1>t, <2>2, <2>5, <3>2 DEF ReadInvariant, ReadingTypeOK
    <2>7. CASE ~(held + n > limit)
        <3>1. UNCHANGED <<phase, answer>> /\ held' <= limit
            BY <1>t, <2>1, <2>3, <2>7
        <3>2. ReadLimit' = ReadLimit
            BY <2>2 DEF ReadLimit
        <3> QED BY <1>t, <2>2, <2>5, <3>1, <3>2 DEF ReadInvariant, ReadingTypeOK
    <2> QED BY <2>6, <2>7
<1>8. CASE EndOfStream
    <2>1. Consume(held) /\ UNCHANGED <<source, held, limit>>
        BY <1>8 DEF EndOfStream
    <2> QED BY <1>t, <2>1, ConsumeIsBounded DEF ReadInvariant, ReadingTypeOK
<1>9. CASE ReadFails
    BY <1>t, <1>9 DEF ReadFails, Stop, ReadInvariant, ReadingTypeOK, AssertionError
<1>10. CASE Take
    BY <1>t, <1>10 DEF Take, ReadInvariant, ReadingTypeOK
<1>11. CASE Finish
    BY <1>t, <1>11 DEF Finish, Stop, ReadInvariant, ReadingTypeOK
<1>12. ASSUME NEW s \in Sources, Load(s) PROVE ReadInvariant'
    BY <1>t, <1>12 DEF Load, ReadInvariant, ReadingTypeOK
<1>13. CASE UNCHANGED readingVars
    <2>1. ReadLimit' = ReadLimit
        BY <1>13 DEF readingVars, ReadLimit
    <2> QED BY <1>13, <2>1 DEF readingVars, ReadInvariant, ReadingTypeOK
<1> QED BY <1>1, <1>2, <1>3, <1>4, <1>5, <1>6, <1>7, <1>8, <1>9, <1>10, <1>11,
           <1>12, <1>13 DEF ReadingNext, ReadStep

(* The invariant implies the property.                                        *)
LEMMA InvariantBoundsMemory == ReadInvariant => MemoryStaysWithinTheLimits
BY ReadLimitIsWithinBoth, LimitsAssumption
   DEF ReadInvariant, ReadingTypeOK, MemoryStaysWithinTheLimits

(* Whatever sources announce and deliver, in whatever chunks, the budget of a *)
(* batch is kept and _read_limited's assertion is never reached.              *)
THEOREM ReadsAreBounded == ReadingSpec => []MemoryStaysWithinTheLimits
<1>1. ReadingSpec => []ReadInvariant
    BY InvariantInitially, InvariantKept, PTL DEF ReadingSpec
<1> QED BY <1>1, InvariantBoundsMemory, PTL

-------------------------------------------------------------------------------
(* The requests of a batch.                                                   *)

(* What an error of a request or of a video may be called.                    *)
Errors ==
    {Malformed, InvalidOptions, GeometryError, FrameBreach, "UnsupportedMedia",
     "MediaDecode", "decoded_edge_length", "decoded_pixels_per_image_or_frame"}

IsSequence(s) == \E S : s \in Seq(S)

(* Where the loops over a request stand.  A video is at hand while its frames *)
(* are loaded or it is decoded, and it is one that was written in the item or *)
(* supplied beside it.                                                        *)
PlacesHold ==
    /\ requests \in Batches
    /\ IsSequence(prepared)
    /\ at \in Nat \ {0} /\ frame \in Nat \ {0}
    /\ stage # "request" => Within /\ Current.form = "dict"
    /\ stage \in {"frames", "decode"} =>
        /\ at <= Len(Current.items) /\ Item.kind \in {"video", "videoRef"} /\ InRange
        /\ stage = "frames" => VideoOf.form = "list"

-------------------------------------------------------------------------------
(* Sampling: the frames chosen of a video, for every length, rate and options. *)

(* Division with a remainder, for any divisor.                                *)
LEMMA QuotientAndRemainder ==
    ASSUME NEW a \in Nat, NEW b \in Nat \ {0},
           NEW q \in Int, q = a \div b, NEW r \in Int, r = a % b
    PROVE  a = b * q + r
OBVIOUS

(* The symbolic quotient and remainder, as facts of linear arithmetic.        *)
LEMMA Euclid ==
    ASSUME NEW a \in Nat, NEW b \in Nat \ {0}
    PROVE  \E q, r \in Nat : /\ q = a \div b /\ r = a % b
                             /\ a = b * q + r /\ r < b
<1>1. a \div b \in Nat /\ a % b \in Nat /\ a % b < b
    OBVIOUS
<1>2. PICK q \in Nat, r \in Nat : q = a \div b /\ r = a % b
    BY <1>1
<1>3. a = b * q + r
    BY <1>2, QuotientAndRemainder
<1> QED BY <1>1, <1>2, <1>3

(* Flooring a half loses at most one.                                         *)
LEMMA Halves ==
    ASSUME NEW a \in Nat
    PROVE  /\ a \div 2 \in Nat /\ 2 * (a \div 2) <= a /\ a <= 2 * (a \div 2) + 1
           /\ Ceiling(a, 2) \in Nat /\ a <= 2 * Ceiling(a, 2) /\ 2 * Ceiling(a, 2) <= a + 1
BY DEF Ceiling

(* A larger product of a positive factor has the larger other factor.         *)
LEMMA ProductsGrow ==
    ASSUME NEW b \in Nat \ {0}, NEW p \in Int, NEW q \in Int
    PROVE  /\ b * p < b * q => p < q
           /\ p <= q => b * p <= b * q
           /\ b * (q + 1) = b * q + b
           /\ b * q \in Int
OBVIOUS

(* Rounding moves a quotient by less than one.                                *)
LEMMA RoundingIsWithinOne ==
    ASSUME NEW a \in Nat, NEW b \in Nat \ {0}
    PROVE  /\ RoundHalfEven(a, b) \in Nat
           /\ a \div b <= RoundHalfEven(a, b) /\ RoundHalfEven(a, b) <= (a \div b) + 1
           /\ RoundHalfEven(a, b) = (a \div b) + 1 => 2 * (a % b) >= b
           /\ 2 * (a % b) > b => RoundHalfEven(a, b) = (a \div b) + 1
<1>1. a \div b \in Nat /\ a % b \in Nat
    OBVIOUS
<1>2. RoundHalfEven(a, b) = IF 2 * (a % b) < b \/ (2 * (a % b) = b /\ (a \div b) % 2 = 0)
                            THEN a \div b ELSE (a \div b) + 1
    BY DEF RoundHalfEven
<1> QED BY <1>1, <1>2

(* A quotient without a remainder is not moved at all.                        *)
LEMMA ExactQuotientsStay ==
    ASSUME NEW q \in Nat, NEW b \in Nat \ {0}
    PROVE  RoundHalfEven(q * b, b) = q
<1>1. q * b \in Nat
    OBVIOUS
<1>3. (q * b) \div b = q /\ (q * b) % b = 0
    <2>1. PICK p \in Nat, r \in Nat : /\ p = (q * b) \div b /\ r = (q * b) % b
                                     /\ b * q = b * p + r /\ r < b
        BY <1>1, Euclid
    <2>2. ~ (p < q)
        <3>1. p < q => b * (p + 1) <= b * q
            BY <2>1, ProductsGrow
        <3>2. b * (p + 1) = b * p + b /\ b * p \in Int
            BY <2>1, ProductsGrow
        <3> QED BY <2>1, <3>1, <3>2
    <2>3. ~ (q < p)
        <3>1. q < p => b * (q + 1) <= b * p
            BY <2>1, ProductsGrow
        <3>2. b * (q + 1) = b * q + b /\ b * p \in Int /\ b * q \in Int
            BY <2>1, ProductsGrow
        <3> QED BY <2>1, <3>1, <3>2
    <2>4. p = q /\ r = 0
        <3>1. p = q
            BY <2>1, <2>2, <2>3
        <3>2. b * q \in Int
            BY ProductsGrow
        <3> QED BY <2>1, <3>1, <3>2
    <2> QED BY <2>1, <2>4
<1> QED BY <1>3 DEF RoundHalfEven

(* More than one apart, two quotients do not round to the same number.        *)
LEMMA RoundingKeepsApart ==
    ASSUME NEW a \in Nat, NEW c \in Nat, NEW b \in Nat \ {0}, a + b < c
    PROVE  RoundHalfEven(a, b) < RoundHalfEven(c, b)
<1>a. PICK q \in Nat, r \in Nat : /\ q = a \div b /\ r = a % b
                                  /\ a = b * q + r /\ r < b
    BY Euclid
<1>b. PICK p \in Nat, s \in Nat : /\ p = c \div b /\ s = c % b
                                  /\ c = b * p + s /\ s < b
    BY Euclid
<1>1. /\ q \in Nat /\ r \in Nat /\ p \in Nat /\ s \in Nat
      /\ a = b * q + r /\ r < b /\ c = b * p + s /\ s < b
    BY <1>a, <1>b
<1>2. /\ RoundHalfEven(a, b) \in Nat /\ RoundHalfEven(a, b) <= q + 1
      /\ RoundHalfEven(a, b) >= q
      /\ RoundHalfEven(a, b) = q + 1 => 2 * r >= b
    BY <1>a, RoundingIsWithinOne
<1>3. /\ RoundHalfEven(c, b) \in Nat /\ RoundHalfEven(c, b) >= p
      /\ 2 * s > b => RoundHalfEven(c, b) = p + 1
    BY <1>b, RoundingIsWithinOne
<1>4. b * q \in Int /\ b * p \in Int /\ b * (q + 1) = b * q + b
    BY <1>1, ProductsGrow
<1>5. q < p
    <2>1. b * q < b * p
        BY <1>1, <1>4
    <2> QED BY <1>1, <2>1, ProductsGrow
<1>6. CASE p = q + 1
    <2>1. r < s
        BY <1>1, <1>4, <1>6
    <2> QED BY <1>1, <1>2, <1>3, <1>6, <2>1
<1>7. CASE p # q + 1
    BY <1>1, <1>2, <1>3, <1>5, <1>7
<1> QED BY <1>6, <1>7

(* The ends of a clip that is not refused, for every cut the caller asks for. *)
LEMMA ClipsAreWithinTheVideo ==
    ASSUME NEW length \in Nat \ {0}, NEW fps \in Nat, NEW options,
           IsOptions(options),
           ~ ClipIsEmpty(length, fps, options)
    PROVE  /\ ClipStart(length, fps, options) \in Nat
           /\ ClipEnd(length, fps, options) \in Nat
           /\ ClipStart(length, fps, options) <= ClipEnd(length, fps, options)
           /\ ClipEnd(length, fps, options) < length
           /\ Given("video_start", options) =>
                ClipStart(length, fps, options) * 2 >= options["video_start"] * fps
           /\ Given("video_end", options) =>
                ClipEnd(length, fps, options) * 2 <= options["video_end"] * fps
<1> DEFINE start == ClipStart(length, fps, options)
           end == ClipEnd(length, fps, options)
<1>1. ASSUME NEW time \in Nat
      PROVE  /\ AtTime(time, length, fps) \in Nat /\ time * fps \in Nat
             /\ AtTime(time, length, fps) <= 2 * length
             /\ AtTime(time, length, fps) <= time * fps
             /\ AtTime(time, length, fps) < time * fps
                    => AtTime(time, length, fps) = 2 * length
    <2>1. time * fps \in Nat
        OBVIOUS
    <2> QED BY <2>1 DEF AtTime, Least
<1>2. /\ Given("video_start", options) => options["video_start"] \in Nat
      /\ Given("video_end", options) => options["video_end"] \in Nat
    BY DEF Given, IsOptions, SourceOptions
<1>3. /\ start \in Nat
      /\ Given("video_start", options) =>
            \/ start * 2 >= options["video_start"] * fps
            \/ start >= length
    <2>1. CASE Given("video_start", options)
        <3>1. PICK time \in Nat : time = options["video_start"]
            BY <1>2, <2>1
        <3>2. PICK cut \in Nat : cut = AtTime(time, length, fps)
            BY <1>1
        <3>3. start = Ceiling(cut, 2)
            BY <2>1, <3>1, <3>2 DEF ClipStart
        <3>4. start \in Nat /\ cut <= 2 * start
            BY <3>3, Halves
        <3>5. cut = 2 * length \/ cut = time * fps
            BY <1>1, <3>2
        <3> QED BY <1>1, <3>1, <3>4, <3>5
    <2>2. CASE ~ Given("video_start", options)
        BY <2>2 DEF ClipStart
    <2> QED BY <2>1, <2>2
<1>4. /\ end \in Nat /\ end < length
      /\ Given("video_end", options) => end * 2 <= options["video_end"] * fps
    <2>1. CASE Given("video_end", options)
        <3>1. PICK time \in Nat : time = options["video_end"]
            BY <1>2, <2>1
        <3>2. PICK cut \in Nat : cut = AtTime(time, length, fps)
            BY <1>1
        <3>3. end = Least(cut \div 2, length - 1)
            BY <2>1, <3>1, <3>2 DEF ClipEnd
        <3>4. cut \div 2 \in Nat /\ 2 * (cut \div 2) <= cut /\ cut <= time * fps
              /\ time * fps \in Nat
            BY <1>1, <3>2, Halves
        <3>5. end \in Nat /\ end < length /\ end <= cut \div 2
            BY <3>3, <3>4 DEF Least
        <3> QED BY <3>1, <3>4, <3>5
    <2>2. CASE ~ Given("video_end", options)
        BY <2>2 DEF ClipEnd
    <2> QED BY <2>1, <2>2
<1>5. start <= end
    BY <1>3, <1>4 DEF ClipIsEmpty
<1> QED BY <1>3, <1>4, <1>5

(* The number of frames of a clip that is not refused: one of a clip of one,  *)
(* and otherwise an even number that neither the clip nor the limit is        *)
(* exceeded by.                                                               *)
LEMMA CountsAreWithinTheClip ==
    ASSUME NEW length \in Nat, NEW fps \in Nat, NEW options,
           IsOptions(options),
           SamplingError(length, fps, options) = "None"
    PROVE  /\ length # 0 /\ ~ ClipIsEmpty(length, fps, options)
           /\ \/ /\ FrameCount(Available(length, fps, options), fps, options) = 1
                 /\ Available(length, fps, options) = 1
              \/ \E half \in Nat \ {0} :
                    /\ FrameCount(Available(length, fps, options), fps, options) = 2 * half
                    /\ 2 * half <= Available(length, fps, options)
                    /\ 2 * half <= MaxRawFrames
<1> DEFINE n == Available(length, fps, options)
<1>1. "None" \notin {GeometryError, InvalidOptions, FrameBreach}
    BY DEF GeometryError, InvalidOptions, FrameBreach
<1>2. length # 0 /\ fps # 0 /\ ~ ClipIsEmpty(length, fps, options)
    BY <1>1 DEF SamplingError
<1>3. n \in Nat \ {0}
    BY <1>2, ClipsAreWithinTheVideo DEF Available
<1>4. MaxRawFrames \in Nat \ {0} /\ DefaultFrames \in Nat \ {0}
    BY FramesAssumption
<1>5. CASE Given("nframes", options)
    <2>1. options["nframes"] \in Nat
        BY <1>5 DEF Given, IsOptions, SourceOptions
    <2>2. PICK half \in Nat : half = RoundHalfEven(options["nframes"], 2)
        <3>1. \A a \in Nat : RoundHalfEven(a, 2) \in Nat
            BY RoundingIsWithinOne
        <3> QED BY <2>1, <3>1
    <2>3. RequestedCount(n, options) = 2 * half
        BY <2>2 DEF RequestedCount
    <2>4. SamplingError(length, fps, options) =
            IF Given("fps", options) THEN InvalidOptions
            ELSE IF options["nframes"] = 0 \/ 2 * half < 2 \/ 2 * half > n
                 THEN GeometryError
                 ELSE IF 2 * half > MaxRawFrames THEN FrameBreach ELSE "None"
        BY <1>2, <1>5, <2>3 DEF SamplingError
    <2>5. ~ (2 * half < 2) /\ ~ (2 * half > n) /\ ~ (2 * half > MaxRawFrames)
        BY <1>1, <2>4
    <2>6. half \in Nat \ {0} /\ 2 * half <= n /\ 2 * half <= MaxRawFrames
        BY <1>3, <1>4, <2>2, <2>5
    <2>7. FrameCount(n, fps, options) = 2 * half
        BY <1>5, <2>3 DEF FrameCount
    <2> QED BY <1>2, <2>6, <2>7
<1>6. CASE ~ Given("nframes", options) /\ n = 1
    BY <1>2, <1>6 DEF FrameCount
<1>7. CASE ~ Given("nframes", options) /\ n # 1
    <2>1. /\ ~ NotPositive({"fps", "min_frames", "max_frames"}, options)
          /\ ~ RangeIsInconsistent(n, options)
          /\ ~ (RateCount(n, fps, options) > MaxRawFrames)
        BY <1>1, <1>2, <1>7 DEF SamplingError
    <2>2. OptionOr(options, "min_frames", 4) \in Nat \ {0}
        BY <2>1 DEF OptionOr, Given, IsOptions, SourceOptions, NotPositive
    <2>3. OptionOr(options, "fps", 2) \in Nat \ {0}
        BY <2>1 DEF OptionOr, Given, IsOptions, SourceOptions, NotPositive
    <2>4. OptionOr(options, "max_frames", Least(DefaultFrames, n)) \in Nat
        BY <1>3, <1>4 DEF OptionOr, Given, IsOptions, SourceOptions, Least
    <2>5. PICK low \in Nat \ {0} : MinimumFrames(options) = low * 2
        <3>1. PICK least \in Nat \ {0} : least = OptionOr(options, "min_frames", 4)
            BY <2>2
        <3>2. Ceiling(least, 2) \in Nat /\ least <= 2 * Ceiling(least, 2)
            BY Halves
        <3>3. Ceiling(least, 2) \in Nat \ {0}
            BY <3>2
        <3> QED BY <3>1, <3>3 DEF MinimumFrames
    <2>6. PICK high \in Nat : MaximumFrames(n, options) = high * 2
        BY <2>4, Halves DEF MaximumFrames
    <2>7. high >= 1
        BY <2>1, <2>6 DEF RangeIsInconsistent
    <2>8. PICK wanted \in Nat :
            wanted = (n * OptionOr(options, "fps", 2)) \div (2 * fps)
        <3>1. PICK rate \in Nat : rate = OptionOr(options, "fps", 2)
            BY <2>3
        <3>2. n * rate \in Nat /\ 2 * fps \in Nat \ {0}
            BY <1>2, <1>3
        <3> QED BY <3>1, <3>2, Euclid
    <2>9. PICK half \in Nat : /\ RateCount(n, fps, options) = 2 * half
                              /\ half >= 1 /\ 2 * half <= n
        <3>1. MinimumFrames(options) \div 2 = low
            BY <2>5
        <3>2. MaximumFrames(n, options) \div 2 = high
            BY <2>6
        <3>0. PICK k \in Nat : k = n
            BY <1>3
        <3>3a. k \div 2 \in Nat /\ 2 * (k \div 2) <= k /\ k <= 2 * (k \div 2) + 1
            BY Halves
        <3>3. n \div 2 \in Nat /\ n \div 2 >= 1 /\ 2 * (n \div 2) <= n
            <4>1. k >= 2
                BY <1>3, <1>7, <3>0
            <4>2. k \div 2 >= 1
                BY <3>3a, <4>1
            <4> QED BY <3>0, <3>3a, <4>2
        <3>4. RateCount(n, fps, options)
                 = 2 * Least(Least(Most(wanted, low), high), n \div 2)
            BY <2>8, <3>1, <3>2 DEF RateCount
        <3>5. PICK m \in Nat : m = n \div 2
            BY <3>3
        <3>6. /\ Least(Least(Most(wanted, low), high), m) \in Nat
              /\ Least(Least(Most(wanted, low), high), m) >= 1
              /\ Least(Least(Most(wanted, low), high), m) <= m
            BY <2>5, <2>6, <2>7, <3>3, <3>5 DEF Least, Most
        <3> QED BY <1>3, <3>3, <3>4, <3>5, <3>6
    <2>10. FrameCount(n, fps, options) = 2 * half
        BY <1>7, <2>9 DEF FrameCount
    <2> QED BY <1>2, <1>4, <2>1, <2>9, <2>10
<1> QED BY <1>5, <1>6, <1>7

(* Spreading an even number of frames over a clip that has as many gives      *)
(* different frames, in order, from its first to its last.                    *)
LEMMA SpreadFramesAreInOrder ==
    ASSUME NEW start \in Nat, NEW end \in Nat, NEW count \in Nat, count >= 2,
           count <= (end - start) + 1
    PROVE  /\ DOMAIN Linspace(start, end, count) = 1..count
           /\ Len(Linspace(start, end, count)) = count
           /\ Linspace(start, end, count)[1] = start
           /\ Linspace(start, end, count)[count] = end
           /\ \A i \in 1..(count - 1) : Linspace(start, end, count)[i]
                                          < Linspace(start, end, count)[i + 1]
<1> DEFINE b == count - 1
           d == end - start
           At(i) == start * b + d * (i - 1)
<1>1. b \in Nat \ {0} /\ d \in Nat /\ b <= d
    OBVIOUS
<1>2. Linspace(start, end, count) = [i \in 1..count |-> RoundHalfEven(At(i), b)]
    BY DEF Linspace
<1>3. /\ DOMAIN Linspace(start, end, count) = 1..count
      /\ Len(Linspace(start, end, count)) = count
      /\ \A i \in 1..count : Linspace(start, end, count)[i] = RoundHalfEven(At(i), b)
    BY <1>2
<1>4. At(1) = start * b /\ At(count) = end * b
    BY <1>1
<1>5. /\ Linspace(start, end, count)[1] = start
      /\ Linspace(start, end, count)[count] = end
    BY <1>1, <1>3, <1>4, ExactQuotientsStay
<1>6. ASSUME NEW i \in 1..(count - 1)
      PROVE  RoundHalfEven(At(i), b) < RoundHalfEven(At(i + 1), b)
    <2>1. /\ At(i) \in Nat /\ At(i + 1) \in Nat /\ At(i + 1) = At(i) + d
        <3>1. PICK k \in Nat : k = i - 1
            OBVIOUS
        <3>2. start * b \in Nat /\ d * k \in Nat /\ d * (k + 1) = d * k + d
            BY <1>1
        <3>3. At(i) = start * b + d * k /\ At(i + 1) = start * b + d * (k + 1)
            BY <3>1
        <3> HIDE DEF At, b, d
        <3> QED BY <1>1, <3>2, <3>3
    <2>2. CASE d > b
        <3> HIDE DEF At, d, b
        <3> QED BY <1>1, <2>1, <2>2, RoundingKeepsApart
    <2>3. CASE d = b
        <3>1. At(i) = (start + (i - 1)) * b /\ At(i + 1) = (start + i) * b
            BY <1>1, <2>3
        <3>2. start + (i - 1) \in Nat /\ start + i \in Nat
            OBVIOUS
        <3>3. /\ RoundHalfEven(At(i), b) = start + (i - 1)
              /\ RoundHalfEven(At(i + 1), b) = start + i
            BY <1>1, <3>1, <3>2, ExactQuotientsStay
        <3> QED BY <3>3
    <2> QED BY <1>1, <2>2, <2>3
<1>7. ASSUME NEW i \in 1..(count - 1)
      PROVE  Linspace(start, end, count)[i] < Linspace(start, end, count)[i + 1]
    <2>1. i \in 1..count /\ i + 1 \in 1..count
        OBVIOUS
    <2>2. /\ Linspace(start, end, count)[i] = RoundHalfEven(At(i), b)
          /\ Linspace(start, end, count)[i + 1] = RoundHalfEven(At(i + 1), b)
        BY <1>3, <2>1
    <2> HIDE DEF At, b, d
    <2> QED BY <1>6, <2>2
<1> HIDE DEF At, b, d
<1> QED BY <1>3, <1>5, <1>7

(* The frames chosen of a video that is not refused span its clip, whatever   *)
(* its length and rate and whatever is asked for.                             *)
LEMMA SamplesSpanTheClip ==
    ASSUME NEW length \in Nat, NEW fps \in Nat, NEW options,
           IsOptions(options),
           SamplingError(length, fps, options) = "None"
    PROVE  /\ SpansTheClip(SampleIndices(length, fps, options), length, fps, options)
           /\ DOMAIN SampleIndices(length, fps, options)
                 = 1..Len(SampleIndices(length, fps, options))
<1> DEFINE start == ClipStart(length, fps, options)
           end == ClipEnd(length, fps, options)
           count == FrameCount(Available(length, fps, options), fps, options)
           indices == SampleIndices(length, fps, options)
<1>1. /\ start \in Nat /\ end \in Nat /\ start <= end /\ end < length
      /\ Given("video_start", options) => start * 2 >= options["video_start"] * fps
      /\ Given("video_end", options) => end * 2 <= options["video_end"] * fps
    BY CountsAreWithinTheClip, ClipsAreWithinTheVideo
<1>2. Available(length, fps, options) = (end - start) + 1
    BY DEF Available
<1>3. /\ indices = IF count = 1 THEN <<start>> ELSE Linspace(start, end, count)
    BY DEF SampleIndices
<1>4. MaxRawFrames \in Nat \ {0}
    BY FramesAssumption
<1> HIDE DEF start, end, count, indices
<1>5. \/ count = 1 /\ start = end
      \/ \E half \in Nat \ {0} : /\ count = 2 * half /\ 2 * half <= (end - start) + 1
                                 /\ 2 * half <= MaxRawFrames
    BY <1>1, <1>2, CountsAreWithinTheClip DEF count
<1>6. /\ Len(indices) \in 1..Least(MaxRawFrames, (end - start) + 1)
      /\ Len(indices) = 1 => start = end
      /\ Len(indices) > 1 => /\ Len(indices) % 2 = 0
                             /\ indices[1] = start /\ indices[Len(indices)] = end
      /\ \A i \in 1..(Len(indices) - 1) : indices[i] < indices[i + 1]
      /\ DOMAIN indices = 1..Len(indices)
    <2>1. CASE count = 1 /\ start = end
        <3>1. indices = <<start>>
            BY <1>3, <2>1
        <3>2. Len(indices) = 1 /\ DOMAIN indices = 1..1
            BY <3>1
        <3> QED BY <1>1, <1>4, <2>1, <3>2 DEF Least
    <2>2. ASSUME NEW half \in Nat \ {0}, count = 2 * half,
                 2 * half <= (end - start) + 1, 2 * half <= MaxRawFrames
          PROVE  /\ Len(indices) \in 1..Least(MaxRawFrames, (end - start) + 1)
                 /\ Len(indices) = 1 => start = end
                 /\ Len(indices) > 1 => /\ Len(indices) % 2 = 0
                                        /\ indices[1] = start
                                        /\ indices[Len(indices)] = end
                 /\ \A i \in 1..(Len(indices) - 1) : indices[i] < indices[i + 1]
                 /\ DOMAIN indices = 1..Len(indices)
        <3>1. count \in Nat /\ count >= 2 /\ count # 1 /\ count <= (end - start) + 1
            BY <2>2
        <3>2. indices = Linspace(start, end, count)
            BY <1>3, <3>1
        <3>3. /\ DOMAIN indices = 1..count /\ Len(indices) = count
              /\ indices[1] = start /\ indices[count] = end
              /\ \A i \in 1..(count - 1) : indices[i] < indices[i + 1]
            BY <1>1, <3>1, <3>2, SpreadFramesAreInOrder
        <3>4. count \in 1..Least(MaxRawFrames, (end - start) + 1) /\ count % 2 = 0
            BY <1>1, <1>4, <2>2 DEF Least
        <3> QED BY <3>1, <3>3, <3>4
    <2> QED BY <1>5, <2>1, <2>2
<1> QED BY <1>1, <1>6 DEF SpansTheClip, start, end, indices

-------------------------------------------------------------------------------
(* Appending to a sequence of whatever lengthens it by one.                   *)
LEMMA AppendIsLonger ==
    ASSUME NEW s, IsSequence(s), NEW e
    PROVE  /\ IsSequence(Append(s, e))
           /\ Len(s) \in Nat /\ Len(Append(s, e)) = Len(s) + 1
<1>1. PICK S : s \in Seq(S)
    BY DEF IsSequence
<1>2. s \in Seq(S \cup {e}) /\ e \in S \cup {e}
    BY <1>1
<1> QED BY <1>2 DEF IsSequence

(* No error has the name of an assertion.                                     *)
LEMMA ErrorsAreNoAssertion == AssertionError \notin Errors
BY DEF Errors, Malformed, InvalidOptions, GeometryError, FrameBreach, AssertionError

(* The request at hand is one of the batch.                                   *)
LEMMA CurrentIsARequest ==
    ASSUME requests \in Batches, IsSequence(prepared), Within
    PROVE  IsRequest(Current)
<1>1. Len(prepared) \in Nat
    BY AppendIsLonger
<1>2. IsListOf(requests, IsRequest)
    BY BatchesAssumption
<1> QED BY <1>1, <1>2 DEF IsListOf, Within, Current

(* So is its item,                                                            *)
LEMMA ItemIsAnItem ==
    ASSUME PlacesHold, stage # "request", at <= Len(Current.items)
    PROVE  IsItem(Item)
<1>1. IsRequest(Current) /\ Current.form = "dict" /\ at \in Nat \ {0}
    BY CurrentIsARequest DEF PlacesHold
<1>2. IsListOf(Current.items, IsItem)
    BY <1>1 DEF IsRequest
<1> QED BY <1>1, <1>2 DEF IsListOf, Item

(* and the video the item is about.                                           *)
LEMMA VideoAtHand ==
    ASSUME PlacesHold, stage # "request", at <= Len(Current.items),
           Item.kind \in {"video", "videoRef"}, InRange
    PROVE  IsVideo(VideoOf)
<1>1. IsRequest(Current) /\ Current.form = "dict" /\ IsItem(Item)
    BY CurrentIsARequest, ItemIsAnItem DEF PlacesHold
<1>2. CASE Item.kind = "video"
    BY <1>1, <1>2 DEF IsItem, VideoOf
<1>3. CASE Item.kind = "videoRef"
    <2>1. Item.index \in Nat /\ Item.index < Len(Current.videos)
        BY <1>1, <1>3 DEF IsItem, InRange
    <2>2. IsListOf(Current.videos, IsVideo)
        BY <1>1 DEF IsRequest
    <2> QED BY <1>3, <2>1, <2>2 DEF IsListOf, VideoOf
<1> QED BY <1>2, <1>3

-------------------------------------------------------------------------------
(* Every error of a video is one of those above.                              *)
LEMMA EntryErrorIsAnError == EntryError \in Errors \cup {"None"}
<1>1. ASSUME NEW options PROVE OptionError(options) \in Errors \cup {"None"}
    BY DEF OptionError, Errors
<1>2. ASSUME NEW list PROVE ListError(list) \in Errors \cup {"None"}
    BY DEF ListError, Errors
<1> QED BY <1>1, <1>2 DEF EntryError, Errors

(* So is what a decoder or a conversion answers,                              *)
LEMMA ContentErrorsAreErrors ==
    ASSUME NEW fault \in {"none", "shape", "pixels", "content"}
    PROVE  ContentErrors(fault) \subseteq Errors
BY DEF ContentErrors, Errors

(* what the choice of the frames answers,                                     *)
LEMMA SamplingErrorIsAnError ==
    ASSUME NEW n, NEW fps, NEW options
    PROVE  SamplingError(n, fps, options) \in Errors \cup {"None"}
BY DEF SamplingError, Errors

(* and so what decoding a video answers.                                      *)
LEMMA DecodeErrorsAreErrors ==
    ASSUME IsVideo(VideoOf)
    PROVE  DecodeErrors \subseteq Errors
<1>1. ContentErrors(VideoOf.fault) \subseteq Errors
    BY ContentErrorsAreErrors DEF IsVideo
<1>2. BackendError(Item.options) # "None" => BackendError(Item.options) \in Errors
    BY DEF BackendError, Errors
<1>3. ASSUME NEW n, NEW fps, SamplingError(n, fps, Item.options) # "None"
      PROVE  SamplingError(n, fps, Item.options) \in Errors
    BY <1>3, SamplingErrorIsAnError
<1>4. FileErrors(VideoOf, Item.options) \subseteq Errors
    BY <1>1, <1>2, <1>3 DEF FileErrors
<1>5. ClipErrors(VideoOf, Item.options) \subseteq Errors
    BY <1>1 DEF ClipErrors, Errors
<1> QED BY <1>4, <1>5 DEF DecodeErrors

-------------------------------------------------------------------------------
(* Each kind of step, as MediaReading sees it.                                *)

(* A refusal before a source is loaded, or after it.                          *)
LEMMA RefusalFinishes ==
    ASSUME NEW failure, failure # AssertionError, phase \in {"idle", "loaded"},
           Refuse(failure)
    PROVE  Finish /\ UNCHANGED requestVars
BY DEF Refuse, Stop, Finish, budget

(* The requests of a batch leave the budget alone or move it as MediaReading  *)
(* does, and the loops stay where they may be.                                *)
LEMMA StepsReadAndKeepTheirPlace ==
    ASSUME PlacesHold, [Next]_vars
    PROVE  PlacesHold' /\ [ReadingNext]_readingVars
<1> USE DEF PlacesHold
<1>1. CASE ReadStep /\ UNCHANGED requestVars
    BY <1>1 DEF requestVars, ReadingNext, Within, Current, Item, InRange, VideoOf
<1>2. CASE PassThrough
    <2>1. IsSequence(prepared')
        BY <1>2, AppendIsLonger DEF PassThrough
    <2> QED BY <1>2, <2>1 DEF PassThrough, readingVars
<1>3. CASE BeginRequest
    BY <1>3 DEF BeginRequest, readingVars, Within, Current
<1>4. CASE LoadSupplied
    <2>1. Current.images[at] \in Sources
        BY <1>4, CurrentIsARequest DEF LoadSupplied, IsRequest
    <2> QED BY <1>4, <2>1 DEF LoadSupplied, requestVars, ReadingNext, Within, Current
<1>5. CASE KeepSupplied
    BY <1>5 DEF KeepSupplied, ReadingNext, Within, Current
<1>6. CASE BeginContent
    BY <1>6 DEF BeginContent, readingVars, Within, Current
<1>7. CASE KeepText
    BY <1>7 DEF KeepText, AtItem, NextItem, readingVars, Within, Current
<1>8. CASE RefuseMalformed
    BY <1>8, RefusalFinishes
       DEF RefuseMalformed, AtItem, Malformed, AssertionError, ReadingNext, requestVars,
           Within, Current
<1>9. CASE KeepPosition
    BY <1>9 DEF KeepPosition, AtItem, NextItem, readingVars, Within, Current
<1>10. CASE LoadInline
    <2>1. Item.source \in Sources
        BY <1>10, ItemIsAnItem DEF LoadInline, AtItem, IsItem
    <2> QED BY <1>10, <2>1 DEF LoadInline, AtItem, requestVars, ReadingNext, Within, Current
<1>11. CASE KeepInline
    BY <1>11 DEF KeepInline, AtItem, NextItem, ReadingNext, Within, Current
<1>12. CASE RefuseVideo
    <2>1. EntryError # AssertionError
        BY <1>12, EntryErrorIsAnError, ErrorsAreNoAssertion DEF RefuseVideo
    <2> QED BY <1>12, <2>1, RefusalFinishes
            DEF RefuseVideo, AtItem, ReadingNext, requestVars, Within, Current
<1>13. CASE ReuseVideo
    BY <1>13 DEF ReuseVideo, AtItem, NextItem, readingVars, Within, Current
<1>14. CASE OpenVideo
    <2>1. InRange /\ at <= Len(Current.items) /\ Item.kind \in {"video", "videoRef"}
          /\ stage = "content"
        BY <1>14 DEF OpenVideo, AtItem, EntryError, Malformed
    <2>2. IsVideo(VideoOf)
        BY <2>1, VideoAtHand
    <2>3. [ReadingNext]_readingVars
        BY <1>14, <2>2 DEF OpenVideo, IsVideo, ReadingNext
    <2>4. /\ stage' = IF VideoOf.form = "list" THEN "frames" ELSE "decode"
          /\ frame' = 1 /\ UNCHANGED <<requests, at, prepared>>
        BY <1>14 DEF OpenVideo
    <2>5. /\ Current' = Current /\ Item' = Item /\ VideoOf' = VideoOf
          /\ InRange' = InRange /\ Within' = Within
        BY <2>4, <1>14 DEF OpenVideo, Current, Item, VideoOf, InRange, Within
    <2> QED BY <2>1, <2>3, <2>4, <2>5
<1>15. CASE LoadFrame
    <2>1. VideoOf.frames[frame] \in Sources
        BY <1>15, VideoAtHand DEF LoadFrame, IsVideo
    <2> QED BY <1>15, <2>1
            DEF LoadFrame, requestVars, ReadingNext, Within, Current, Item, InRange, VideoOf
<1>16. CASE FailFrame
    <2>1. PICK failure \in ContentErrors(VideoOf.fault) : Refuse(failure)
        BY <1>16 DEF FailFrame
    <2>2. failure # AssertionError
        BY <1>16, VideoAtHand, ContentErrorsAreErrors, ErrorsAreNoAssertion
           DEF FailFrame, IsVideo
    <2> QED BY <1>16, <2>1, <2>2, RefusalFinishes
            DEF FailFrame, requestVars, ReadingNext, Within, Current, Item, InRange, VideoOf
<1>17. CASE KeepFrame
    <2>1. Take /\ stage = "frames" /\ stage' \in {"frames", "decode"} /\ frame' = frame + 1
          /\ UNCHANGED <<requests, at, prepared>>
        BY <1>17 DEF KeepFrame
    <2>2. /\ Current' = Current /\ Item' = Item /\ VideoOf' = VideoOf
          /\ InRange' = InRange /\ Within' = Within
        BY <1>17 DEF KeepFrame, Current, Item, VideoOf, InRange, Within
    <2>3. frame' \in Nat \ {0}
        BY <2>1
    <2> QED BY <2>1, <2>2, <2>3 DEF ReadingNext
<1>18. CASE FailToDecode
    <2>1. PICK failure \in DecodeErrors : Refuse(failure)
        BY <1>18 DEF FailToDecode
    <2>2. failure # AssertionError
        BY <1>18, VideoAtHand, DecodeErrorsAreErrors, ErrorsAreNoAssertion
           DEF FailToDecode, Decoded
    <2>3. phase \in {"idle", "loaded"}
        BY <1>18 DEF FailToDecode, Decoded
    <2> QED BY <2>1, <2>2, <2>3, RefusalFinishes
            DEF requestVars, ReadingNext, Within, Current, Item, InRange, VideoOf
<1>19. CASE KeepVideo
    <2>1. [ReadingNext]_readingVars
        BY <1>19 DEF KeepVideo, Decoded, Take, ReadingNext, readingVars
    <2> QED BY <1>19, <2>1 DEF KeepVideo, Decoded, NextItem, Within, Current
<1>20. CASE RefuseUnreferenced
    BY <1>20, RefusalFinishes
       DEF RefuseUnreferenced, AtEnd, Malformed, AssertionError, ReadingNext, requestVars,
           Within, Current
<1>21. CASE CloseRequest
    <2>1. IsSequence(prepared')
        BY <1>21, AppendIsLonger DEF CloseRequest
    <2> QED BY <1>21, <2>1 DEF CloseRequest, readingVars
<1>22. CASE Submit
    <2>1. Finish
        BY <1>22 DEF Submit, Stop, Finish, budget, Prepared, Malformed, AssertionError
    <2> QED BY <1>22, <2>1 DEF Submit, requestVars, ReadingNext
<1>23. CASE UNCHANGED vars
    BY <1>23 DEF vars, readingVars, Within, Current, Item, InRange, VideoOf
<1> QED BY <1>1, <1>2, <1>3, <1>4, <1>5, <1>6, <1>7, <1>8, <1>9, <1>10, <1>11, <1>12,
           <1>13, <1>14, <1>15, <1>16, <1>17, <1>18, <1>19, <1>20, <1>21, <1>22, <1>23
       DEF Next, Step, Answered

(* Nothing is read and no request begun at the start.                         *)
LEMMA PlacesHoldInitially == Init => PlacesHold /\ ReadingInit
BY DEF Init, PlacesHold, IsSequence

-------------------------------------------------------------------------------
(* Preparing a batch is reading sources one after another against one budget, *)
(* whatever the requests hold and whichever of them fails.                    *)
THEOREM BatchesReadOneBudget == Spec => ReadingSpec
<1>1. PlacesHold /\ [Next]_vars => PlacesHold' /\ [ReadingNext]_readingVars
    BY StepsReadAndKeepTheirPlace
<1> QED BY <1>1, PlacesHoldInitially, PTL DEF Spec, ReadingSpec

(* So no batch, however its requests arrange their media, holds more than its *)
(* limits leave or fails the assertion in _read_limited.                      *)
THEOREM BatchesStayWithinTheLimits == Spec => []MemoryStaysWithinTheLimits
BY BatchesReadOneBudget, ReadsAreBounded, PTL

-------------------------------------------------------------------------------
(* Renumbering: what a request that is being normalized holds.                *)

(* The request being normalized, as it would be closed.                       *)
Draft == [form |-> "dict", images |-> images, videos |-> videos, items |-> items]

Content == {"content", "frames", "decode"}

(* The video an entry was made of.                                            *)
WrittenIn(original, video) ==
    IF video.from = "supplied" THEN original.videos[video.place]
    ELSE original.items[video.place].video

Loading == phase \in {"begin", "acquire", "reading", "loaded"}

ImagesHold ==
    /\ IsSequence(images)
    /\ stage = "supplied" /\ Loading => at <= Len(Current.images)
    /\ \A k \in 1..Len(images) : images[k].from \in {"supplied", "item"}
    /\ stage = "supplied" => Len(images) = at - 1 /\ at <= Len(Current.images) + 1
    /\ stage \in Content => Len(images) >= Len(Current.images)
    /\ \A k \in 1..Len(images) :
          (stage = "supplied" \/ (stage \in Content /\ k <= Len(Current.images)))
              => images[k] = [from |-> "supplied", place |-> k]

(* A supplied video stands where the cache says, one of an item stands once.  *)
VideosHold ==
    /\ IsSequence(videos)
    /\ stage = "supplied" => videos = <<>> /\ DOMAIN cache = {}
    /\ \A k \in 1..Len(videos) :
          /\ videos[k].from \in {"supplied", "item"}
          /\ videos[k].from = "supplied" =>
                /\ <<videos[k].place - 1, videos[k].options>> \in DOMAIN cache
                /\ cache[<<videos[k].place - 1, videos[k].options>>] = k
          /\ stage \in Content /\ videos[k].from = "item" => videos[k].place \in 1..(at - 1)
          /\ stage \in Content /\ WrittenIn(Current, videos[k]).form \in FileForms =>
                SpansTheClip(videos[k].indices, WrittenIn(Current, videos[k]).total,
                             WrittenIn(Current, videos[k]).fps, videos[k].options)
    /\ \A j, k \in 1..Len(videos) :
          (/\ videos[j].from = "item" /\ videos[k].from = "item"
           /\ videos[j].place = videos[k].place) => j = k
    /\ \A key \in DOMAIN cache :
          /\ cache[key] \in 1..Len(videos)
          /\ videos[cache[key]].from = "supplied"
          /\ videos[cache[key]].place = key[1] + 1
          /\ videos[cache[key]].options = key[2]
    /\ stage \in {"frames", "decode"} => ~Cached

(* An item that is kept names its medium by its position among those kept.    *)
ItemHolds(original, draft, i) ==
    LET item == original.items[i]
        named == draft.items[i]
    IN  CASE item.kind = "image" ->
                /\ named.index \in 0..(Len(draft.images) - 1)
                /\ draft.images[named.index + 1] = [from |-> "item", place |-> i]
          [] item.kind = "imageRef" -> named.index = item.index
          [] item.kind \in {"video", "videoRef"} ->
                /\ named.index \in 0..(Len(draft.videos) - 1)
                /\ LET video == draft.videos[named.index + 1]
                   IN  /\ video.options = item.options
                       /\ IF item.kind = "video"
                          THEN video.from = "item" /\ video.place = i
                          ELSE video.from = "supplied" /\ video.place = item.index + 1
          [] OTHER -> named.kind = "text"

ItemsHold ==
    /\ IsSequence(items)
    /\ stage = "supplied" => items = <<>>
    /\ stage \in Content =>
        /\ Len(items) = at - 1 /\ at <= Len(Current.items) + 1
        /\ \A i \in 1..Len(items) : ItemHolds(Current, Draft, i)

RequestHolds(r) ==
    prepared[r].form = "dict" =>
        /\ Len(prepared[r].items) = Len(requests[r].items)
        /\ DOMAIN prepared[r].items = 1..Len(prepared[r].items)
        /\ \A i \in 1..Len(prepared[r].items) : NamesItsMedium(requests[r], prepared[r], i)
        /\ \A j, k \in DOMAIN prepared[r].videos :
              prepared[r].videos[j] = prepared[r].videos[k] => j = k

PreparedHold ==
    /\ Len(prepared) <= Len(requests)
    /\ stage \in {"request", "supplied"} \cup Content
    /\ \A r \in 1..Len(prepared) : RequestHolds(r)

Inv == PlacesHold /\ ImagesHold /\ VideosHold /\ ItemsHold /\ PreparedHold

(* Appending leaves what is there where it is.                                *)
LEMMA AppendKeeps ==
    ASSUME NEW s, IsSequence(s), NEW e
    PROVE  /\ IsSequence(Append(s, e))
           /\ Len(s) \in Nat /\ DOMAIN s = 1..Len(s)
           /\ Len(Append(s, e)) = Len(s) + 1
           /\ \A k \in 1..Len(s) : Append(s, e)[k] = s[k]
           /\ Append(s, e)[Len(s) + 1] = e
<1>1. PICK S : s \in Seq(S)
    BY DEF IsSequence
<1>2. s \in Seq(S \cup {e}) /\ e \in S \cup {e}
    BY <1>1
<1> QED BY <1>2, AppendIsLonger DEF IsSequence

(* A named medium keeps its name while media are added behind it.             *)
LEMMA NamesSurvive ==
    ASSUME NEW original, NEW old, NEW new, NEW i, new.items[i] = old.items[i],
           IsSequence(old.images), IsSequence(old.videos),
           Len(new.images) \in Nat, Len(new.videos) \in Nat,
           Len(old.images) <= Len(new.images), Len(old.videos) <= Len(new.videos),
           \A k \in 1..Len(old.images) : new.images[k] = old.images[k],
           \A k \in 1..Len(old.videos) : new.videos[k] = old.videos[k],
           ItemHolds(original, old, i)
    PROVE  ItemHolds(original, new, i)
<1>1. Len(old.images) \in Nat /\ Len(old.videos) \in Nat
    BY AppendKeeps
<1>2. CASE original.items[i].kind = "image"
    <2> DEFINE n == old.items[i].index + 1
    <2>1. /\ old.items[i].index \in 0..(Len(old.images) - 1)
          /\ old.images[n] = [from |-> "item", place |-> i]
        BY <1>2 DEF ItemHolds
    <2>2. n \in 1..Len(old.images) /\ old.items[i].index \in 0..(Len(new.images) - 1)
        BY <1>1, <2>1
    <2>3. new.images[n] = old.images[n]
        BY <2>2
    <2>4. /\ new.items[i].index \in 0..(Len(new.images) - 1)
          /\ new.images[new.items[i].index + 1] = [from |-> "item", place |-> i]
        BY <2>1, <2>2, <2>3
    <2> QED BY <1>2, <2>4 DEF ItemHolds
<1>3. CASE original.items[i].kind \in {"video", "videoRef"}
    <2> DEFINE n == old.items[i].index + 1
    <2>1. /\ old.items[i].index \in 0..(Len(old.videos) - 1)
          /\ old.videos[n].options = original.items[i].options
          /\ IF original.items[i].kind = "video"
             THEN old.videos[n].from = "item" /\ old.videos[n].place = i
             ELSE old.videos[n].from = "supplied"
                  /\ old.videos[n].place = original.items[i].index + 1
        BY <1>3 DEF ItemHolds
    <2>2. n \in 1..Len(old.videos) /\ old.items[i].index \in 0..(Len(new.videos) - 1)
        BY <1>1, <2>1
    <2>3. new.videos[n] = old.videos[n] /\ new.items[i].index = old.items[i].index
        BY <2>2
    <2> HIDE DEF n
    <2>4. n = new.items[i].index + 1
        BY <2>3 DEF n
    <2> QED BY <1>3, <2>1, <2>2, <2>3, <2>4 DEF ItemHolds
<1>4. CASE original.items[i].kind \notin {"image", "video", "videoRef"}
    BY <1>4 DEF ItemHolds
<1> QED BY <1>2, <1>3, <1>4

(* A step that leaves the request alone, or only turns to the next frame.     *)
LEMMA InvThroughReading ==
    ASSUME Inv, PlacesHold',
           UNCHANGED <<requests, at, images, videos, cache, items, prepared>>,
           stage = "supplied" /\ Loading' => Loading \/ at <= Len(Current.images),
           \/ stage' = stage
           \/ stage \in {"frames", "decode"} /\ stage' \in {"frames", "decode"}
           \/ stage = "content" /\ ~Cached /\ stage' \in {"frames", "decode"}
    PROVE  Inv'
<1>1. /\ Current' = Current /\ Draft' = Draft /\ Cached' = Cached
    BY DEF Current, Draft, Cached, CacheKey, Item
<1>2. ImagesHold'
    BY <1>1 DEF Inv, ImagesHold, Content
<1>3. VideosHold'
    BY <1>1 DEF Inv, VideosHold, Content
<1>4. ItemsHold'
    BY <1>1 DEF Inv, ItemsHold, Content
<1>5. PreparedHold'
    BY DEF Inv, PreparedHold, RequestHolds, Content
<1> QED BY <1>2, <1>3, <1>4, <1>5 DEF Inv

(* An item is kept: what is kept already keeps its name, and the new item has *)
(* the name it is given.                                                      *)
LEMMA InvThroughItem ==
    ASSUME Inv, PlacesHold', stage \in Content, stage' = "content",
           at <= Len(Current.items), UNCHANGED <<requests, prepared>>,
           NEW named, items' = Append(items, named), at' = at + 1,
           NEW image, image.from \in {"supplied", "item"},
           images' = images \/ images' = Append(images, image),
           NEW video, videos' = videos \/ videos' = Append(videos, video),
           VideosHold', ItemHolds(Current, Draft', at)
    PROVE  Inv'
<1>1. /\ IsSequence(items) /\ IsSequence(images) /\ IsSequence(videos)
      /\ Len(items) = at - 1 /\ at \in Nat \ {0} /\ Current' = Current
    BY DEF Inv, ItemsHold, ImagesHold, VideosHold, PlacesHold, Current
<1>2. /\ Len(items) \in Nat /\ Len(items') = Len(items) + 1 /\ IsSequence(items')
      /\ \A k \in 1..Len(items) : items'[k] = items[k]
    BY <1>1, AppendKeeps
<1>3. /\ Len(images) \in Nat /\ Len(images') \in Nat /\ IsSequence(images')
      /\ Len(images) <= Len(images')
      /\ \A k \in 1..Len(images) : images'[k] = images[k]
      /\ Len(images') = Len(images) \/ /\ Len(images') = Len(images) + 1
                                       /\ images'[Len(images) + 1] = image
    <2>1. CASE images' = images
        BY <1>1, <2>1, AppendKeeps
    <2>2. CASE images' = Append(images, image)
        BY <1>1, <2>2, AppendKeeps
    <2> QED BY <2>1, <2>2
<1>4. /\ Len(videos) \in Nat /\ Len(videos') \in Nat
      /\ Len(videos) <= Len(videos')
      /\ \A k \in 1..Len(videos) : videos'[k] = videos[k]
    <2>1. CASE videos' = videos
        BY <1>1, <2>1, AppendKeeps
    <2>2. CASE videos' = Append(videos, video)
        BY <1>1, <2>2, AppendKeeps
    <2> QED BY <2>1, <2>2
<1>5. /\ Draft.images = images /\ Draft.videos = videos /\ Draft.items = items
      /\ Draft'.images = images' /\ Draft'.videos = videos' /\ Draft'.items = items'
    BY DEF Draft
<1>6. ImagesHold'
    <2>1. Len(images) >= Len(Current.images)
        BY DEF Inv, ImagesHold
    <2>2. Len(Current.images) \in Nat
        <3>1. IsRequest(Current) /\ Current.form = "dict"
            BY CurrentIsARequest DEF Inv, PlacesHold, Content
        <3> QED BY <3>1 DEF IsRequest
    <2>3. Len(images') >= Len(Current.images)
        BY <1>3, <2>1, <2>2
    <2>4. \A k \in 1..Len(images') : images'[k].from \in {"supplied", "item"}
        BY <1>3 DEF Inv, ImagesHold
    <2>5. \A k \in 1..Len(images') : k <= Len(Current.images)
                => images'[k] = [from |-> "supplied", place |-> k]
        <3>1. \A k \in 1..Len(images') : k <= Len(Current.images) => k \in 1..Len(images)
            BY <1>3, <2>1, <2>2
        <3> QED BY <1>3, <3>1 DEF Inv, ImagesHold
    <2> QED BY <1>1, <1>3, <2>3, <2>4, <2>5 DEF ImagesHold, Content
<1>7. ItemsHold'
    <2>1. ASSUME NEW i \in 1..Len(items) PROVE ItemHolds(Current, Draft', i)
        <3>1. ItemHolds(Current, Draft, i)
            BY <2>1 DEF Inv, ItemsHold
        <3>2. Draft'.items[i] = Draft.items[i]
            BY <1>2, <1>5
        <3> QED BY <1>1, <1>3, <1>4, <1>5, <3>1, <3>2, NamesSurvive
    <2>2. \A i \in 1..Len(items') : ItemHolds(Current, Draft', i)
        BY <1>1, <1>2, <2>1
    <2>3. Len(items') = at' - 1 /\ at' <= Len(Current.items) + 1
        <3>1. Len(Current.items) \in Nat
            <4>1. IsRequest(Current) /\ Current.form = "dict"
                BY CurrentIsARequest DEF Inv, PlacesHold, Content
            <4> QED BY <4>1 DEF IsRequest, IsListOf
        <3> QED BY <1>1, <1>2, <3>1
    <2>4. (\A i \in 1..Len(items) : ItemHolds(Current, Draft, i))'
        BY <1>1, <2>2
    <2> QED BY <1>1, <1>2, <2>3, <2>4 DEF ItemsHold, Content
<1>8. PreparedHold'
    BY DEF Inv, PreparedHold, RequestHolds, Content
<1> QED BY <1>6, <1>7, <1>8 DEF Inv

(* Where no video is added the videos are as they were.                       *)
LEMMA VideosUnchanged ==
    ASSUME Inv, UNCHANGED <<requests, prepared, videos, cache>>, at' = at + 1,
           stage = "content", stage' = "content"
    PROVE  VideosHold'
<1>1. Current' = Current /\ at \in Nat
    BY DEF Current, Inv, PlacesHold
<1>2. \A k \in 1..Len(videos) : videos[k].from = "item" => videos[k].place \in 1..(at' - 1)
    <2>1. \A p \in 1..(at - 1) : p \in 1..(at' - 1)
        BY <1>1
    <2> QED BY <2>1 DEF Inv, VideosHold, Content
<1> QED BY <1>1, <1>2 DEF Inv, VideosHold, Content

(* The kinds of items without a video.                                        *)
LEMMA InvThroughKeptItems ==
    ASSUME Inv, PlacesHold', KeepText \/ KeepPosition \/ KeepInline \/ ReuseVideo
    PROVE  Inv'
<1>1. /\ stage = "content" /\ stage' = "content" /\ at <= Len(Current.items)
      /\ UNCHANGED <<requests, prepared, videos, cache>> /\ at' = at + 1
      /\ at \in Nat \ {0}
    BY DEF KeepText, KeepPosition, KeepInline, ReuseVideo, AtItem, NextItem, Inv,
           PlacesHold
<1>2. /\ IsSequence(items) /\ IsSequence(images) /\ IsSequence(videos)
      /\ Len(items) = at - 1
    BY <1>1 DEF Inv, ItemsHold, ImagesHold, VideosHold, Content
<1>3. VideosHold'
    BY <1>1, VideosUnchanged
<1>4. /\ Draft'.images = images' /\ Draft'.videos = videos' /\ Draft'.items = items'
    BY DEF Draft
<1>5. ASSUME NEW named, items' = Append(items, named)
      PROVE  Draft'.items[at] = named
    BY <1>1, <1>2, <1>4, <1>5, AppendKeeps
<1> DEFINE shown == [from |-> "item", place |-> at]
<1>5a. shown.from \in {"supplied", "item"}
    OBVIOUS
<1>6. CASE KeepText
    <2> DEFINE named == [kind |-> "text"]
    <2>1. items' = Append(items, named) /\ images' = images /\ Current.items[at].kind = "text"
        BY <1>6 DEF KeepText, AtItem, NextItem, Item
    <2>2. ItemHolds(Current, Draft', at)
        BY <1>5, <2>1 DEF ItemHolds
    <2> HIDE DEF named, shown
    <2>3. stage \in Content /\ UNCHANGED <<requests, prepared>> /\ videos' = videos
        BY <1>1 DEF Content
    <2> QED BY <1>1, <1>3, <1>5a, <2>1, <2>2, <2>3, InvThroughItem
<1>7. CASE KeepPosition
    <2> DEFINE named == [kind |-> "image", index |-> Item.index]
    <2>1. items' = Append(items, named) /\ images' = images
          /\ Current.items[at].kind = "imageRef"
        BY <1>7 DEF KeepPosition, AtItem, NextItem, Item
    <2>2. ItemHolds(Current, Draft', at)
        BY <1>5, <2>1 DEF ItemHolds, Item
    <2> HIDE DEF named, shown
    <2>3. stage \in Content /\ UNCHANGED <<requests, prepared>> /\ videos' = videos
        BY <1>1 DEF Content
    <2> QED BY <1>1, <1>3, <1>5a, <2>1, <2>2, <2>3, InvThroughItem
<1>8. CASE KeepInline
    <2> DEFINE named == [kind |-> "image", index |-> Len(images)]
    <2>1. items' = Append(items, named) /\ images' = Append(images, shown)
          /\ Current.items[at].kind = "image"
        BY <1>8 DEF KeepInline, AtItem, NextItem, Item
    <2>2. /\ Len(images) \in Nat /\ Len(images') = Len(images) + 1
          /\ images'[Len(images) + 1] = shown
        BY <1>2, <2>1, AppendKeeps
    <2>3. ItemHolds(Current, Draft', at)
        <3>1. Draft'.items[at] = named /\ named.index = Len(images)
            BY <1>5, <2>1
        <3>2. /\ Len(images) \in 0..(Len(Draft'.images) - 1)
              /\ Draft'.images[Len(images) + 1] = shown
            BY <1>4, <2>2
        <3> QED BY <2>1, <3>1, <3>2 DEF ItemHolds
    <2> QED BY <1>1, <1>3, <2>1, <2>3, InvThroughItem DEF Content
<1>9. CASE ReuseVideo
    <2> DEFINE named == [kind |-> "video", index |-> cache[CacheKey] - 1]
    <2>1. items' = Append(items, named) /\ images' = images
          /\ Current.items[at].kind = "videoRef" /\ CacheKey \in DOMAIN cache
        BY <1>9 DEF ReuseVideo, AtItem, NextItem, Item, Cached
    <2>2. PICK n \in 1..Len(videos) :
            /\ n = cache[CacheKey] /\ videos[n].from = "supplied"
            /\ videos[n].place = Item.index + 1 /\ videos[n].options = Item.options
        BY <2>1 DEF Inv, VideosHold, CacheKey
    <2>3. n - 1 \in 0..(Len(videos) - 1) /\ (n - 1) + 1 = n
        BY <1>2, AppendKeeps
    <2>4. ItemHolds(Current, Draft', at)
        <3>1. Draft'.items[at] = named /\ named.index = n - 1
            BY <1>5, <2>1, <2>2
        <3>2. Draft'.videos = videos
            BY <1>1, <1>4
        <3>3. Current.items[at].options = Item.options
              /\ Current.items[at].index = Item.index
            BY DEF Item
        <3> QED BY <2>1, <2>2, <2>3, <3>1, <3>2, <3>3 DEF ItemHolds
    <2> HIDE DEF named, shown
    <2>5. stage \in Content /\ UNCHANGED <<requests, prepared>> /\ videos' = videos
        BY <1>1 DEF Content
    <2> QED BY <1>1, <1>3, <1>5a, <2>1, <2>4, <2>5, InvThroughItem
<1> QED BY <1>6, <1>7, <1>8, <1>9

-------------------------------------------------------------------------------
(* A decoded video: its frames span its clip, it is found again by its place  *)
(* and options, and no other video has both.                                  *)
LEMMA KeptVideosHold ==
    ASSUME Inv, PlacesHold', KeepVideo
    PROVE  VideosHold'
<1> DEFINE video == DecodedVideo
           n == Len(videos) + 1
           Shown == Item.kind = "videoRef"
<1>1. /\ stage = "decode" /\ stage' = "content" /\ at \in Nat \ {0} /\ at' = at + 1
      /\ Current' = Current /\ Item.kind \in {"video", "videoRef"} /\ InRange
      /\ at <= Len(Current.items) /\ IsSequence(videos)
      /\ videos' = Append(videos, video) /\ DecodeErrors = {}
      /\ cache' = IF Shown THEN Remember({CacheKey}, n) ELSE cache
    BY DEF KeepVideo, Decoded, NextItem, Inv, PlacesHold, VideosHold, Current
<1>2. /\ video.from = PlaceOf.from /\ video.place = PlaceOf.place
      /\ video.options = Item.options /\ video.indices = Frames
    BY DEF DecodedVideo
<1>3. /\ Shown => video.from = "supplied" /\ video.place = Item.index + 1
                  /\ Item.index \in Nat
      /\ ~Shown => video.from = "item" /\ video.place = at
    <2>1. Shown => Item.index \in Nat
        BY <1>1, ItemIsAnItem DEF IsItem, Inv
    <2> QED BY <1>2, <2>1 DEF PlaceOf
<1>4. /\ IsSequence(videos') /\ Len(videos) \in Nat /\ Len(videos') = n
      /\ \A k \in 1..Len(videos) : videos'[k] = videos[k]
      /\ videos'[n] = video
    BY <1>1, AppendKeeps
<1>5. IsVideo(VideoOf) /\ IsOptions(Item.options)
    BY <1>1, VideoAtHand, ItemIsAnItem DEF IsItem, Inv
<1>6. WrittenIn(Current, video) = VideoOf
    BY <1>1, <1>3 DEF WrittenIn, VideoOf, Item
<1>7. VideoOf.form \in FileForms =>
        SpansTheClip(Frames, VideoOf.total, VideoOf.fps, Item.options)
    <2>1. SUFFICES ASSUME VideoOf.form \in FileForms
                   PROVE  SpansTheClip(Frames, VideoOf.total, VideoOf.fps, Item.options)
        OBVIOUS
    <2>2. FileErrors(VideoOf, Item.options) = {}
        BY <1>1, <2>1 DEF DecodeErrors
    <2>3. SamplingError(VideoOf.total, VideoOf.fps, Item.options) = "None"
        BY <2>2 DEF FileErrors
    <2>4. VideoOf.total \in Nat /\ VideoOf.fps \in Nat
        BY <1>5, <2>1 DEF IsVideo
    <2>5. Frames = SampleIndices(VideoOf.total, VideoOf.fps, Item.options)
        BY <2>1 DEF Frames
    <2> QED BY <1>5, <2>3, <2>4, <2>5, SamplesSpanTheClip
<1>8. Shown => CacheKey \notin DOMAIN cache /\ CacheKey = <<Item.index, Item.options>>
    BY <1>1 DEF Inv, VideosHold, Cached, CacheKey
<1>9. /\ \A key \in DOMAIN cache : key \in DOMAIN cache' /\ cache'[key] = cache[key]
      /\ Shown => CacheKey \in DOMAIN cache' /\ cache'[CacheKey] = n
      /\ \A key \in DOMAIN cache' : key \in DOMAIN cache \/ (Shown /\ key = CacheKey)
    BY <1>1, <1>8 DEF Remember
<1> HIDE DEF video
<1>10. ASSUME NEW k \in 1..Len(videos')
       PROVE  /\ videos'[k].from \in {"supplied", "item"}
              /\ videos'[k].from = "supplied" =>
                    /\ <<videos'[k].place - 1, videos'[k].options>> \in DOMAIN cache'
                    /\ cache'[<<videos'[k].place - 1, videos'[k].options>>] = k
              /\ videos'[k].from = "item" => videos'[k].place \in 1..(at' - 1)
              /\ WrittenIn(Current, videos'[k]).form \in FileForms =>
                    SpansTheClip(videos'[k].indices, WrittenIn(Current, videos'[k]).total,
                                 WrittenIn(Current, videos'[k]).fps, videos'[k].options)
    <2>1. CASE k \in 1..Len(videos)
        <3>1. videos'[k] = videos[k]
            BY <1>4, <2>1
        <3>2. \A p \in 1..(at - 1) : p \in 1..(at' - 1)
            BY <1>1
        <3>3. /\ videos[k].from \in {"supplied", "item"}
              /\ videos[k].from = "supplied" =>
                    /\ <<videos[k].place - 1, videos[k].options>> \in DOMAIN cache
                    /\ cache[<<videos[k].place - 1, videos[k].options>>] = k
              /\ videos[k].from = "item" => videos[k].place \in 1..(at - 1)
            BY <1>1, <2>1 DEF Inv, VideosHold, Content
        <3>4. WrittenIn(Current, videos[k]).form \in FileForms =>
                SpansTheClip(videos[k].indices, WrittenIn(Current, videos[k]).total,
                             WrittenIn(Current, videos[k]).fps, videos[k].options)
            BY <1>1, <2>1 DEF Inv, VideosHold, Content
        <3> QED BY <1>9, <3>1, <3>2, <3>3, <3>4
    <2>2. CASE k = n
        <3>1. videos'[k] = video
            BY <1>4, <2>2
        <3>2. video.from = "supplied" => <<video.place - 1, video.options>> = CacheKey
            BY <1>2, <1>3, <1>8
        <3>3. video.from = "supplied" => Shown
            BY <1>3
        <3>4. at \in 1..(at' - 1)
            BY <1>1
        <3> QED BY <1>2, <1>3, <1>6, <1>7, <1>9, <2>2, <3>1, <3>2, <3>3, <3>4
    <2> QED BY <1>4, <2>1, <2>2
<1>11. ASSUME NEW j \in 1..Len(videos'), NEW k \in 1..Len(videos'),
              videos'[j].from = "item", videos'[k].from = "item",
              videos'[j].place = videos'[k].place
       PROVE  j = k
    <2>1. \A i \in 1..Len(videos) : videos'[i].from = "item" => videos'[i].place # at
        <3>1. \A i \in 1..Len(videos) : videos[i].from = "item" => videos[i].place \in 1..(at - 1)
            BY <1>1 DEF Inv, VideosHold, Content
        <3>2. at \notin 1..(at - 1)
            BY <1>1
        <3> QED BY <1>4, <3>1, <3>2
    <2>2. videos'[n].from = "item" => videos'[n].place = at
        BY <1>3, <1>4
    <2>3. \A i \in 1..Len(videos') : i \in 1..Len(videos) \/ i = n
        BY <1>4
    <2>4. CASE j \in 1..Len(videos) /\ k \in 1..Len(videos)
        BY <1>4, <1>11, <2>4 DEF Inv, VideosHold
    <2> QED BY <1>11, <2>1, <2>2, <2>3, <2>4
<1>12. ASSUME NEW key \in DOMAIN cache'
       PROVE  /\ cache'[key] \in 1..Len(videos')
              /\ videos'[cache'[key]].from = "supplied"
              /\ videos'[cache'[key]].place = key[1] + 1
              /\ videos'[cache'[key]].options = key[2]
    <2>1. CASE key \in DOMAIN cache
        <3>1. /\ cache[key] \in 1..Len(videos) /\ videos[cache[key]].from = "supplied"
              /\ videos[cache[key]].place = key[1] + 1
              /\ videos[cache[key]].options = key[2]
            BY <2>1 DEF Inv, VideosHold
        <3>2. cache[key] \in 1..Len(videos')
            BY <1>4, <3>1
        <3> QED BY <1>4, <1>9, <2>1, <3>1, <3>2
    <2>2. CASE Shown /\ key = CacheKey
        <3>1. cache'[key] = n /\ key[1] = Item.index /\ key[2] = Item.options
            BY <1>8, <1>9, <2>2
        <3> QED BY <1>2, <1>3, <1>4, <2>2, <3>1
    <2> QED BY <1>9, <2>1, <2>2
<1> QED BY <1>1, <1>4, <1>10, <1>11, <1>12 DEF VideosHold, Content

(* Keeping a video names it in its item.                                      *)
LEMMA InvThroughKeptVideos ==
    ASSUME Inv, PlacesHold', KeepVideo
    PROVE  Inv'
<1> DEFINE video == DecodedVideo
           named == [kind |-> "video", index |-> Len(videos)]
           shown == [from |-> "item", place |-> at]
<1>1. /\ stage \in Content /\ stage' = "content" /\ at <= Len(Current.items)
      /\ UNCHANGED <<requests, prepared>> /\ at' = at + 1 /\ images' = images
      /\ items' = Append(items, named) /\ videos' = Append(videos, video)
      /\ Item.kind \in {"video", "videoRef"} /\ at \in Nat \ {0}
      /\ stage = "decode"
    BY DEF KeepVideo, Decoded, NextItem, Inv, PlacesHold, Content
<1>2. /\ IsSequence(items) /\ IsSequence(videos) /\ Len(items) = at - 1
    BY <1>1 DEF Inv, ItemsHold, VideosHold
<1>3. /\ Draft'.videos = videos' /\ Draft'.items = items'
    BY DEF Draft
<1>4. /\ video.from = PlaceOf.from /\ video.place = PlaceOf.place
      /\ video.options = Item.options
    BY DEF DecodedVideo
<1>5. shown.from \in {"supplied", "item"}
    OBVIOUS
<1> HIDE DEF video
<1>6. Draft'.items[at] = named
    BY <1>1, <1>2, <1>3, AppendKeeps
<1>7. /\ Len(videos) \in Nat /\ Len(videos') = Len(videos) + 1
      /\ videos'[Len(videos) + 1] = video
    BY <1>1, <1>2, AppendKeeps
<1>8. ItemHolds(Current, Draft', at)
    <2>1. named.index = Len(videos) /\ Len(videos) \in 0..(Len(Draft'.videos) - 1)
          /\ Draft'.videos[Len(videos) + 1] = video
        BY <1>3, <1>7
    <2>2. Item = Current.items[at]
        BY DEF Item
    <2>3. IF Item.kind = "video" THEN video.from = "item" /\ video.place = at
          ELSE video.from = "supplied" /\ video.place = Item.index + 1
        BY <1>1, <1>4 DEF PlaceOf
    <2> QED BY <1>1, <1>4, <1>6, <2>1, <2>2, <2>3 DEF ItemHolds
<1>9. VideosHold'
    BY KeptVideosHold
<1> HIDE DEF named, shown
<1> QED BY <1>1, <1>5, <1>8, <1>9, InvThroughItem

-------------------------------------------------------------------------------
(* The beginning and the end of a request.                                    *)

(* The supplied images come first, in the order they were supplied.           *)
LEMMA InvThroughSuppliedImages ==
    ASSUME Inv, PlacesHold', KeepSupplied \/ BeginRequest \/ BeginContent
    PROVE  Inv'
<1>1. /\ UNCHANGED <<requests, prepared>> /\ Current' = Current
      /\ at \in Nat \ {0}
    BY DEF KeepSupplied, BeginRequest, BeginContent, Current, Inv, PlacesHold
<1>2. PreparedHold'
    BY <1>1 DEF KeepSupplied, BeginRequest, BeginContent, Inv, PreparedHold,
       RequestHolds, Content
<1>3. CASE BeginRequest
    <2>1. /\ stage' = "supplied" /\ at' = 1 /\ images' = <<>> /\ videos' = <<>>
          /\ items' = <<>> /\ cache' = <<>> /\ Current.form = "dict" /\ Within
        BY <1>3 DEF BeginRequest
    <2>2. IsSequence(<<>>) /\ Len(<<>>) = 0 /\ DOMAIN <<>> = {}
        BY DEF IsSequence
    <2>3. Len(Current.images) \in Nat
        <3>1. IsRequest(Current)
            BY <2>1, CurrentIsARequest DEF Inv, PlacesHold
        <3> QED BY <2>1, <3>1 DEF IsRequest
    <2>4. ImagesHold'
        <3>1. ~ Loading'
            BY <1>3 DEF BeginRequest, readingVars, Loading
        <3> QED BY <1>1, <2>1, <2>2, <2>3, <3>1 DEF ImagesHold, Content
    <2>5. VideosHold'
        BY <1>1, <2>1, <2>2 DEF VideosHold, Content
    <2>6. ItemsHold'
        BY <1>1, <2>1, <2>2 DEF ItemsHold, Content
    <2> QED BY <1>2, <2>4, <2>5, <2>6 DEF Inv
<1>4. CASE KeepSupplied
    <2> DEFINE image == [from |-> "supplied", place |-> at]
    <2>1. /\ stage = "supplied" /\ stage' = "supplied" /\ at' = at + 1
          /\ images' = Append(images, image) /\ UNCHANGED <<videos, items, cache>>
        BY <1>4 DEF KeepSupplied
    <2>2. image.from = "supplied"
        OBVIOUS
    <2>3. /\ IsSequence(images) /\ Len(images) = at - 1
          /\ \A k \in 1..Len(images) : images[k] = [from |-> "supplied", place |-> k]
        BY <2>1 DEF Inv, ImagesHold
    <2>4. at <= Len(Current.images) /\ Len(Current.images) \in Nat
        <3>1. Loading
            BY <1>4 DEF KeepSupplied, Take, Loading
        <3>2. IsRequest(Current) /\ Current.form = "dict"
            BY <2>1, CurrentIsARequest DEF Inv, PlacesHold
        <3> QED BY <2>1, <3>1, <3>2 DEF Inv, ImagesHold, IsRequest
    <2>5. ImagesHold'
        <3>1. /\ IsSequence(images') /\ Len(images') = at /\ Len(images) + 1 = at
              /\ \A k \in 1..Len(images) : images'[k] = images[k]
              /\ images'[at] = image
            BY <1>1, <2>1, <2>3, AppendKeeps
        <3>2. ASSUME NEW k \in 1..at
              PROVE  images'[k] = [from |-> "supplied", place |-> k]
            <4>1. CASE k = at
                BY <3>1, <4>1
            <4>2. CASE k # at
                <5>1. k \in 1..Len(images)
                    BY <1>1, <2>3, <4>2
                <5> QED BY <2>3, <3>1, <5>1
            <4> QED BY <4>1, <4>2
        <3>3. ASSUME NEW k \in 1..at PROVE images'[k].from \in {"supplied", "item"}
            <4>1. images'[k] = [from |-> "supplied", place |-> k]
                BY <3>2
            <4> QED BY <4>1
        <3>4. ~ Loading'
            BY <1>4 DEF KeepSupplied, Take, Loading
        <3> QED BY <1>1, <2>1, <2>4, <3>1, <3>2, <3>3, <3>4 DEF ImagesHold, Content
    <2>6. VideosHold'
        BY <1>1, <2>1 DEF Inv, VideosHold, Content
    <2>7. ItemsHold'
        BY <1>1, <2>1 DEF Inv, ItemsHold, Content
    <2> QED BY <1>2, <2>5, <2>6, <2>7 DEF Inv
<1>5. CASE BeginContent
    <2>1. /\ stage = "supplied" /\ stage' = "content" /\ at' = 1
          /\ at > Len(Current.images)
          /\ UNCHANGED <<images, videos, items, cache>>
        BY <1>5 DEF BeginContent
    <2>2. IsRequest(Current) /\ Current.form = "dict"
        BY <2>1, CurrentIsARequest DEF Inv, PlacesHold
    <2>3. Len(Current.images) \in Nat /\ Len(Current.items) \in Nat
        BY <2>2 DEF IsRequest, IsListOf
    <2>4. /\ Len(images) = at - 1 /\ at <= Len(Current.images) + 1 /\ IsSequence(images)
          /\ \A k \in 1..Len(images) : images[k] = [from |-> "supplied", place |-> k]
        BY <2>1 DEF Inv, ImagesHold
    <2>5. Len(images) = Len(Current.images)
        BY <1>1, <2>1, <2>3, <2>4
    <2>6. ImagesHold'
        BY <1>1, <2>1, <2>4, <2>5, <2>3 DEF Inv, ImagesHold, Content
    <2>7. VideosHold'
        BY <1>1, <2>1 DEF Inv, VideosHold, Content
    <2>8. ItemsHold'
        <3>1. items = <<>> /\ Len(items) = 0
            BY <2>1 DEF Inv, ItemsHold
        <3> QED BY <1>1, <2>1, <2>3, <3>1 DEF Inv, ItemsHold, Content
    <2> QED BY <1>2, <2>6, <2>7, <2>8 DEF Inv
<1> QED BY <1>3, <1>4, <1>5

(* A kept item names its medium, in the words of the property.                *)
LEMMA HeldItemsNameTheirMedia ==
    ASSUME Inv, stage \in Content, NEW i \in 1..Len(items)
    PROVE  NamesItsMedium(Current, Draft, i)
<1>1. ItemHolds(Current, Draft, i)
    BY DEF Inv, ItemsHold
<1>2. IsItem(Current.items[i]) /\ Len(Current.images) \in Nat
    <2>1. IsRequest(Current) /\ Current.form = "dict"
        BY CurrentIsARequest DEF Inv, PlacesHold, Content
    <2>2. Len(items) = at - 1 /\ at <= Len(Current.items) + 1 /\ at \in Nat
        BY DEF Inv, ItemsHold, PlacesHold
    <2>3. i \in 1..Len(Current.items)
        BY <2>1, <2>2 DEF IsRequest, IsListOf
    <2> QED BY <2>1, <2>3 DEF IsRequest, IsListOf
<1>3. CASE Current.items[i].kind = "imageRef"
    <2>1. SUFFICES ASSUME Current.items[i].index < Len(Current.images)
                   PROVE  images[Current.items[i].index + 1]
                            = [from |-> "supplied", place |-> Current.items[i].index + 1]
        <3>1. Draft.items[i].index = Current.items[i].index /\ Draft.images = images
            BY <1>1, <1>3 DEF ItemHolds, Draft
        <3> QED BY <1>3, <3>1 DEF NamesItsMedium
    <2>2. PICK k \in Nat : k = Current.items[i].index + 1
        BY <1>2, <1>3 DEF IsItem
    <2>3. k <= Len(Current.images) /\ k >= 1 /\ Len(images) >= Len(Current.images)
        BY <1>2, <1>3, <2>1, <2>2 DEF IsItem, Inv, ImagesHold
    <2>4. Len(images) \in Nat
        BY AppendKeeps DEF Inv, ImagesHold
    <2>5. k \in 1..Len(images)
        BY <1>2, <2>2, <2>3, <2>4
    <2> QED BY <2>2, <2>3, <2>5 DEF Inv, ImagesHold
<1>4. CASE Current.items[i].kind # "imageRef"
    BY <1>1, <1>4 DEF ItemHolds, NamesItsMedium
<1> QED BY <1>3, <1>4

(* No video is kept twice.                                                    *)
LEMMA KeptVideosAreDistinct ==
    ASSUME Inv, NEW j \in 1..Len(videos), NEW k \in 1..Len(videos),
           videos[j] = videos[k]
    PROVE  j = k
<1>1. CASE videos[j].from = "item"
    BY <1>1 DEF Inv, VideosHold
<1>2. CASE videos[j].from = "supplied"
    <2> DEFINE key == <<videos[j].place - 1, videos[j].options>>
    <2>1. cache[key] = j
        BY <1>2 DEF Inv, VideosHold
    <2>2. key = <<videos[k].place - 1, videos[k].options>> /\ videos[k].from = "supplied"
        BY <1>2
    <2> HIDE DEF key
    <2>3. cache[key] = k
        BY <2>2 DEF Inv, VideosHold
    <2> QED BY <2>1, <2>3
<1>3. videos[j].from \in {"supplied", "item"}
    BY DEF Inv, VideosHold
<1> QED BY <1>1, <1>2, <1>3

(* A request that is passed on is left alone, a closed one is its draft.      *)
LEMMA InvThroughPreparedRequests ==
    ASSUME Inv, PlacesHold', PassThrough \/ CloseRequest
    PROVE  Inv'
<1>1. /\ Within /\ IsSequence(prepared) /\ IsListOf(requests, IsRequest)
      /\ UNCHANGED <<requests, at, images, videos, cache, items>> /\ stage' = "request"
    BY BatchesAssumption DEF PassThrough, CloseRequest, AtEnd, Inv, PlacesHold
<1>2. PICK closed : prepared' = Append(prepared, closed)
    BY DEF PassThrough, CloseRequest
<1>3. /\ Len(prepared) \in Nat /\ Len(prepared') = Len(prepared) + 1
      /\ \A r \in 1..Len(prepared) : prepared'[r] = prepared[r]
      /\ prepared'[Len(prepared) + 1] = closed
    BY <1>1, <1>2, AppendKeeps
<1>4. PICK n \in Nat : n = Len(prepared) + 1
    BY <1>3
<1>4a. Current = requests[n] /\ prepared'[n] = closed /\ Len(prepared') = n
    BY <1>3, <1>4 DEF Current
<1>5. RequestHolds(n)'
    <2>1. CASE PassThrough
        <3>1. prepared'[n] = [form |-> "other"]
            BY <1>1, <1>4, <2>1, AppendKeeps DEF PassThrough
        <3> QED BY <3>1 DEF RequestHolds
    <2>2. CASE CloseRequest
        <3>1. prepared'[n] = Draft
            BY <1>1, <1>4, <2>2, AppendKeeps DEF CloseRequest, Draft
        <3>2. stage = "content" /\ at > Len(Current.items)
            BY <2>2 DEF CloseRequest, AtEnd
        <3>3. /\ Len(items) = at - 1 /\ at <= Len(Current.items) + 1 /\ at \in Nat
              /\ IsSequence(items) /\ IsSequence(videos)
            BY <3>2 DEF Inv, ItemsHold, VideosHold, PlacesHold, Content
        <3>4. Len(Current.items) \in Nat
            <4>1. IsRequest(Current) /\ Current.form = "dict"
                BY <3>2, CurrentIsARequest DEF Inv, PlacesHold
            <4> QED BY <4>1 DEF IsRequest, IsListOf
        <3>5. Len(items) = Len(Current.items)
            BY <3>2, <3>3, <3>4
        <3>6. Draft.items = items /\ Draft.videos = videos
            BY DEF Draft
        <3>7. \A i \in 1..Len(items) : NamesItsMedium(Current, Draft, i)
            BY <3>2, HeldItemsNameTheirMedia DEF Content
        <3>8. DOMAIN items = 1..Len(items) /\ DOMAIN videos = 1..Len(videos)
            BY <3>3, AppendKeeps
        <3>9. \A j, k \in DOMAIN videos : videos[j] = videos[k] => j = k
            BY <3>8, KeptVideosAreDistinct
        <3>10. requests'[n] = Current
            BY <1>1, <1>4a
        <3> QED BY <3>1, <3>5, <3>6, <3>7, <3>8, <3>9, <3>10 DEF RequestHolds
    <2> QED BY <2>1, <2>2
<1>6. PreparedHold'
    <2>1. Len(prepared') <= Len(requests)
        BY <1>1, <1>3 DEF Within, IsListOf
    <2>2. ASSUME NEW r \in 1..Len(prepared) PROVE RequestHolds(r)'
        BY <1>1, <1>3, <2>2 DEF Inv, PreparedHold, RequestHolds
    <2>3. \A r \in 1..Len(prepared') : r \in 1..Len(prepared) \/ r = n
        BY <1>3, <1>4
    <2>4. (\A r \in 1..Len(prepared) : RequestHolds(r))'
        BY <1>5, <2>2, <2>3
    <2> QED BY <1>1, <2>4, <2>1, <2>2, <2>3 DEF PreparedHold
<1>7. ImagesHold' /\ VideosHold' /\ ItemsHold'
    BY <1>1 DEF Inv, ImagesHold, VideosHold, ItemsHold, Content
<1> QED BY <1>6, <1>7 DEF Inv

(* No step of a request that is being normalized loses what it holds.         *)
LEMMA InvKept ==
    ASSUME Inv, [Next]_vars
    PROVE  Inv'
<1>1. PlacesHold'
    BY StepsReadAndKeepTheirPlace DEF Inv
<1>2. CASE ReadStep /\ UNCHANGED requestVars
    <2>1. Loading' => Loading
        BY <1>2 DEF ReadStep, FailToOpen, Announce, KeepUncharged, ChargeBuffer,
           ChargeVideoPath, BeginRead, ReadChunk, EndOfStream, ReadFails, Loading
    <2> QED BY <1>1, <1>2, <2>1, InvThroughReading DEF requestVars
<1>3. CASE LoadSupplied \/ LoadInline \/ LoadFrame
    <2>1. stage = "supplied" => at <= Len(Current.images)
        BY <1>3 DEF LoadSupplied, LoadInline, LoadFrame, AtItem
    <2>2. UNCHANGED requestVars
        BY <1>3 DEF LoadSupplied, LoadInline, LoadFrame
    <2> QED BY <1>1, <2>1, <2>2, InvThroughReading DEF requestVars
<1>4. ASSUME NEW failure, Refuse(failure) PROVE Inv'
    <2>1. ~ Loading' /\ UNCHANGED requestVars
        BY <1>4 DEF Refuse, Stop, Loading
    <2> QED BY <1>1, <2>1, InvThroughReading DEF requestVars
<1>5. CASE RefuseMalformed \/ RefuseVideo \/ FailFrame \/ FailToDecode \/ RefuseUnreferenced
    <2>1. PICK failure : Refuse(failure)
        BY <1>5 DEF RefuseMalformed, RefuseVideo, FailFrame, FailToDecode, RefuseUnreferenced
    <2> QED BY <1>4, <2>1
<1>6. CASE Submit \/ UNCHANGED vars
    <2>1. UNCHANGED requestVars /\ (Loading' => Loading)
        BY <1>6 DEF Submit, Stop, Loading, vars, requestVars
    <2> QED BY <1>1, <2>1, InvThroughReading DEF requestVars
<1>7. CASE OpenVideo
    <2>1. /\ stage = "content" /\ ~Cached /\ stage' \in {"frames", "decode"}
          /\ UNCHANGED <<requests, at, images, videos, cache, items, prepared>>
        BY <1>7 DEF OpenVideo, AtItem
    <2> QED BY <1>1, <2>1, InvThroughReading
<1>8. CASE KeepFrame
    <2>1. /\ stage = "frames" /\ stage' \in {"frames", "decode"}
          /\ UNCHANGED <<requests, at, images, videos, cache, items, prepared>>
        BY <1>8 DEF KeepFrame
    <2> QED BY <1>1, <2>1, InvThroughReading
<1>9. CASE KeepText \/ KeepPosition \/ KeepInline \/ ReuseVideo
    BY <1>1, <1>9, InvThroughKeptItems
<1>10. CASE KeepVideo
    BY <1>1, <1>10, InvThroughKeptVideos
<1>11. CASE KeepSupplied \/ BeginRequest \/ BeginContent
    BY <1>1, <1>11, InvThroughSuppliedImages
<1>12. CASE PassThrough \/ CloseRequest
    BY <1>1, <1>12, InvThroughPreparedRequests
<1> QED BY <1>2, <1>3, <1>5, <1>6, <1>7, <1>8, <1>9, <1>10, <1>11, <1>12
        DEF Next, Step, Answered

(* No request has been begun.                                                 *)
LEMMA InvHoldsInitially == Init => Inv
<1> SUFFICES ASSUME Init PROVE Inv
    OBVIOUS
<1>1. /\ stage = "request" /\ images = <<>> /\ videos = <<>> /\ items = <<>>
      /\ cache = <<>> /\ prepared = <<>> /\ requests \in Batches
    BY DEF Init
<1>2. IsSequence(<<>>) /\ Len(<<>>) = 0 /\ DOMAIN <<>> = {}
    BY DEF IsSequence
<1>3. Len(requests) \in Nat
    BY <1>1, BatchesAssumption DEF IsListOf
<1> QED BY <1>1, <1>2, <1>3, PlacesHoldInitially
        DEF Inv, ImagesHold, VideosHold, ItemsHold, PreparedHold, Content

(* What a request holds, at every moment of every batch.                      *)
LEMMA InvAlways == Spec => []Inv
<1>1. Inv /\ [Next]_vars => Inv'
    BY InvKept
<1> QED BY <1>1, InvHoldsInitially, PTL DEF Spec

-------------------------------------------------------------------------------
(* The properties of the run.                                                 *)

(* However images and videos are mixed inline and supplied, referred to once  *)
(* or often and with whatever options, every content item of a request that   *)
(* _media.py hands to the binding names the medium that was written there,    *)
(* and no video is decoded twice with the same options.                       *)
THEOREM ItemsNameWhatWasWritten == Spec => []ItemsNameTheirMedia
<1>1. ASSUME Inv PROVE ItemsNameTheirMedia
    <2>1. DOMAIN prepared = 1..Len(prepared)
        BY <1>1, AppendKeeps DEF Inv, PlacesHold
    <2>2. \A r \in 1..Len(prepared) : RequestHolds(r)
        BY <1>1 DEF Inv, PreparedHold
    <2> QED BY <2>1, <2>2 DEF RequestHolds, ItemsNameTheirMedia
<1> QED BY <1>1, InvAlways, PTL

(* Whatever the length and rate of a video file and the options it is used    *)
(* with, the frames _video.py decodes of it are distinct, in order and within *)
(* the clip, reach from one end of it to the other, are even in number unless *)
(* there is one, and are no more than the limit.                              *)
THEOREM DecodedFramesSpanTheClip == Spec => []SampledFramesSpanTheClip
<1>1. ASSUME Inv PROVE SampledFramesSpanTheClip
    <2>1. SUFFICES ASSUME NEW i \in DOMAIN videos, stage # "request",
                          WrittenIn(Current, videos[i]).form \in FileForms
                   PROVE  SpansTheClip(videos[i].indices, WrittenIn(Current, videos[i]).total,
                                       WrittenIn(Current, videos[i]).fps, videos[i].options)
        BY DEF SampledFramesSpanTheClip, WrittenIn
    <2>2. DOMAIN videos = 1..Len(videos) /\ Len(<<>>) = 0
        BY <1>1, AppendKeeps DEF Inv, VideosHold
    <2>3. stage \in Content
        BY <1>1, <2>1, <2>2 DEF Inv, PreparedHold, VideosHold, Content
    <2> QED BY <1>1, <2>1, <2>2, <2>3 DEF Inv, VideosHold
<1> QED BY <1>1, InvAlways, PTL

-------------------------------------------------------------------------------
(* The answer of a batch, the assertion that is never reached included.       *)
Named == answer \in Answers \cup {AssertionError}

(* Reading a source ends in an error with a name.                             *)
LEMMA ReadingAnswers ==
    ASSUME Named, ReadStep
    PROVE  Named'
<1>1. ASSUME NEW size PROVE Check(size) \in Breaches \cup {Accepted}
    BY DEF Check, Breaches
<1>2. ASSUME NEW size, Consume(size) PROVE Named'
    BY <1>1, <1>2 DEF Consume, Stop, Named, Answers
<1>3. CASE FailToOpen
    <2>1. PICK failure \in OpenFailures(source.kind) : Stop(failure)
        BY <1>3 DEF FailToOpen
    <2>2. failure \in Answers
        BY <2>1 DEF OpenFailures, Answers, Malformed
    <2> QED BY <2>1, <2>2 DEF Stop, Named
<1>4. CASE Announce
    <2>1. PICK broken : /\ broken = {Check(n) : n \in source.announced} \ {Accepted}
                        /\ IF broken = {} THEN UNCHANGED answer
                           ELSE \E breach \in broken : Stop(breach)
        BY <1>4 DEF Announce
    <2>2. broken \subseteq Breaches
        BY <1>1, <2>1
    <2> QED BY <2>1, <2>2 DEF Stop, Named, Answers
<1>5. CASE ChargeBuffer
    BY <1>2, <1>5 DEF ChargeBuffer, Stop, Named, Answers, Malformed
<1>6. CASE ChargeVideoPath
    BY <1>2, <1>6 DEF ChargeVideoPath
<1>7. CASE ReadChunk
    <2>1. PICK n : IF held + n > limit
                   THEN Stop(IF Check(held + n) = Accepted THEN AssertionError
                             ELSE Check(held + n))
                   ELSE UNCHANGED answer
        BY <1>7 DEF ReadChunk
    <2>2. Check(held + n) \in Breaches \cup {Accepted}
        BY <1>1
    <2> QED BY <2>1, <2>2 DEF Stop, Named, Answers
<1>8. CASE EndOfStream
    BY <1>2, <1>8 DEF EndOfStream
<1>9. CASE KeepUncharged \/ BeginRead \/ ReadFails
    BY <1>9 DEF KeepUncharged, BeginRead, ReadFails, Stop, Named, Answers
<1> QED BY <1>3, <1>4, <1>5, <1>6, <1>7, <1>8, <1>9 DEF ReadStep

(* Every refusal of a request has a name.                                     *)
LEMMA AnswersAreNamed ==
    ASSUME PlacesHold, Named, [Next]_vars
    PROVE  Named'
<1>1. Errors \subseteq Answers
    BY DEF Errors, Answers, InvalidOptions, Malformed
<1>2. ASSUME NEW failure \in Errors, Refuse(failure) PROVE Named'
    BY <1>1, <1>2 DEF Refuse, Stop, Named
<1>3. CASE ReadStep
    BY <1>3, ReadingAnswers
<1>4. CASE RefuseMalformed \/ RefuseUnreferenced
    BY <1>2, <1>4 DEF RefuseMalformed, RefuseUnreferenced, Errors
<1>5. CASE RefuseVideo
    BY <1>2, <1>5, EntryErrorIsAnError DEF RefuseVideo
<1>6. CASE FailFrame
    <2>1. IsVideo(VideoOf)
        BY <1>6, VideoAtHand DEF FailFrame, PlacesHold
    <2>2. ContentErrors(VideoOf.fault) \subseteq Errors
        BY <2>1, ContentErrorsAreErrors DEF IsVideo
    <2> QED BY <1>2, <1>6, <2>2 DEF FailFrame
<1>7. CASE FailToDecode
    <2>1. IsVideo(VideoOf)
        BY <1>7, VideoAtHand DEF FailToDecode, Decoded, PlacesHold
    <2>2. DecodeErrors \subseteq Errors
        BY <2>1, DecodeErrorsAreErrors
    <2> QED BY <1>2, <1>7, <2>2 DEF FailToDecode
<1>8. CASE Submit
    BY <1>8 DEF Submit, Stop, Named, Answers
<1>9. CASE PassThrough \/ BeginRequest \/ BeginContent \/ KeepText \/ KeepPosition \/ ReuseVideo
           \/ CloseRequest \/ UNCHANGED vars
    BY <1>9 DEF PassThrough, BeginRequest, BeginContent, KeepText, KeepPosition, ReuseVideo,
       CloseRequest, vars, readingVars, Named
<1>10. CASE LoadSupplied \/ LoadInline \/ LoadFrame \/ OpenVideo
    BY <1>10 DEF LoadSupplied, LoadInline, LoadFrame, OpenVideo, Load, readingVars, Named
<1>11. CASE KeepSupplied \/ KeepInline \/ KeepFrame \/ KeepVideo
    BY <1>11 DEF KeepSupplied, KeepInline, KeepFrame, KeepVideo, Take, Named
<1> QED BY <1>3, <1>4, <1>5, <1>6, <1>7, <1>8, <1>9, <1>10, <1>11 DEF Next, Step, Answered

(* A batch of media is normalized within the types of its state: the cache    *)
(* names videos that are kept, no more requests are prepared than there are,  *)
(* and the batch is answered with one of the errors the code raises.          *)
THEOREM NormalizationTypesAreCorrect == Spec => []TypeOK
<1>1. Init => Named
    BY DEF Init, ReadingInit, Named, Answers
<1>2. Inv /\ Named /\ [Next]_vars => Named'
    BY AnswersAreNamed DEF Inv
<1>3. Spec => []Named
    BY <1>1, <1>2, InvAlways, PTL DEF Spec
<1>4. Spec => []ReadInvariant
    <2>1. ReadingSpec => []ReadInvariant
        BY InvariantInitially, InvariantKept, PTL DEF ReadingSpec
    <2> QED BY <2>1, BatchesReadOneBudget, PTL
<1>5. ASSUME Inv, Named, ReadInvariant PROVE TypeOK
    <2>1. DOMAIN images = 1..Len(images) /\ DOMAIN videos = 1..Len(videos)
        BY <1>5, AppendKeeps DEF Inv, ImagesHold, VideosHold
    <2>2. answer \in Answers
        BY <1>5 DEF Named, ReadInvariant
    <2>3. at \in Nat /\ frame \in Nat
        BY <1>5 DEF Inv, PlacesHold
    <2> QED BY <1>5, <2>1, <2>2, <2>3
            DEF TypeOK, Inv, ImagesHold, VideosHold, PreparedHold, ReadInvariant, Content
<1> QED BY <1>3, <1>4, <1>5, InvAlways, PTL

-------------------------------------------------------------------------------
(* Sums over lists.                                                           *)

(* Below every natural number there are only finitely many.                   *)
LEMMA NatLessThanIsWellFounded ==
    IsWellFoundedOn({p \in Nat \X Nat : p[1] < p[2]}, Nat)
BY NatLessThanWellFounded DEF OpToRel

(* A set of naturals that is not empty has a least member.                    *)
LEMMA LeastMember ==
    ASSUME NEW S \in SUBSET Nat, S # {}
    PROVE  \E s \in S : \A t \in S : s <= t
<1>1. PICK s \in S :
          \A t \in S : <<t, s>> \notin {p \in Nat \X Nat : p[1] < p[2]}
    BY NatLessThanIsWellFounded, WFMin
<1>2. \A t \in S : ~(t < s)
    BY <1>1
<1> QED BY <1>2

(* A set with zero, and with the successor of each of its naturals, holds     *)
(* every natural number.                                                      *)
LEMMA NaturalsByInduction ==
    ASSUME NEW S, 0 \in S, \A n \in Nat : n \in S => n + 1 \in S
    PROVE  Nat \subseteq S
<1> SUFFICES ASSUME Nat \ S # {} PROVE FALSE
    OBVIOUS
<1>1. PICK x \in Nat \ S : \A y \in Nat \ S : x <= y
    BY LeastMember
<1>2. x # 0 /\ x - 1 \in Nat /\ x - 1 < x /\ (x - 1) + 1 = x
    BY <1>1
<1> QED BY <1>1, <1>2

(* The sums of the first sizes of a list.                                     *)
Sums(after, sizes, n) ==
    after = [k \in 0..n |-> IF k = 0 THEN 0 ELSE after[k - 1] + sizes[k]]

(* Sums of the first sizes exist.                                             *)
LEMMA SumsExist ==
    ASSUME NEW sizes, NEW n \in Nat
    PROVE  \E after : Sums(after, sizes, n)
<1> DEFINE S == {m \in Nat : \E after : Sums(after, sizes, m)}
<1>1. 0 \in S
    <2>1. Sums([k \in 0..0 |-> 0], sizes, 0)
        BY DEF Sums
    <2> QED BY <2>1
<1>2. ASSUME NEW m \in Nat, m \in S PROVE m + 1 \in S
    <2>1. PICK f : Sums(f, sizes, m)
        BY <1>2
    <2> DEFINE g == [k \in 0..(m + 1) |->
                        IF k <= m THEN f[k] ELSE f[m] + sizes[k]]
    <2>2. \A k \in 0..m : g[k] = f[k]
        OBVIOUS
    <2>3. \A k \in 0..(m + 1) :
              g[k] = IF k = 0 THEN 0 ELSE g[k - 1] + sizes[k]
        <3> TAKE k \in 0..(m + 1)
        <3>1. CASE k <= m
            <4>0. k \in 0..m
                BY <3>1
            <4>1. f[k] = IF k = 0 THEN 0 ELSE f[k - 1] + sizes[k]
                BY <2>1, <4>0, Zenon DEF Sums
            <4>2. k # 0 => k - 1 \in 0..m
                BY <3>1
            <4>3. g[k] = f[k] /\ (k # 0 => g[k - 1] = f[k - 1])
                BY <2>2, <3>1, <4>2
            <4> QED BY <4>1, <4>3
        <3>2. CASE k = m + 1
            <4>1. k # 0 /\ k - 1 = m /\ ~(k <= m) /\ m \in 0..m
                BY <3>2
            <4>2. g[k - 1] = f[m]
                BY <2>2, <4>1
            <4> QED BY <4>1, <4>2
        <3> QED BY <3>1, <3>2
    <2> HIDE DEF g
    <2>4. Sums(g, sizes, m + 1)
        <3>1. g = [k \in 0..(m + 1) |-> g[k]]
            BY DEF g
        <3> QED BY <2>3, <3>1 DEF Sums
    <2> QED BY <2>4
<1>3. Nat \subseteq S
    BY <1>1, <1>2, NaturalsByInduction
<1> QED BY <1>3

(* The sum of some sizes is the last of their sums.                           *)
LEMMA SumIsTheLast ==
    ASSUME NEW sizes, NEW n \in Nat, Len(sizes) = n
    PROVE  \E after : Sums(after, sizes, n) /\ SumOf(sizes) = after[n]
<1>1. SumOf(sizes) = (CHOOSE after : Sums(after, sizes, n))[n]
    BY Zenon DEF SumOf, Sums
<1>2. \E after : Sums(after, sizes, n)
    BY SumsExist
<1> QED BY <1>1, <1>2

(* Two lists that begin alike have the same sums so far.                      *)
LEMMA SumsAreUnique ==
    ASSUME NEW s, NEW t, NEW f, NEW g, NEW n \in Nat, NEW m \in Nat,
           n <= m, Sums(f, s, n), Sums(g, t, m), \A i \in 1..n : s[i] = t[i]
    PROVE  \A k \in 0..n : f[k] = g[k]
<1> DEFINE S == {k \in Nat : k <= n => f[k] = g[k]}
<1>1. /\ \A k \in 0..n : f[k] = IF k = 0 THEN 0 ELSE f[k - 1] + s[k]
      /\ \A k \in 0..m : g[k] = IF k = 0 THEN 0 ELSE g[k - 1] + t[k]
    BY Zenon DEF Sums
<1>2. 0 \in S
    BY <1>1
<1>3. ASSUME NEW k \in Nat, k \in S PROVE k + 1 \in S
    <2> SUFFICES ASSUME k + 1 <= n PROVE f[k + 1] = g[k + 1]
        OBVIOUS
    <2>1. k + 1 \in 0..m /\ k + 1 \in 0..n /\ k + 1 \in 1..n /\ k + 1 # 0 /\ (k + 1) - 1 = k
        OBVIOUS
    <2>2. f[k + 1] = f[k] + s[k + 1] /\ g[k + 1] = g[k] + t[k + 1]
        BY <1>1, <2>1
    <2>3. f[k] = g[k] /\ s[k + 1] = t[k + 1]
        BY <1>3, <2>1
    <2> QED BY <2>2, <2>3
<1>4. Nat \subseteq S
    BY <1>2, <1>3, NaturalsByInduction
<1> QED BY <1>4

(* Nothing sums up to nothing.                                                *)
LEMMA SumOfNone ==
    ASSUME NEW s, Len(s) = 0
    PROVE  SumOf(s) = 0
<1>1. PICK f : Sums(f, s, 0) /\ SumOf(s) = f[0]
    BY SumIsTheLast
<1>2. \A k \in 0..0 : f[k] = IF k = 0 THEN 0 ELSE f[k - 1] + s[k]
    BY <1>1, Zenon DEF Sums
<1> QED BY <1>1, <1>2

(* Lists with the same sizes have the same sum.                               *)
LEMMA SumOfTheSame ==
    ASSUME NEW n \in Nat, NEW s, NEW t, Len(s) = n, Len(t) = n,
           \A i \in 1..n : s[i] = t[i]
    PROVE  SumOf(s) = SumOf(t)
<1>1. PICK f : Sums(f, s, n) /\ SumOf(s) = f[n]
    BY SumIsTheLast
<1>2. PICK g : Sums(g, t, n) /\ SumOf(t) = g[n]
    BY SumIsTheLast
<1>3. \A k \in 0..n : f[k] = g[k]
    <2>1. n <= n /\ Sums(f, s, n) /\ Sums(g, t, n)
        BY <1>1, <1>2
    <2>2. \A i \in 1..n : s[i] = t[i]
        OBVIOUS
    <2> QED BY <2>1, <2>2, SumsAreUnique
<1> QED BY <1>1, <1>2, <1>3

(* One more size is added to the sum.                                         *)
LEMMA SumOfOneMore ==
    ASSUME NEW n \in Nat, NEW s, NEW t, Len(s) = n, Len(t) = n + 1,
           \A i \in 1..n : s[i] = t[i]
    PROVE  SumOf(t) = SumOf(s) + t[n + 1]
<1>1. PICK m \in Nat : m = n + 1
    OBVIOUS
<1>2. PICK f : Sums(f, s, n) /\ SumOf(s) = f[n]
    BY SumIsTheLast
<1>3. PICK g : Sums(g, t, m) /\ SumOf(t) = g[m]
    BY <1>1, SumIsTheLast
<1>4. \A k \in 0..n : f[k] = g[k]
    <2>1. n <= n /\ n <= m /\ Sums(f, s, n) /\ Sums(g, t, m)
        BY <1>1, <1>2, <1>3
    <2>2. \A i \in 1..n : s[i] = t[i]
        OBVIOUS
    <2> QED BY <2>1, <2>2, SumsAreUnique
<1>5. \A k \in 0..m : g[k] = IF k = 0 THEN 0 ELSE g[k - 1] + t[k]
    BY <1>3, Zenon DEF Sums
<1>6. m \in 0..m /\ m # 0 /\ m - 1 = n /\ n \in 0..n
    BY <1>1
<1>7. g[m] = g[n] + t[m]
    BY <1>5, <1>6
<1> QED BY <1>1, <1>2, <1>3, <1>4, <1>6, <1>7

-------------------------------------------------------------------------------
(* What the budget has been charged with, medium by medium: the requests that *)
(* have been prepared, the images and videos of the one at hand, the frames   *)
(* of a list that is being read, and a source that was read but not yet kept. *)
PreparedCharge == SumOf([r \in DOMAIN prepared |-> KeptBytes(requests[r], prepared[r])])

ImagesCharge == IF stage = "request" THEN 0 ELSE ImagesBytes(Current, images)

VideosCharge == IF stage = "request" THEN 0 ELSE VideosBytes(Current, videos)

FramesCharge ==
    IF stage \in {"frames", "decode"}
    THEN SumOf([i \in 1..(frame - 1) |-> Charge(VideoOf.frames[i])]) ELSE 0

LoadedCharge == IF phase = "loaded" THEN Charge(source) ELSE 0

ChargesHold ==
    phase # "done" \/ stage = "request" =>
        /\ PreparedCharge \in Nat /\ ImagesCharge \in Nat /\ VideosCharge \in Nat
        /\ FramesCharge \in Nat /\ LoadedCharge \in Nat
        /\ total = PreparedCharge + ImagesCharge + VideosCharge + FramesCharge + LoadedCharge

(* The source being loaded is the one the loops stand at, it is read only to  *)
(* its end, and frames are counted as they are read.                          *)
SourceHolds ==
    /\ Loading =>
        /\ source \in Sources
        /\ stage = "supplied" => source = Current.images[at]
        /\ stage = "content" =>
            at <= Len(Current.items) /\ Item.kind = "image" /\ source = Item.source
        /\ stage = "frames" => source = VideoOf.frames[frame]
        /\ stage = "decode" => VideoOf.form = "file" /\ source = VideoOf.source
        /\ stage # "request"
    /\ stage = "frames" => frame \in 1..Len(VideoOf.frames)
    /\ stage = "decode" =>
        frame = IF VideoOf.form = "list" THEN Len(VideoOf.frames) + 1 ELSE 1
    /\ phase = "reading" => source.kind \in Streams /\ held <= source.size

(* No video file changes its size from one look at it to the next.            *)
FilesKeepTheirSize ==
    \A s \in Sources : s.kind = "videoPath" => \E n \in s.announced : s.announced = {n}

BudgetHolds == FilesKeepTheirSize /\ ChargesHold /\ SourceHolds
-------------------------------------------------------------------------------
(* What a step adds to the charges.                                           *)

(* The source an image was made of.                                           *)
ImageIn(original, image) ==
    IF image.from = "supplied" THEN original.images[image.place]
    ELSE original.items[image.place].source

(* An image that is kept adds the bytes of its source.                        *)
LEMMA OneImageMore ==
    ASSUME NEW original, NEW kept, IsSequence(kept), NEW image
    PROVE  ImagesBytes(original, Append(kept, image))
             = ImagesBytes(original, kept) + Charge(ImageIn(original, image))
<1>1. PICK more : more = Append(kept, image)
    OBVIOUS
<1>2. PICK n \in Nat : n = Len(kept)
    BY AppendKeeps
<1>3. /\ DOMAIN kept = 1..n /\ IsSequence(more) /\ Len(more) = n + 1
      /\ \A i \in 1..n : more[i] = kept[i]
      /\ more[n + 1] = image
    BY <1>1, <1>2, AppendKeeps
<1>4. DOMAIN more = 1..(n + 1)
    BY <1>3, AppendKeeps
<1> DEFINE s == [i \in DOMAIN kept |-> Charge(ImageIn(original, kept[i]))]
           t == [i \in DOMAIN more |-> Charge(ImageIn(original, more[i]))]
<1>5. Len(s) = n /\ Len(t) = n + 1
    BY <1>3, <1>4
<1>6. \A i \in 1..n : s[i] = t[i]
    BY <1>3, <1>4
<1>7. t[n + 1] = Charge(ImageIn(original, image))
    BY <1>3, <1>4
<1>8. ImagesBytes(original, kept) = SumOf(s) /\ ImagesBytes(original, more) = SumOf(t)
    BY DEF ImagesBytes, ImageIn
<1> HIDE DEF s, t
<1>9. SumOf(t) = SumOf(s) + t[n + 1]
    BY <1>5, <1>6, SumOfOneMore
<1> QED BY <1>1, <1>7, <1>8, <1>9

(* A video that is kept adds the bytes of what it was made of.                *)
LEMMA OneVideoMore ==
    ASSUME NEW original, NEW kept, IsSequence(kept), NEW video
    PROVE  VideosBytes(original, Append(kept, video))
             = VideosBytes(original, kept) + VideoBytes(WrittenIn(original, video))
<1>1. PICK more : more = Append(kept, video)
    OBVIOUS
<1>2. PICK n \in Nat : n = Len(kept)
    BY AppendKeeps
<1>3. /\ DOMAIN kept = 1..n /\ IsSequence(more) /\ Len(more) = n + 1
      /\ \A i \in 1..n : more[i] = kept[i]
      /\ more[n + 1] = video
    BY <1>1, <1>2, AppendKeeps
<1>4. DOMAIN more = 1..(n + 1)
    BY <1>3, AppendKeeps
<1> DEFINE s == [i \in DOMAIN kept |-> VideoBytes(WrittenIn(original, kept[i]))]
           t == [i \in DOMAIN more |-> VideoBytes(WrittenIn(original, more[i]))]
<1>5. Len(s) = n /\ Len(t) = n + 1
    BY <1>3, <1>4
<1>6. \A i \in 1..n : s[i] = t[i]
    BY <1>3, <1>4
<1>7. t[n + 1] = VideoBytes(WrittenIn(original, video))
    BY <1>3, <1>4
<1>8. VideosBytes(original, kept) = SumOf(s) /\ VideosBytes(original, more) = SumOf(t)
    BY DEF VideosBytes, WrittenIn
<1> HIDE DEF s, t
<1>9. SumOf(t) = SumOf(s) + t[n + 1]
    BY <1>5, <1>6, SumOfOneMore
<1> QED BY <1>1, <1>7, <1>8, <1>9

(* A request that is prepared adds the bytes it keeps.                        *)
LEMMA OneRequestMore ==
    ASSUME IsSequence(prepared), requests' = requests,
           NEW closed, prepared' = Append(prepared, closed)
    PROVE  PreparedCharge' = PreparedCharge + KeptBytes(Current, closed)
<1>1. PICK more : more = prepared'
    OBVIOUS
<1>2. PICK n \in Nat : n = Len(prepared)
    BY AppendKeeps
<1>3. /\ DOMAIN prepared = 1..n /\ IsSequence(more) /\ Len(more) = n + 1
      /\ \A i \in 1..n : more[i] = prepared[i]
      /\ more[n + 1] = closed
    BY <1>1, <1>2, AppendKeeps
<1>4. DOMAIN more = 1..(n + 1) /\ n + 1 \in 1..(n + 1)
    BY <1>3, AppendKeeps
<1> DEFINE s == [r \in DOMAIN prepared |-> KeptBytes(requests[r], prepared[r])]
           t == [r \in DOMAIN more |-> KeptBytes(requests[r], more[r])]
<1>5. Len(s) = n /\ Len(t) = n + 1
    BY <1>3, <1>4
<1>6. \A i \in 1..n : s[i] = t[i]
    BY <1>3, <1>4
<1>7. t[n + 1] = KeptBytes(Current, closed)
    BY <1>2, <1>3, <1>4 DEF Current
<1>8. PreparedCharge = SumOf(s)
    BY DEF PreparedCharge
<1>9. PreparedCharge' = SumOf(t)
    BY <1>1 DEF PreparedCharge
<1> HIDE DEF s, t
<1>10. SumOf(t) = SumOf(s) + t[n + 1]
    BY <1>5, <1>6, SumOfOneMore
<1> QED BY <1>7, <1>8, <1>9, <1>10

(* A source is charged with a number: an array with nothing, a file that is   *)
(* read whole with its size, a path of a video with what stat says of it.     *)
LEMMA ChargeOfASource ==
    ASSUME NEW s \in Sources, FilesKeepTheirSize
    PROVE  /\ Charge(s) \in Nat
           /\ s.kind \in Uncharged => Charge(s) = 0
           /\ s.kind \in Streams \cup Buffers => Charge(s) = s.size
           /\ s.kind = "videoPath" => \A n \in s.announced : Charge(s) = n
<1>1. /\ s.kind \in Kinds /\ s.size \in Nat /\ s.announced \subseteq Nat
    BY SourcesAssumption DEF IsSource
<1>2. CASE s.kind = "videoPath"
    <2>1. PICK n \in s.announced : s.announced = {n}
        BY <1>2 DEF FilesKeepTheirSize
    <2>2. \A m \in s.announced : m = n
        BY <2>1
    <2>3. (CHOOSE m \in s.announced : TRUE) = n
        BY <2>1, <2>2
    <2>4. s.kind \notin Uncharged
        BY <1>2 DEF Uncharged
    <2>5. Charge(s) = n
        BY <1>2, <2>3, <2>4 DEF Charge
    <2> QED BY <1>1, <1>2, <2>1, <2>2, <2>4, <2>5 DEF Streams, Buffers
<1>3. CASE s.kind # "videoPath"
    BY <1>1, <1>3 DEF Charge, Uncharged, Streams, Buffers
<1> QED BY <1>2, <1>3

-------------------------------------------------------------------------------
(* Reading.                                                                   *)

(* A source that is consumed adds its size to the total, or ends the batch.   *)
LEMMA ConsumingCharges ==
    ASSUME NEW size, Consume(size)
    PROVE  phase' = "done" \/ (phase' = "loaded" /\ total' = total + size)
BY DEF Consume, Stop

(* A step of a read adds nothing, or the bytes of the source that is loaded   *)
(* by it: what was held at the end of a stream is all the stream had.         *)
LEMMA ReadingCharges ==
    ASSUME SourceHolds, FilesKeepTheirSize, ReadInvariant, ReadStep
    PROVE  /\ phase \in {"begin", "acquire", "reading"} /\ source' = source
           /\ \/ phase' = "done"
              \/ phase' \in {"acquire", "reading"} /\ total' = total
              \/ phase' = "loaded" /\ total' = total + Charge(source)
           /\ phase' = "reading" => source.kind \in Streams /\ held' <= source.size
<1>1. /\ total \in Nat /\ held \in Nat /\ limit \in Nat
      /\ Loading => source \in Sources
      /\ phase = "reading" => source.kind \in Streams /\ held <= source.size
    BY DEF ReadInvariant, ReadingTypeOK, SourceHolds
<1>2. phase \in {"begin", "acquire", "reading"} /\ source' = source
    BY DEF ReadStep, FailToOpen, Announce, KeepUncharged, ChargeBuffer, ChargeVideoPath,
           BeginRead, ReadChunk, EndOfStream, ReadFails
<1>3. /\ source \in Sources /\ IsSource(source) /\ source.size \in Nat
      /\ source.announced \subseteq Nat
    BY <1>1, <1>2, SourcesAssumption DEF Loading, IsSource
<1>4. /\ Charge(source) \in Nat
      /\ source.kind \in Uncharged => Charge(source) = 0
      /\ source.kind \in Streams \cup Buffers => Charge(source) = source.size
      /\ source.kind = "videoPath" => \A n \in source.announced : Charge(source) = n
    BY <1>3, ChargeOfASource
<1>5. CASE FailToOpen \/ ReadFails
    BY <1>2, <1>5 DEF FailToOpen, ReadFails, Stop
<1>6. CASE Announce
    <2>1. phase' = "acquire" \/ phase' = "done"
        <3>1. PICK broken : IF broken = {} THEN phase' = "acquire"
                            ELSE \E breach \in broken : Stop(breach)
            BY <1>6 DEF Announce
        <3> QED BY <3>1 DEF Stop
    <2>2. total' = total
        BY <1>6 DEF Announce
    <2> QED BY <1>2, <2>1, <2>2
<1>7. CASE KeepUncharged
    BY <1>1, <1>2, <1>4, <1>7 DEF KeepUncharged
<1>8. CASE ChargeBuffer
    <2>1. phase' = "done" \/ Consume(source.size)
        BY <1>8 DEF ChargeBuffer, Stop
    <2>2. Charge(source) = source.size
        BY <1>4, <1>8 DEF ChargeBuffer
    <2> QED BY <1>2, <2>1, <2>2, ConsumingCharges
<1>9. CASE ChargeVideoPath
    <2>1. PICK stat \in source.announced : Consume(stat)
        BY <1>9 DEF ChargeVideoPath
    <2>2. Charge(source) = stat
        BY <1>4, <1>9 DEF ChargeVideoPath
    <2> QED BY <1>2, <2>1, <2>2, ConsumingCharges
<1>10. CASE BeginRead
    BY <1>2, <1>3, <1>10 DEF BeginRead
<1>11. CASE ReadChunk
    <2>1. PICK n \in 1..Min2(Requested, Left) :
            held' = held + n /\ (phase' = "done" \/ phase' = phase)
        BY <1>11 DEF ReadChunk, Stop
    <2>2. phase = "reading" /\ total' = total
        BY <1>11 DEF ReadChunk
    <2>3. held <= source.size /\ source.kind \in Streams
        BY <1>1, <2>2
    <2>4. Left = source.size - held
        BY <1>1, <1>3, <2>3 DEF Left, Monus
    <2>5. Requested \in Int
        BY <1>1, LimitsAssumption DEF Requested, Min2
    <2>6. n \in Int /\ n <= Left
        BY <1>1, <1>3, <2>4, <2>5 DEF Min2
    <2>7. held' <= source.size
        BY <1>1, <1>3, <2>1, <2>4, <2>6
    <2> QED BY <1>2, <2>1, <2>2, <2>3, <2>7
<1>12. CASE EndOfStream
    <2>1. phase = "reading" /\ Left = 0 /\ Consume(held)
        BY <1>12 DEF EndOfStream
    <2>2. held = source.size /\ Charge(source) = source.size
        BY <1>1, <1>3, <1>4, <2>1 DEF Left, Monus
    <2> QED BY <1>2, <2>1, <2>2, ConsumingCharges
<1> QED BY <1>5, <1>6, <1>7, <1>8, <1>9, <1>10, <1>11, <1>12 DEF ReadStep

(* Where nothing is kept and the loops stay, the charges of what was kept     *)
(* stay.                                                                      *)
LEMMA NothingIsKept ==
    ASSUME UNCHANGED requestVars
    PROVE  /\ PreparedCharge' = PreparedCharge /\ ImagesCharge' = ImagesCharge
           /\ VideosCharge' = VideosCharge /\ FramesCharge' = FramesCharge
           /\ Current' = Current /\ Item' = Item /\ VideoOf' = VideoOf
BY DEF requestVars, PreparedCharge, ImagesCharge, VideosCharge, FramesCharge, Current,
       Item, VideoOf

(* The source at hand stays the same while it is read.                        *)
LEMMA BudgetThroughReading ==
    ASSUME BudgetHolds, ReadInvariant, ReadStep, UNCHANGED requestVars
    PROVE  BudgetHolds'
<1>1. /\ phase \in {"begin", "acquire", "reading"} /\ source' = source
      /\ \/ phase' = "done"
         \/ phase' \in {"acquire", "reading"} /\ total' = total
         \/ phase' = "loaded" /\ total' = total + Charge(source)
      /\ phase' = "reading" => source.kind \in Streams /\ held' <= source.size
    BY ReadingCharges DEF BudgetHolds
<1>2. Loading /\ stage # "request" /\ source \in Sources /\ Charge(source) \in Nat
    BY <1>1, ChargeOfASource DEF Loading, BudgetHolds, SourceHolds
<1>3. /\ PreparedCharge' = PreparedCharge /\ ImagesCharge' = ImagesCharge
      /\ VideosCharge' = VideosCharge /\ FramesCharge' = FramesCharge
      /\ Current' = Current /\ Item' = Item /\ VideoOf' = VideoOf
      /\ UNCHANGED <<requests, stage, at, frame, images, videos, cache, items, prepared>>
    BY NothingIsKept DEF requestVars
<1>4. PICK p \in Nat, i \in Nat, v \in Nat, f \in Nat :
        /\ p = PreparedCharge /\ i = ImagesCharge /\ v = VideosCharge /\ f = FramesCharge
        /\ total = p + i + v + f + 0
    BY <1>1 DEF BudgetHolds, ChargesHold, LoadedCharge
<1>5. ChargesHold'
    <2>1. CASE phase' = "done"
        BY <1>2, <1>3, <2>1 DEF ChargesHold
    <2>2. CASE phase' \in {"acquire", "reading"} /\ total' = total
        <3>1. LoadedCharge' = 0
            BY <2>2 DEF LoadedCharge
        <3> QED BY <1>3, <1>4, <2>2, <3>1 DEF ChargesHold
    <2>3. CASE phase' = "loaded" /\ total' = total + Charge(source)
        <3>1. LoadedCharge' = Charge(source)
            BY <1>1, <2>3 DEF LoadedCharge, Charge
        <3>2. PICK c \in Nat : c = Charge(source)
            BY <1>2
        <3> QED BY <1>3, <1>4, <2>3, <3>1, <3>2 DEF ChargesHold
    <2> QED BY <1>1, <2>1, <2>2, <2>3
<1>6. SourceHolds'
    BY <1>1, <1>2, <1>3 DEF BudgetHolds, SourceHolds, Loading
<1> QED BY <1>5, <1>6 DEF BudgetHolds

-------------------------------------------------------------------------------
(* Steps that charge nothing.                                                 *)

(* A refusal leaves the batch without an answer to account for.               *)
LEMMA BudgetThroughRefusals ==
    ASSUME BudgetHolds, NEW failure, Refuse(failure), stage # "request"
    PROVE  BudgetHolds'
<1>1. phase' = "done" /\ UNCHANGED requestVars
    BY DEF Refuse, Stop
<1>2. /\ Current' = Current /\ Item' = Item /\ VideoOf' = VideoOf
      /\ UNCHANGED <<stage, frame>>
    BY <1>1, NothingIsKept DEF requestVars
<1>3. ChargesHold'
    BY <1>1, <1>2 DEF ChargesHold
<1>4. SourceHolds'
    BY <1>1, <1>2 DEF BudgetHolds, SourceHolds, Loading
<1> QED BY <1>3, <1>4 DEF BudgetHolds

(* A source that is about to be loaded is the one the loops stand at.         *)
LEMMA BudgetThroughLoads ==
    ASSUME Inv, BudgetHolds, LoadSupplied \/ LoadInline \/ LoadFrame
    PROVE  BudgetHolds'
<1>1. /\ UNCHANGED requestVars /\ phase = "idle" /\ phase' = "begin" /\ total' = total
      /\ stage \in {"supplied", "content", "frames"}
    BY DEF LoadSupplied, LoadInline, LoadFrame, Load, AtItem
<1>2. /\ PreparedCharge' = PreparedCharge /\ ImagesCharge' = ImagesCharge
      /\ VideosCharge' = VideosCharge /\ FramesCharge' = FramesCharge
      /\ Current' = Current /\ Item' = Item /\ VideoOf' = VideoOf
      /\ UNCHANGED <<requests, stage, at, frame, images, videos, cache, items, prepared>>
    BY <1>1, NothingIsKept DEF requestVars
<1>3. LoadedCharge = 0 /\ LoadedCharge' = 0
    BY <1>1 DEF LoadedCharge
<1>4. ChargesHold'
    BY <1>1, <1>2, <1>3 DEF BudgetHolds, ChargesHold
<1>5. IsRequest(Current) /\ Current.form = "dict" /\ at \in Nat \ {0}
    BY <1>1, CurrentIsARequest DEF Inv, PlacesHold
<1>6. /\ source' \in Sources
      /\ stage = "supplied" => source' = Current.images[at]
      /\ stage = "content" =>
            at <= Len(Current.items) /\ Item.kind = "image" /\ source' = Item.source
      /\ stage = "frames" => source' = VideoOf.frames[frame]
    <2>1. CASE LoadSupplied
        <3>1. stage = "supplied" /\ at <= Len(Current.images) /\ source' = Current.images[at]
            BY <2>1 DEF LoadSupplied, Load
        <3> QED BY <1>5, <3>1 DEF IsRequest
    <2>2. CASE LoadInline
        <3>1. /\ stage = "content" /\ at <= Len(Current.items) /\ Item.kind = "image"
              /\ source' = Item.source
            BY <2>2 DEF LoadInline, Load, AtItem
        <3>2. IsItem(Item)
            BY <3>1, ItemIsAnItem DEF Inv
        <3> QED BY <3>1, <3>2 DEF IsItem
    <2>3. CASE LoadFrame
        <3>1. /\ stage = "frames" /\ frame <= Len(VideoOf.frames)
              /\ source' = VideoOf.frames[frame]
            BY <2>3 DEF LoadFrame, Load
        <3>2. IsVideo(VideoOf) /\ VideoOf.form = "list" /\ frame \in Nat \ {0}
            BY <3>1, VideoAtHand DEF Inv, PlacesHold
        <3>3. VideoOf.frames \in Seq(Sources)
            BY <3>2 DEF IsVideo
        <3> QED BY <3>1, <3>2, <3>3
    <2> QED BY <2>1, <2>2, <2>3
<1>7. SourceHolds'
    BY <1>1, <1>2, <1>6 DEF BudgetHolds, SourceHolds, Loading
<1> QED BY <1>4, <1>7 DEF BudgetHolds

(* Items without a medium of their own, the end of the supplied images, and   *)
(* the end of the batch.                                                      *)
LEMMA BudgetThroughItems ==
    ASSUME BudgetHolds,
           \/ BeginContent \/ KeepText \/ KeepPosition \/ ReuseVideo
           \/ Submit \/ UNCHANGED vars
    PROVE  BudgetHolds'
<1>1. CASE BeginContent \/ KeepText \/ KeepPosition \/ ReuseVideo
    <2>1. /\ UNCHANGED <<requests, prepared, images, videos, frame>>
          /\ phase = "idle" /\ UNCHANGED readingVars
          /\ stage \in {"supplied", "content"} /\ stage' = "content"
        BY <1>1 DEF BeginContent, KeepText, KeepPosition, ReuseVideo, AtItem
    <2>2. phase' = "idle" /\ total' = total
        BY <2>1 DEF readingVars
    <2>3. /\ PreparedCharge' = PreparedCharge /\ ImagesCharge' = ImagesCharge
          /\ VideosCharge' = VideosCharge /\ FramesCharge' = 0 /\ FramesCharge = 0
          /\ LoadedCharge' = 0 /\ LoadedCharge = 0
        BY <2>1, <2>2 DEF PreparedCharge, ImagesCharge, VideosCharge, FramesCharge,
           LoadedCharge, Current
    <2>4. ChargesHold'
        BY <2>1, <2>2, <2>3 DEF BudgetHolds, ChargesHold
    <2>5. SourceHolds'
        BY <2>1, <2>2 DEF SourceHolds, Loading
    <2> QED BY <2>4, <2>5 DEF BudgetHolds
<1>2. CASE Submit \/ UNCHANGED vars
    <2>1. UNCHANGED requestVars /\ UNCHANGED <<source, total, held>>
        BY <1>2 DEF Submit, vars, requestVars, budget
    <2>2. /\ PreparedCharge' = PreparedCharge /\ ImagesCharge' = ImagesCharge
          /\ VideosCharge' = VideosCharge /\ FramesCharge' = FramesCharge
          /\ Current' = Current /\ Item' = Item /\ VideoOf' = VideoOf
          /\ UNCHANGED <<requests, stage, at, frame, images, videos, cache, items, prepared>>
        BY <2>1, NothingIsKept DEF requestVars
    <2>3. \/ phase' = phase
          \/ stage = "request" /\ phase = "idle" /\ phase' = "done"
        BY <1>2 DEF Submit, Stop, vars
    <2>4. LoadedCharge' = LoadedCharge
        BY <2>1, <2>3 DEF LoadedCharge, Charge
    <2>5. ChargesHold'
        BY <2>1, <2>2, <2>3, <2>4 DEF BudgetHolds, ChargesHold
    <2>6. SourceHolds'
        BY <2>1, <2>2, <2>3 DEF BudgetHolds, SourceHolds, Loading
    <2> QED BY <2>5, <2>6 DEF BudgetHolds
<1> QED BY <1>1, <1>2

(* A request begins with nothing kept; one that is passed on keeps nothing,   *)
(* and one that is closed what was kept of it.                                *)
LEMMA BudgetThroughRequests ==
    ASSUME Inv, BudgetHolds, PassThrough \/ BeginRequest \/ CloseRequest
    PROVE  BudgetHolds'
<1>1. /\ phase = "idle" /\ phase' = "idle" /\ total' = total /\ requests' = requests
      /\ IsSequence(prepared)
    BY DEF PassThrough, BeginRequest, CloseRequest, AtEnd, readingVars, Inv, PlacesHold
<1>2. LoadedCharge = 0 /\ LoadedCharge' = 0
    BY <1>1 DEF LoadedCharge
<1>3. PICK p \in Nat, i \in Nat, v \in Nat, f \in Nat :
        /\ p = PreparedCharge /\ i = ImagesCharge /\ v = VideosCharge /\ f = FramesCharge
        /\ total = p + i + v + f + 0
    BY <1>1, <1>2 DEF BudgetHolds, ChargesHold
<1>4. CASE PassThrough
    <2>1. /\ stage = "request" /\ stage' = "request"
          /\ prepared' = Append(prepared, [form |-> "other"])
        BY <1>4 DEF PassThrough
    <2>2. PreparedCharge' = p + KeptBytes(Current, [form |-> "other"])
        BY <1>1, <1>3, <2>1, OneRequestMore
    <2>3. KeptBytes(Current, [form |-> "other"]) = 0
        BY DEF KeptBytes
    <2>4. i = 0 /\ v = 0 /\ f = 0 /\ ImagesCharge' = 0 /\ VideosCharge' = 0 /\ FramesCharge' = 0
        BY <1>3, <2>1 DEF ImagesCharge, VideosCharge, FramesCharge
    <2>5. ChargesHold'
        BY <1>1, <1>2, <1>3, <2>2, <2>3, <2>4 DEF ChargesHold
    <2>6. SourceHolds'
        BY <1>1, <2>1 DEF SourceHolds, Loading
    <2> QED BY <2>5, <2>6 DEF BudgetHolds
<1>5. CASE BeginRequest
    <2>1. /\ stage = "request" /\ stage' = "supplied" /\ images' = <<>> /\ videos' = <<>>
          /\ prepared' = prepared
        BY <1>5 DEF BeginRequest
    <2>2. DOMAIN <<>> = 1..0 /\ Len([k \in 1..0 |-> 0]) = 0
        OBVIOUS
    <2>3. ASSUME NEW original
          PROVE  ImagesBytes(original, <<>>) = 0 /\ VideosBytes(original, <<>>) = 0
        <3>1. Len([k \in DOMAIN <<>> |->
                     Charge(IF (<<>>)[k].from = "supplied"
                            THEN original.images[(<<>>)[k].place]
                            ELSE original.items[(<<>>)[k].place].source)]) = 0
            BY <2>2
        <3>2. Len([k \in DOMAIN <<>> |->
                     VideoBytes(IF (<<>>)[k].from = "supplied"
                                THEN original.videos[(<<>>)[k].place]
                                ELSE original.items[(<<>>)[k].place].video)]) = 0
            BY <2>2
        <3> QED BY <3>1, <3>2, SumOfNone DEF ImagesBytes, VideosBytes
    <2>4. /\ i = 0 /\ v = 0 /\ f = 0 /\ FramesCharge' = 0
          /\ ImagesCharge' = ImagesBytes(Current', <<>>)
          /\ VideosCharge' = VideosBytes(Current', <<>>)
        BY <1>3, <2>1 DEF ImagesCharge, VideosCharge, FramesCharge
    <2>5. ImagesCharge' = 0 /\ VideosCharge' = 0
        BY <2>3, <2>4
    <2>6. PreparedCharge' = p
        BY <1>1, <1>3, <2>1 DEF PreparedCharge
    <2>7. ChargesHold'
        BY <1>1, <1>2, <1>3, <2>4, <2>5, <2>6 DEF ChargesHold
    <2>8. SourceHolds'
        BY <1>1, <2>1 DEF SourceHolds, Loading
    <2> QED BY <2>7, <2>8 DEF BudgetHolds
<1>6. CASE CloseRequest
    <2> DEFINE closed == [form |-> "dict", images |-> images, videos |-> videos,
                          items |-> items]
    <2>1. /\ stage = "content" /\ stage' = "request"
          /\ prepared' = Append(prepared, closed)
        BY <1>6 DEF CloseRequest, AtEnd
    <2>2. KeptBytes(Current, closed)
            = ImagesBytes(Current, images) + VideosBytes(Current, videos)
        BY DEF KeptBytes
    <2> HIDE DEF closed
    <2>3. PreparedCharge' = p + KeptBytes(Current, closed)
        BY <1>1, <1>3, <2>1, OneRequestMore
    <2>4. /\ i = ImagesBytes(Current, images) /\ v = VideosBytes(Current, videos) /\ f = 0
          /\ ImagesCharge' = 0 /\ VideosCharge' = 0 /\ FramesCharge' = 0
        BY <1>3, <2>1 DEF ImagesCharge, VideosCharge, FramesCharge
    <2>5. PreparedCharge' = p + (i + v)
        BY <2>2, <2>3, <2>4
    <2>6. ChargesHold'
        BY <1>1, <1>2, <1>3, <2>4, <2>5 DEF ChargesHold
    <2>7. SourceHolds'
        BY <1>1, <2>1 DEF SourceHolds, Loading
    <2> QED BY <2>6, <2>7 DEF BudgetHolds
<1> QED BY <1>4, <1>5, <1>6

-------------------------------------------------------------------------------
(* Media that are kept.                                                       *)

(* An image is kept once its source has been charged.                         *)
LEMMA BudgetThroughImages ==
    ASSUME Inv, BudgetHolds, KeepSupplied \/ KeepInline
    PROVE  BudgetHolds'
<1> DEFINE image == [from |-> IF stage = "supplied" THEN "supplied" ELSE "item",
                     place |-> at]
<1>1. /\ phase = "loaded" /\ phase' = "idle" /\ total' = total
      /\ UNCHANGED <<requests, prepared, stage, videos>>
      /\ images' = Append(images, image)
      /\ stage \in {"supplied", "content"}
    BY DEF KeepSupplied, KeepInline, Take, AtItem
<1>2. ImageIn(Current, image) = source
    <2>1. Loading
        BY <1>1 DEF Loading
    <2>2. CASE stage = "supplied"
        BY <2>1, <2>2 DEF BudgetHolds, SourceHolds, ImageIn
    <2>3. CASE stage = "content"
        <3>1. source = Current.items[at].source
            BY <2>1, <2>3 DEF BudgetHolds, SourceHolds, Item
        <3> QED BY <2>3, <3>1 DEF ImageIn
    <2> QED BY <1>1, <2>2, <2>3
<1> HIDE DEF image
<1>3. PICK p \in Nat, i \in Nat, v \in Nat, c \in Nat :
        /\ p = PreparedCharge /\ i = ImagesCharge /\ v = VideosCharge /\ c = Charge(source)
        /\ FramesCharge = 0 /\ total = p + i + v + 0 + c
    BY <1>1 DEF BudgetHolds, ChargesHold, LoadedCharge, FramesCharge
<1>4. Current' = Current
    BY <1>1 DEF Current
<1>5. ImagesBytes(Current, Append(images, image))
        = ImagesBytes(Current, images) + Charge(source)
    <2>1. IsSequence(images)
        BY DEF Inv, ImagesHold
    <2> QED BY <1>2, <2>1, OneImageMore
<1>6. /\ PreparedCharge' = p /\ ImagesCharge' = i + c /\ VideosCharge' = v
      /\ FramesCharge' = 0 /\ LoadedCharge' = 0
    <2>1. ImagesCharge = ImagesBytes(Current, images)
        BY <1>1 DEF ImagesCharge
    <2>2. ImagesCharge' = ImagesBytes(Current, Append(images, image))
        BY <1>1, <1>4 DEF ImagesCharge
    <2> QED BY <1>1, <1>3, <1>4, <1>5, <2>1, <2>2
            DEF PreparedCharge, VideosCharge, FramesCharge, LoadedCharge
<1>7. ChargesHold'
    BY <1>1, <1>3, <1>6, SMTT(40) DEF ChargesHold
<1>8. SourceHolds'
    BY <1>1 DEF SourceHolds, Loading
<1> QED BY <1>7, <1>8 DEF BudgetHolds

(* A list of frames, before any is read and after another one was.            *)
LEMMA FramesOfAList ==
    ASSUME NEW frames
    PROVE  /\ SumOf([k \in 1..0 |-> Charge(frames[k])]) = 0
           /\ \A n \in Nat : SumOf([k \in 1..(n + 1) |-> Charge(frames[k])])
                = SumOf([k \in 1..n |-> Charge(frames[k])]) + Charge(frames[n + 1])
<1>1. Len([k \in 1..0 |-> Charge(frames[k])]) = 0
    OBVIOUS
<1>2. ASSUME NEW n \in Nat
      PROVE  SumOf([k \in 1..(n + 1) |-> Charge(frames[k])])
                = SumOf([k \in 1..n |-> Charge(frames[k])]) + Charge(frames[n + 1])
    <2> DEFINE s == [k \in 1..n |-> Charge(frames[k])]
               t == [k \in 1..(n + 1) |-> Charge(frames[k])]
    <2>1. Len(s) = n /\ Len(t) = n + 1
        OBVIOUS
    <2>2. \A k \in 1..n : s[k] = t[k]
        OBVIOUS
    <2>3. t[n + 1] = Charge(frames[n + 1])
        OBVIOUS
    <2> HIDE DEF s, t
    <2>4. SumOf(t) = SumOf(s) + t[n + 1]
        BY <2>1, <2>2, SumOfOneMore
    <2> QED BY <2>3, <2>4 DEF s, t
<1> QED BY <1>1, <1>2, SumOfNone

(* A frame is counted once its source has been charged.                       *)
LEMMA BudgetThroughFrames ==
    ASSUME Inv, BudgetHolds, KeepFrame
    PROVE  BudgetHolds'
<1>1. /\ phase = "loaded" /\ phase' = "idle" /\ total' = total /\ stage = "frames"
      /\ UNCHANGED <<requests, prepared, at, images, videos>> /\ frame' = frame + 1
      /\ stage' = IF frame = Len(VideoOf.frames) THEN "decode" ELSE stage
    BY DEF KeepFrame, Take
<1>2. /\ source = VideoOf.frames[frame] /\ frame \in 1..Len(VideoOf.frames)
      /\ VideoOf.form = "list" /\ Len(VideoOf.frames) \in Nat
    <2>1. Loading
        BY <1>1 DEF Loading
    <2>2. IsVideo(VideoOf) /\ VideoOf.form = "list"
        BY <1>1, VideoAtHand DEF Inv, PlacesHold
    <2>3. Len(VideoOf.frames) \in Nat
        BY <2>2 DEF IsVideo
    <2> QED BY <1>1, <2>1, <2>2, <2>3 DEF BudgetHolds, SourceHolds
<1>3. PICK p \in Nat, i \in Nat, v \in Nat, f \in Nat, c \in Nat :
        /\ p = PreparedCharge /\ i = ImagesCharge /\ v = VideosCharge /\ f = FramesCharge
        /\ c = Charge(source) /\ total = p + i + v + f + c
    BY <1>1 DEF BudgetHolds, ChargesHold, LoadedCharge
<1>4. Current' = Current /\ VideoOf' = VideoOf
    BY <1>1 DEF Current, VideoOf, Item
<1>5. PICK n \in Nat : n + 1 = frame
    <2>1. frame - 1 \in Nat /\ (frame - 1) + 1 = frame
        BY <1>2
    <2> QED BY <2>1
<1>6. FramesCharge' = f + c
    <2>1. n = frame - 1 /\ n + 1 = frame' - 1
        BY <1>1, <1>2, <1>5
    <2>2. FramesCharge = SumOf([k \in 1..n |-> Charge(VideoOf.frames[k])])
        BY <1>1, <2>1 DEF FramesCharge
    <2>3. FramesCharge' = SumOf([k \in 1..(n + 1) |-> Charge(VideoOf.frames[k])])
        <3>1. stage' \in {"frames", "decode"}
            BY <1>1
        <3>2. FramesCharge' = SumOf([k \in 1..(frame' - 1) |-> Charge(VideoOf.frames[k])])
            BY <1>4, <3>1 DEF FramesCharge, Charge
        <3> QED BY <2>1, <3>2
    <2>4. SumOf([k \in 1..(n + 1) |-> Charge(VideoOf.frames[k])])
            = SumOf([k \in 1..n |-> Charge(VideoOf.frames[k])]) + Charge(VideoOf.frames[n + 1])
        BY FramesOfAList
    <2> QED BY <1>2, <1>3, <1>5, <2>2, <2>3, <2>4
<1>7. /\ PreparedCharge' = p /\ ImagesCharge' = i /\ VideosCharge' = v /\ LoadedCharge' = 0
    BY <1>1, <1>3, <1>4 DEF PreparedCharge, ImagesCharge, VideosCharge, LoadedCharge
<1>8. ChargesHold'
    BY <1>1, <1>3, <1>6, <1>7 DEF ChargesHold
<1>9. SourceHolds'
    <2>1. stage' = "frames" => frame' \in 1..Len(VideoOf.frames)
        BY <1>1, <1>2
    <2>2. stage' = "decode" => frame' = Len(VideoOf.frames) + 1
        BY <1>1, <1>2
    <2> QED BY <1>1, <1>2, <1>4, <2>1, <2>2 DEF SourceHolds, Loading
<1> QED BY <1>8, <1>9 DEF BudgetHolds

(* A video that is opened: a file is loaded, of a list no frame is read yet.  *)
LEMMA BudgetThroughOpening ==
    ASSUME Inv, BudgetHolds, OpenVideo
    PROVE  BudgetHolds'
<1>1. /\ phase = "idle" /\ stage = "content" /\ frame' = 1
      /\ at <= Len(Current.items) /\ Item.kind \in {"video", "videoRef"}
      /\ EntryError = "None" /\ total' = total
      /\ stage' = IF VideoOf.form = "list" THEN "frames" ELSE "decode"
      /\ UNCHANGED <<requests, prepared, at, images, videos>>
      /\ IF VideoOf.form = "file" THEN phase' = "begin" /\ source' = VideoOf.source
         ELSE phase' = "idle"
    BY DEF OpenVideo, AtItem, Load, readingVars
<1>2. /\ InRange
      /\ VideoOf.form = "list" => Len(VideoOf.frames) # 0
    BY <1>1 DEF EntryError, Malformed, ListError, GeometryError
<1>3. IsVideo(VideoOf)
    BY <1>1, <1>2, VideoAtHand DEF Inv
<1>4. Current' = Current /\ VideoOf' = VideoOf
    BY <1>1 DEF Current, VideoOf, Item
<1>5. PICK p \in Nat, i \in Nat, v \in Nat :
        /\ p = PreparedCharge /\ i = ImagesCharge /\ v = VideosCharge
        /\ total = p + i + v + 0 + 0
    BY <1>1 DEF BudgetHolds, ChargesHold, LoadedCharge, FramesCharge
<1>6. FramesCharge' = 0
    <2>1. FramesCharge' = SumOf([k \in 1..0 |-> Charge(VideoOf.frames[k])])
        BY <1>1, <1>4 DEF FramesCharge, Charge
    <2> QED BY <2>1, FramesOfAList
<1>7. /\ PreparedCharge' = p /\ ImagesCharge' = i /\ VideosCharge' = v /\ LoadedCharge' = 0
    BY <1>1, <1>4, <1>5 DEF PreparedCharge, ImagesCharge, VideosCharge, LoadedCharge
<1>8. ChargesHold'
    BY <1>1, <1>5, <1>6, <1>7 DEF ChargesHold
<1>9. SourceHolds'
    <2>1. VideoOf.form = "file" => VideoOf.source \in Sources
        BY <1>3 DEF IsVideo
    <2>2. VideoOf.form = "list" => 1 \in 1..Len(VideoOf.frames)
        BY <1>2, <1>3 DEF IsVideo
    <2>3. phase' # "reading"
        BY <1>1
    <2> QED BY <1>1, <1>4, <2>1, <2>2, <2>3 DEF SourceHolds, Loading
<1> QED BY <1>8, <1>9 DEF BudgetHolds

(* A video that is kept was charged with its file, or with its frames one by  *)
(* one, or is in memory.                                                      *)
LEMMA BudgetThroughVideos ==
    ASSUME Inv, BudgetHolds, KeepVideo
    PROVE  BudgetHolds'
<1> DEFINE video == DecodedVideo
<1>1. /\ stage = "decode" /\ stage' = "content" /\ phase' = "idle" /\ total' = total
      /\ phase = IF VideoOf.form = "file" THEN "loaded" ELSE "idle"
      /\ UNCHANGED <<requests, prepared, images>>
      /\ videos' = Append(videos, video)
      /\ Item.kind \in {"video", "videoRef"} /\ IsSequence(videos)
    BY DEF KeepVideo, Decoded, Inv, PlacesHold, VideosHold
<1>2. WrittenIn(Current, video) = VideoOf
    BY <1>1 DEF DecodedVideo, PlaceOf, WrittenIn, VideoOf, Item
<1> HIDE DEF video
<1>3. PICK p \in Nat, i \in Nat, v \in Nat, f \in Nat, c \in Nat :
        /\ p = PreparedCharge /\ i = ImagesCharge /\ v = VideosCharge
        /\ f = FramesCharge /\ c = LoadedCharge /\ total = p + i + v + f + c
    BY <1>1 DEF BudgetHolds, ChargesHold
<1>4. frame = IF VideoOf.form = "list" THEN Len(VideoOf.frames) + 1 ELSE 1
    BY <1>1 DEF BudgetHolds, SourceHolds
<1>5. f = SumOf([k \in 1..(frame - 1) |-> Charge(VideoOf.frames[k])])
    BY <1>1, <1>3 DEF FramesCharge
<1>6. VideoBytes(VideoOf) = f + c
    <2>1. CASE VideoOf.form = "list"
        <3>1. IsVideo(VideoOf)
            BY <1>1, VideoAtHand DEF Inv, PlacesHold
        <3>2. VideoOf.frames \in Seq(Sources)
            BY <2>1, <3>1 DEF IsVideo
        <3>3. DOMAIN VideoOf.frames = 1..(frame - 1)
            BY <1>4, <2>1, <3>2
        <3>4. VideoBytes(VideoOf) = f
            BY <1>5, <2>1, <3>3 DEF VideoBytes
        <3>5. c = 0
            BY <1>1, <1>3, <2>1 DEF LoadedCharge
        <3> QED BY <3>4, <3>5
    <2>2. CASE VideoOf.form # "list"
        <3>1. frame - 1 = 0
            BY <1>4, <2>2
        <3>2. f = 0
            BY <1>5, <3>1, FramesOfAList
        <3>3. CASE VideoOf.form = "file"
            <4>1. Loading
                BY <1>1, <3>3 DEF Loading
            <4>2. source = VideoOf.source
                BY <1>1, <4>1 DEF BudgetHolds, SourceHolds
            <4>3. c = Charge(source)
                BY <1>1, <1>3, <3>3 DEF LoadedCharge
            <4>4. VideoBytes(VideoOf) = Charge(VideoOf.source)
                BY <3>3 DEF VideoBytes
            <4> QED BY <3>2, <4>2, <4>3, <4>4
        <3>4. CASE VideoOf.form # "file"
            <4>1. c = 0
                BY <1>1, <1>3, <3>4 DEF LoadedCharge
            <4>2. VideoBytes(VideoOf) = 0
                BY <2>2, <3>4 DEF VideoBytes
            <4> QED BY <3>2, <4>1, <4>2
        <3> QED BY <3>3, <3>4
    <2> QED BY <2>1, <2>2
<1>7. Current' = Current
    BY <1>1 DEF Current
<1>8. /\ PreparedCharge' = p /\ ImagesCharge' = i /\ VideosCharge' = v + (f + c)
      /\ FramesCharge' = 0 /\ LoadedCharge' = 0
    <2>1. VideosCharge = VideosBytes(Current, videos)
        BY <1>1 DEF VideosCharge
    <2>2. VideosCharge' = VideosBytes(Current, Append(videos, video))
        BY <1>1, <1>7 DEF VideosCharge
    <2>3. VideosBytes(Current, Append(videos, video))
            = VideosBytes(Current, videos) + VideoBytes(VideoOf)
        BY <1>1, <1>2, OneVideoMore
    <2> QED BY <1>1, <1>3, <1>6, <1>7, <2>1, <2>2, <2>3
            DEF PreparedCharge, ImagesCharge, FramesCharge, LoadedCharge
<1>9. ChargesHold'
    BY <1>1, <1>3, <1>8 DEF ChargesHold
<1>10. SourceHolds'
    BY <1>1 DEF SourceHolds, Loading
<1> QED BY <1>9, <1>10 DEF BudgetHolds

-------------------------------------------------------------------------------
(* Every step accounts for what it reads and keeps.                           *)
LEMMA BudgetKept ==
    ASSUME Inv, ReadInvariant, BudgetHolds, [Next]_vars
    PROVE  BudgetHolds'
<1>1. CASE ReadStep /\ UNCHANGED requestVars
    BY <1>1, BudgetThroughReading
<1>2. CASE LoadSupplied \/ LoadInline \/ LoadFrame
    BY <1>2, BudgetThroughLoads
<1>3. CASE RefuseMalformed \/ RefuseVideo \/ FailFrame \/ FailToDecode \/ RefuseUnreferenced
    <2>1. PICK failure : Refuse(failure)
        BY <1>3 DEF RefuseMalformed, RefuseVideo, FailFrame, FailToDecode, RefuseUnreferenced
    <2>2. stage # "request"
        BY <1>3 DEF RefuseMalformed, RefuseVideo, FailFrame, FailToDecode, RefuseUnreferenced,
           AtItem, AtEnd, Decoded
    <2> QED BY <2>1, <2>2, BudgetThroughRefusals
<1>4. CASE BeginContent \/ KeepText \/ KeepPosition \/ ReuseVideo \/ Submit \/ UNCHANGED vars
    BY <1>4, BudgetThroughItems
<1>5. CASE PassThrough \/ BeginRequest \/ CloseRequest
    BY <1>5, BudgetThroughRequests
<1>6. CASE KeepSupplied \/ KeepInline
    BY <1>6, BudgetThroughImages
<1>7. CASE KeepFrame
    BY <1>7, BudgetThroughFrames
<1>8. CASE OpenVideo
    BY <1>8, BudgetThroughOpening
<1>9. CASE KeepVideo
    BY <1>9, BudgetThroughVideos
<1> QED BY <1>1, <1>2, <1>3, <1>4, <1>5, <1>6, <1>7, <1>8, <1>9 DEF Next, Step, Answered

(* Nothing is charged at the start.                                           *)
LEMMA BudgetHoldsInitially ==
    ASSUME Init, FilesKeepTheirSize
    PROVE  BudgetHolds
<1>1. /\ stage = "request" /\ phase = "idle" /\ total = 0 /\ prepared = <<>>
    BY DEF Init, ReadingInit
<1>2. PreparedCharge = 0
    <2>1. DOMAIN <<>> = 1..0 /\ Len([r \in 1..0 |-> 0]) = 0
        OBVIOUS
    <2>2. Len([r \in DOMAIN <<>> |-> KeptBytes(requests[r], (<<>>)[r])]) = 0
        BY <2>1
    <2>3. SumOf([r \in DOMAIN <<>> |-> KeptBytes(requests[r], (<<>>)[r])]) = 0
        BY <2>2, SumOfNone
    <2> QED BY <1>1, <2>3 DEF PreparedCharge
<1>3. ImagesCharge = 0 /\ VideosCharge = 0 /\ FramesCharge = 0 /\ LoadedCharge = 0
    BY <1>1 DEF ImagesCharge, VideosCharge, FramesCharge, LoadedCharge
<1>4. ChargesHold
    BY <1>1, <1>2, <1>3 DEF ChargesHold
<1>5. SourceHolds
    BY <1>1 DEF SourceHolds, Loading
<1> QED BY <1>4, <1>5 DEF BudgetHolds

(* However media are arranged, announced and delivered, and whichever videos  *)
(* are reused, the budget of a batch between two requests is the bytes of the *)
(* media its requests keep, each once; as long as no video file, whose size   *)
(* is taken from stat each time it is opened, changes its size between two    *)
(* openings.                                                                  *)
THEOREM BudgetsAreWhatIsKept == FilesKeepTheirSize /\ Spec => []BudgetIsWhatIsKept
<1>1. Spec => []ReadInvariant
    <2>1. ReadingSpec => []ReadInvariant
        BY InvariantInitially, InvariantKept, PTL DEF ReadingSpec
    <2> QED BY <2>1, BatchesReadOneBudget, PTL
<1>2. FilesKeepTheirSize /\ Init => BudgetHolds
    BY BudgetHoldsInitially
<1>3. Inv /\ ReadInvariant /\ BudgetHolds /\ [Next]_vars => BudgetHolds'
    BY BudgetKept
<1>4. FilesKeepTheirSize /\ Spec => []BudgetHolds
    BY <1>1, <1>2, <1>3, InvAlways, PTL DEF Spec
<1>5. ASSUME Inv, BudgetHolds PROVE BudgetIsWhatIsKept
    <2>1. SUFFICES ASSUME stage = "request"
                   PROVE  total = PreparedCharge
        BY DEF BudgetIsWhatIsKept, PreparedCharge
    <2>2. phase # "loaded"
        BY <2>1, <1>5 DEF BudgetHolds, SourceHolds, Loading
    <2>3. ImagesCharge = 0 /\ VideosCharge = 0 /\ FramesCharge = 0 /\ LoadedCharge = 0
        BY <2>1, <2>2 DEF ImagesCharge, VideosCharge, FramesCharge, LoadedCharge
    <2>4. /\ PreparedCharge \in Nat
          /\ total = PreparedCharge + ImagesCharge + VideosCharge + FramesCharge + LoadedCharge
        BY <2>1, <1>5 DEF BudgetHolds, ChargesHold
    <2>5. PICK p \in Nat : p = PreparedCharge
        BY <2>4
    <2> QED BY <2>3, <2>4, <2>5
<1> QED BY <1>4, <1>5, InvAlways, PTL
================================================================================
