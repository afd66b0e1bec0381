----------------------------- MODULE MediaReading -----------------------------
(* _media.py: reading one source after another against one _ReadBudget.  A    *)
(* source announces a size (stat, Content-Length, the length of a base64      *)
(* payload) and then turns out to have another: files change and servers lie. *)
(* A stream is read in chunks of any length up to the one asked for.          *)
EXTENDS Naturals

CONSTANTS
    Sources,      \* the sources there are
    ItemLimit,    \* limits["encoded_bytes_per_item"]
    BatchLimit,   \* limits["encoded_bytes_per_batch"]
    ChunkBytes    \* _READ_CHUNK_BYTES

ASSUME LimitsAssumption ==
    ItemLimit \in Nat /\ BatchLimit \in Nat /\ ChunkBytes \in Nat \ {0}

Streams == {"path", "url"}
Buffers == {"buffer", "dataUri"}
Uncharged == {"array", "pillow", "unsupported"}
Kinds == Streams \cup Buffers \cup Uncharged \cup {"videoPath"}

(* announced is empty when the source says nothing of its size.               *)
IsSource(s) ==
    /\ s.kind \in Kinds
    /\ s.size \in Nat
    /\ s.fault \in {"none", "open", "read"}
    /\ s.announced \subseteq Nat
    /\ s.kind = "videoPath" => s.announced # {}

ASSUME SourcesAssumption == \A s \in Sources : IsSource(s)

VARIABLES
    source,       \* the source being loaded, or the one loaded last
    phase,        \* "idle", "begin", "acquire", "reading", "loaded" or "done"
    total,        \* budget.total
    held,         \* len(data) of the read in progress
    limit,        \* the effective limit computed when that read began
    answer        \* how the batch ended

budget == <<total, held, limit>>
readingVars == <<source, phase, total, held, limit, answer>>

NoSource == [kind |-> "none"]
Pending == "Pending"
Accepted == "Accepted"
ItemBreach == "encoded_bytes_per_item"
BatchBreach == "encoded_bytes_per_batch"
Breaches == {ItemBreach, BatchBreach}
AssertionError == "AssertionError"

Min2(a, b) == IF a < b THEN a ELSE b
Monus(a, b) == IF a < b THEN 0 ELSE a - b

-------------------------------------------------------------------------------
(* _ReadBudget                                                                *)

Check(size) ==
    IF size > ItemLimit THEN ItemBreach
    ELSE IF total + size > BatchLimit THEN BatchBreach ELSE Accepted

(* Mutated form: the item limit alone.                                        *)
ReadLimitOfItem == ItemLimit

ReadLimit == Min2(ItemLimit, Monus(BatchLimit, total))

-------------------------------------------------------------------------------
ReadingInit ==
    /\ source = NoSource
    /\ phase = "idle"
    /\ total = 0
    /\ held = 0
    /\ limit = 0
    /\ answer = Pending

Stop(with) == phase' = "done" /\ answer' = with

(* Mutated form: the budget is left as it was.                                *)
ConsumeWithoutCharge(size) ==
    /\ UNCHANGED total
    /\ IF Check(size) = Accepted
       THEN phase' = "loaded" /\ UNCHANGED answer
       ELSE Stop(Check(size))

(* consume: a source is kept only with its bytes charged.                     *)
Consume(size) ==
    IF Check(size) = Accepted
    THEN phase' = "loaded" /\ total' = total + size /\ UNCHANGED answer
    ELSE Stop(Check(size)) /\ UNCHANGED total

Load(s) ==
    /\ phase = "idle"
    /\ phase' = "begin" /\ source' = s
    /\ UNCHANGED <<total, held, limit, answer>>

(* Mutated form: the library's own exception reaches the caller.              *)
OpenFailuresOfHttp(kind) == {"HTTPError"}

(* The errors of a source that fails before its size is known: a scheme that  *)
(* is not read, a missing file, a refused connection or an HTTP error, a data *)
(* URI that is no image, a Pillow image larger than a decoded one may be.     *)
OpenFailures(kind) ==
    CASE kind = "videoPath" -> {"MediaDecode"}
      [] kind = "dataUri" -> {"InvalidRequest", "UnsupportedMedia"}
      [] kind = "pillow" -> {"decoded_edge_length", "decoded_pixels_per_image_or_frame"}
      [] OTHER -> {"UnsupportedMedia"}

(* A path may be there for stat and fail to open.                             *)
FailToOpen ==
    /\ phase = "begin" \/ (phase = "acquire" /\ source.kind = "path")
    /\ source.kind = "unsupported" \/ source.fault = "open"
    /\ \E failure \in OpenFailures(source.kind) : Stop(failure)
    /\ UNCHANGED <<source, total, held, limit>>

(* The announced size is checked before a byte is read.                       *)
Announce ==
    /\ phase = "begin"
    /\ source.kind # "unsupported"
    /\ source.fault # "open" \/ source.kind = "path"
    /\ LET broken == {Check(n) : n \in source.announced} \ {Accepted}
       IN  IF broken = {}
           THEN phase' = "acquire" /\ UNCHANGED answer
           ELSE \E breach \in broken : Stop(breach)
    /\ UNCHANGED <<source, total, held, limit>>

(* Arrays and Pillow images are in memory and are never charged.              *)
KeepUncharged ==
    /\ phase = "acquire" /\ source.kind \in Uncharged
    /\ phase' = "loaded"
    /\ UNCHANGED <<source, total, held, limit, answer>>

(* A buffer is in memory already; a data URI is decoded in one go.            *)
ChargeBuffer ==
    /\ phase = "acquire" /\ source.kind \in Buffers
    /\ IF source.kind = "dataUri" /\ source.fault = "read"
       THEN Stop("InvalidRequest") /\ UNCHANGED total
       ELSE Consume(source.size)
    /\ UNCHANGED <<source, held, limit>>

(* _file_frames charges what stat said; the decoder opens the path later.     *)
ChargeVideoPath ==
    /\ phase = "acquire" /\ source.kind = "videoPath"
    /\ \E stat \in source.announced : Consume(stat)
    /\ UNCHANGED <<source, held, limit>>

-------------------------------------------------------------------------------
(* _read_limited                                                              *)

BeginRead ==
    /\ phase = "acquire" /\ source.kind \in Streams /\ source.fault # "open"
    /\ phase' = "reading"
    /\ held' = 0
    /\ limit' = ReadLimit
    /\ UNCHANGED <<source, total, answer>>

(* One byte more than is allowed is asked for, to tell a source that ends at  *)
(* the limit from one that goes on.                                           *)
Requested == Min2(ChunkBytes, (limit - held) + 1)

Left == Monus(source.size, held)

ReadChunk ==
    /\ phase = "reading"
    /\ \E n \in 1..Min2(Requested, Left) :
        /\ held' = held + n
        /\ IF held + n > limit
           THEN Stop(IF Check(held + n) = Accepted THEN AssertionError
                     ELSE Check(held + n))
           ELSE UNCHANGED <<phase, answer>>
    /\ UNCHANGED <<source, total, limit>>

(* An empty chunk is the end of the stream.                                   *)
EndOfStream ==
    /\ phase = "reading"
    /\ Left = 0
    /\ Consume(held)
    /\ UNCHANGED <<source, held, limit>>

(* Mutated form: the read is tried again.                                     *)
ReadRetries ==
    /\ phase = "reading"
    /\ source.fault = "read"
    /\ phase' = "acquire" /\ held' = 0
    /\ UNCHANGED <<source, total, limit, answer>>

(* A time-out, a reset connection or a device error between two chunks.       *)
ReadFails ==
    /\ phase = "reading"
    /\ source.fault = "read"
    /\ Stop("UnsupportedMedia")
    /\ UNCHANGED <<source, total, held, limit>>

ReadStep ==
    \/ FailToOpen \/ Announce \/ KeepUncharged \/ ChargeBuffer \/ ChargeVideoPath
    \/ BeginRead \/ ReadChunk \/ EndOfStream \/ ReadFails

(* What the caller does with a source that is loaded, and with its own errors. *)
Take ==
    /\ phase = "loaded"
    /\ phase' = "idle"
    /\ UNCHANGED <<source, total, held, limit, answer>>

Finish ==
    /\ phase \in {"idle", "loaded"}
    /\ phase' = "done" /\ answer' # AssertionError
    /\ UNCHANGED <<source, total, held, limit>>

ReadingNext == ReadStep \/ Take \/ Finish \/ \E s \in Sources : Load(s)

ReadingSpec == ReadingInit /\ [][ReadingNext]_readingVars

-------------------------------------------------------------------------------
(* Properties                                                                 *)

ReadingTypeOK ==
    /\ source \in Sources \cup {NoSource}
    /\ phase \in {"idle", "begin", "acquire", "reading", "loaded", "done"}
    /\ total \in Nat /\ held \in Nat /\ limit \in Nat
    /\ phase \in {"begin", "acquire", "reading"} => source \in Sources

(* Whatever is announced and however a stream is cut, what is charged stays   *)
(* within the limit of the batch, and a read holds no more than both limits   *)
(* leave, but for the one byte that shows a breach; and the assertion in      *)
(* _read_limited, after a check that must have refused, is never reached.     *)
MemoryStaysWithinTheLimits ==
    /\ total <= BatchLimit
    /\ phase = "reading" => held <= ItemLimit /\ total + held <= BatchLimit
    /\ held <= ItemLimit + 1
    /\ answer # AssertionError
==============================================================================
