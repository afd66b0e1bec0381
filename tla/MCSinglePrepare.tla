--------------------------- MODULE MCSinglePrepare ---------------------------
(* One-request batches for TLC: every list of at most MaxItems content items. *)
EXTENDS SinglePrepare

CONSTANT MaxItems

Media(kind, plan, geometry, body, rows) ==
    [kind |-> kind, plan |-> plan, geometry |-> geometry, body |-> body,
     rows |-> rows]

Pool ==
    { Media("text", "Ok", "Ok", "Ok", 0), Media("video", "Ok", "Ok", "Ok", 1),
      Media("image", "Ok", "Ok", "Ok", 1), Media("image", "Ok", "Ok", "Ok", 2),
      Media("image", "UnsupportedMedia", "Ok", "Ok", 1),
      Media("image", "ArithmeticOverflow", "Ok", "Ok", 1),
      Media("image", "ResourceLimit", "Ok", "Ok", 1),
      Media("image", "Ok", "Ok", "MediaDecode", 1),
      Media("image", "Ok", "Ok", "InternalInvariant", 1),
      Media("image", "Ok", "MediaGeometry", "Ok", 1),
      Media("image", "Ok", "MediaGeometry", "MediaDecode", 1) }

Request1(items, render, options) ==
    [structure |-> "Ok", render |-> render, options |-> options,
     items |-> items]

Batch(request, resources, text) ==
    [requests |-> <<request>>, resources |-> resources, text |-> text]

MCBatches ==
    {Batch(Request1(items, "Ok", "Ok"), "Ok", text) :
        items \in UNION {[1..n -> Pool] : n \in 0..MaxItems},
        text \in {"Ok", "ResourceLimit"}}
    \cup {Batch(Request1(<<>>, render, options), resources, "Ok") :
            render \in {"Ok", "InvalidRequest"},
            options \in {"Ok", "UnsupportedOption"},
            resources \in {"Ok", "ResourceLimit"}}
==============================================================================
