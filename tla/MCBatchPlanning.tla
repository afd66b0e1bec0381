--------------------------- MODULE MCBatchPlanning ---------------------------
(* Small batches for TLC: every split of at most MaxItems content items over  *)
(* at most two requests, with at most one failing admission check; the same,  *)
(* shorter, with a recorder attached; and a wide fan-out over three workers.  *)
EXTENDS BatchPlanning

CONSTANTS MaxItems, MaxObserved, MaxWide

Media(kind, plan, geometry, body, rows) ==
    [kind |-> kind, plan |-> plan, geometry |-> geometry, body |-> body,
     rows |-> rows]

Good(kind, rows) == Media(kind, "Ok", "Ok", "Ok", rows)

(* Encoded images: good, refused by the header probe, beyond a limit, with an *)
(* undecodable body, with extreme geometry, and with both of the latter.      *)
Encoded ==
    { Good("image", 2),
      Media("image", "UnsupportedMedia", "Ok", "Ok", 1),
      Media("image", "ResourceLimit", "Ok", "Ok", 1),
      Media("image", "Ok", "Ok", "MediaDecode", 1),
      Media("image", "Ok", "MediaGeometry", "Ok", 1),
      Media("image", "Ok", "MediaGeometry", "MediaDecode", 1) }

(* A raw image whose stride is short, a video, one that is refused, one whose *)
(* resize fails, and text.                                                    *)
Others ==
    { Media("image", "Ok", "Ok", "MediaGeometry", 1),
      Good("video", 3),
      Media("video", "MediaGeometry", "Ok", "Ok", 1),
      Media("video", "Ok", "Ok", "InternalInvariant", 1),
      Good("text", 0) }

(* A pool of images that all plan, for the widest fan-out.                    *)
Decodable ==
    { Good("image", 1), Good("image", 2),
      Media("image", "Ok", "Ok", "MediaDecode", 1) }

ItemLists(pool, max) == UNION {[1..n -> pool] : n \in 0..max}

Admitted(items) ==
    [structure |-> "Ok", render |-> "Ok", options |-> "Ok", items |-> items]

Batch(requests, resources, text, workers, observed) ==
    [requests |-> requests, resources |-> resources, text |-> text,
     workers |-> workers, observed |-> observed]

(* One request, or a list cut in two.                                         *)
Splits(list) ==
    {<<Admitted(list)>>} \cup
    {<<Admitted(SubSeq(list, 1, n)), Admitted(SubSeq(list, n + 1, Len(list)))>> :
        n \in 0..Len(list)}

Rejected ==
    LET r == Admitted(<<Good("image", 1)>>)
        bad == {[r EXCEPT !.structure = "InvalidRequest"],
                [r EXCEPT !.render = "InvalidRequest"],
                [r EXCEPT !.render = "UnsupportedOption"],
                [r EXCEPT !.options = "UnsupportedOption"], r}
    IN  {<<>>} \cup {<<s>> : s \in bad} \cup (bad \X bad)

Of(lists, texts, workers, observed) ==
    {Batch(requests, "Ok", text, workers, observed) :
        requests \in UNION {Splits(list) : list \in lists}, text \in texts}

MCBatches ==
    Of(ItemLists(Encoded \cup Others, MaxItems), {"Ok", "ResourceLimit"}, 2, FALSE)
    \cup Of(ItemLists(Encoded \cup Others, MaxObserved), {"Ok", "ResourceLimit"}, 3, TRUE)
    \cup Of(ItemLists(Decodable, MaxWide), {"Ok"}, 3, FALSE)
    \cup {Batch(requests, resources, "Ok", 2, observed) :
            requests \in Rejected, resources \in {"Ok", "ResourceLimit"},
            observed \in BOOLEAN}
==============================================================================
