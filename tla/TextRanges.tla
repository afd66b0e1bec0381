------------------------------ MODULE TextRanges ------------------------------
(* text.rs: where the tokens of a medium stand in the row of its request.     *)
(* The rendered prompt is a sequence of pieces.  A piece has a length in      *)
(* bytes, raw, and the tokens the encoder makes of it; the encoder works on   *)
(* the NFC form of the prompt, so the bytes of a piece's tokens may be fewer  *)
(* or more than raw.  Every placeholder is a piece of its own: the template   *)
(* puts vision tokens around it, and the encoder never merges across those.   *)
(* What happens between two texts with nothing between them is not modelled.  *)
EXTENDS Integers, Sequences

LOCAL INSTANCE SequencesExt
LOCAL INSTANCE FiniteSetsExt

Token(type, bytes) == [type |-> type, bytes |-> bytes]
Piece(raw, tokens) == [raw |-> raw, tokens |-> tokens]

Ascii(types) == Piece(Len(types), [k \in DOMAIN types |-> Token(types[k], 1)])
Placeholder(kind) == Ascii(<<kind>>)
VisionStart == Ascii(<<"text">>)
VisionEnd == Ascii(<<"text">>)

Repeat(type, n) == [k \in 1..n |-> type]
VisualItems(content) == SelectSeq(content, LAMBDA item : item.kind # "text")

-------------------------------------------------------------------------------
(* Rendering and expansion                                                    *)

Rendered(content) ==
    FlattenSeq([k \in DOMAIN content |->
        IF content[k].kind = "text" THEN <<content[k].piece>>
        ELSE <<VisionStart, Placeholder(content[k].kind), VisionEnd>>])

(* A text may hold a placeholder literally: it is found like the others.      *)
Kind(piece) == IF piece.tokens = <<>> THEN "text" ELSE piece.tokens[1].type
Markers(prompt) == SetToSortSeq({k \in DOMAIN prompt : Kind(prompt[k]) # "text"}, <)

MarkersMatch(content) ==
    LET prompt == Rendered(content)
        markers == Markers(prompt)
        visuals == VisualItems(content) IN
    /\ Len(markers) = Len(visuals)
    /\ \A k \in DOMAIN markers : Kind(prompt[markers[k]]) = visuals[k].kind

(* A visual has its grid: frames, and tokens for each of them.                *)
Replacement(visual) ==
    IF visual.kind = "image" THEN Ascii(Repeat("image", visual.tokens))
    ELSE Ascii(FlattenSeq([f \in 1..visual.frames |->
                   <<"text", "text">> \o Repeat("video", visual.tokens) \o <<"text">>]))

Expanded(content, visuals) ==
    LET prompt == Rendered(content)
        markers == Markers(prompt) IN
    [k \in DOMAIN prompt |->
        IF \E m \in DOMAIN markers : markers[m] = k
        THEN Replacement(visuals[CHOOSE m \in DOMAIN markers : markers[m] = k])
        ELSE prompt[k]]

RawBefore(prompt, k) == MapThenSumSet(LAMBDA i : prompt[i].raw, 1..(k - 1))

(* The bytes of every replacement in the expanded prompt, as it was written.  *)
Pending(content, visuals) ==
    LET prompt == Expanded(content, visuals)
        markers == Markers(Rendered(content)) IN
    [m \in DOMAIN markers |->
        [start |-> RawBefore(prompt, markers[m]), end |-> RawBefore(prompt, markers[m] + 1)]]

-------------------------------------------------------------------------------
(* Encoding and location                                                      *)

Encoded(prompt) == FlattenSeq([k \in DOMAIN prompt |-> prompt[k].tokens])
Offset(tokens, k) == MapThenSumSet(LAMBDA i : tokens[i].bytes, 1..(k - 1))

(* The length of the NFC form of the bytes from a to b.                       *)
Normalized(prompt, a, b) ==
    MapThenSumSet(LAMBDA k : Offset(prompt[k].tokens, Len(prompt[k].tokens) + 1),
                  {k \in DOMAIN prompt : /\ a <= RawBefore(prompt, k)
                                         /\ RawBefore(prompt, k + 1) <= b})

NotFound == [start |-> -1, end |-> -1]

(* The tokens whose bytes start at a and end at b, none before the cursor.    *)
Covering(tokens, cursor, a, b) ==
    LET starts == {k \in (cursor + 1)..Len(tokens) : Offset(tokens, k) = a}
        ends(s) == {k \in s..Len(tokens) : Offset(tokens, k + 1) <= b} IN
    IF starts = {} THEN NotFound
    ELSE LET s == Min(starts) IN
         IF ends(s) = {} \/ Offset(tokens, Max(ends(s)) + 1) # b THEN NotFound
         ELSE [start |-> s - 1, end |-> Max(ends(s))]

Located(prompt, pending) ==
    LET tokens == Encoded(prompt)
        Locate(found, span) ==
            LET gap == Normalized(prompt, found.raw, span.start)
                start == found.normalized + gap
                end == start + Normalized(prompt, span.start, span.end)
                range == Covering(tokens, found.token, start, end) IN
            [raw |-> span.end, normalized |-> end, token |-> range.end,
             ranges |-> Append(found.ranges, range)] IN
    FoldLeft(Locate, [raw |-> 0, normalized |-> 0, token |-> 0, ranges |-> <<>>],
             pending).ranges
===============================================================================
