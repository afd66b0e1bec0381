---------------------------- MODULE MCBindingCall ----------------------------
(* Texts that NFC shortens, lengthens, leaves alone or that hold a            *)
(* placeholder; two images and two videos; one or two requests, of every      *)
(* content the pools below give.                                              *)
EXTENDS BindingCall

Text(piece) == [kind |-> "text", piece |-> piece]
Shown(kind, n) == [kind |-> kind, index |-> n]

Plain == Text(Ascii(<<"text">>))
Composed == Text(Piece(3, <<Token("text", 2)>>))
Decomposed == Text(Piece(2, <<Token("text", 1), Token("text", 2)>>))
Literal(kind) == Text(Placeholder(kind))

Encoded1 == [form |-> "encoded", size |-> 2, tokens |-> 1]
Encoded2 == [form |-> "encoded", size |-> 4, tokens |-> 2]
Raw == [form |-> "raw", size |-> 2, tokens |-> 2]
Short == [frames |-> 2, tokens |-> 1]
Long == [frames |-> 3, tokens |-> 2]

MCNewImages == {Encoded1, Encoded2, [Raw EXCEPT !.size = 5]}
MCNewVideos == {Short, [Short EXCEPT !.frames = 5]}

Call(items, images, videos) == [content |-> items, images |-> images, videos |-> videos]

Items == {Plain, Composed, Decomposed, Literal("image"),
          Shown("image", 1), Shown("image", 2), Shown("video", 1)}
Contents == UNION {[1..n -> Items] : n \in 1..3}

Used(items, kind) == {items[k].index : k \in {j \in DOMAIN items : items[j].kind = kind}}

Supplied(items) ==
    Call(items,
         CASE Used(items, "image") = {} -> <<>>
           [] Used(items, "image") = {1} -> <<Encoded1>>
           [] OTHER -> <<Encoded1, Raw>>,
         IF Used(items, "video") = {} THEN <<>> ELSE <<Long>>)

One == {<<Supplied(items)>> : items \in Contents}

Partner == Supplied(<<Composed, Shown("video", 1), Decomposed, Shown("image", 1)>>)
Two == {<<Partner, Supplied(items)>> : items \in {<<i>> : i \in Items}}
       \cup {<<Supplied(<<Plain>>), Supplied(<<Shown("image", 1), Shown("image", 2)>>)>>}

MCCalls == One \cup Two
==============================================================================
