---------------------------- MODULE MCToastFetch ----------------------------
(* Files that hold every value intact: the chunks of a plain value in two  *)
(* chunks, a compressed one in two and a compressed one that consists of   *)
(* marks, laid out in every order over the slots of two pages among dead   *)
(* and redirected line pointers.  And files after damage: one or two       *)
(* chunks replaced by what corruption leaves there, pages with a ruined    *)
(* pd_lower, files that cannot be opened or are cut, and pages the medium  *)
(* does not deliver, or delivers a part of.                                *)
EXTENDS ToastFetch

(* A chunk tuple behind slot k (from 0) of a page.                         *)
Slot(k, flags, id, seq, bytes) ==
  [flags |-> flags, off |-> 14 + 24 * k, len |-> 24, hoff |-> 2, nulls |-> {},
   id |-> id, seq |-> seq, hdr |-> VARHDRSZ, size |-> VARHDRSZ + Len(bytes), data |-> bytes]

ShortRun == <<Format!Lit(7), Format!Run(9, 1)>>
Marks == <<Format!Lit(Mark), Format!Run(9, 1)>>

(* PGLZ_Header.rawsize and the stream.                                     *)
Compressed(items) == <<Len(Format!Expand(items)), 0, 0, 0>> \o Format!Encode(items)

Plain(text) == [text |-> text, image |-> text, items |-> << >>]
Packed(items) ==
  [text |-> Format!Expand(items), image |-> Compressed(items), items |-> items]

MCStore == <<Plain(<<Mark, Mark, 3, 4, 5, 6>>), Packed(ShortRun), Packed(Marks)>>

PointerTo(id) ==
  [rawsize |-> Len(MCStore[id].text) + VARHDRSZ,
   extsize |-> Len(MCStore[id].image), valueid |-> id]

MCPointers ==
  {PointerTo(id) : id \in 1 .. 3} \union {[rawsize |-> 9, extsize |-> 5, valueid |-> 4]}

(* Chunks: value id, number and the bytes of the image in it.              *)
MCChunks ==
  <<[id |-> 1, seq |-> 0, from |-> 1, to |-> 5], [id |-> 1, seq |-> 1, from |-> 6, to |-> 6],
    [id |-> 2, seq |-> 0, from |-> 1, to |-> 5], [id |-> 2, seq |-> 1, from |-> 6, to |-> 9],
    [id |-> 3, seq |-> 0, from |-> 1, to |-> 9]>>

ChunkSlot(k, c) ==
  Slot(k, LP_NORMAL, c.id, c.seq, SubSeq(MCStore[c.id].image, c.from, c.to))

PageOf(slots) == [lower |-> PageHeaderSize + ItemIdSize * Len(slots), linp |-> slots]

Sound(pages) ==
  [opens |-> TRUE, pages |-> pages, tail |-> 0, bad |-> {}, left |-> ZeroPage]

IntactFiles ==
  {Sound(<<PageOf(<<ChunkSlot(0, MCChunks[o[1]]), Slot(1, LP_DEAD, 2, 0, <<9, 9>>),
              ChunkSlot(2, MCChunks[o[2]])>>),
     PageOf(<<ChunkSlot(0, MCChunks[o[3]]), ChunkSlot(1, MCChunks[o[4]]),
              ChunkSlot(2, MCChunks[o[5]]), Slot(3, LP_REDIRECT, 1, 0, <<9>>)>>)>>) :
     o \in {f \in [1 .. 5 -> 1 .. 5] : \A i, j \in 1 .. 5 : i # j => f[i] # f[j]}}

-----------------------------------------------------------------------------

(* The undamaged places: 1 and 2 hold the plain value, its second chunk    *)
(* first, 3 and 4 the compressed one, whose stream ends with the file.     *)
Place ==
  [k \in 1 .. 4 |->
     LET c == <<[id |-> 1, seq |-> 1, from |-> 6, to |-> 6],
                [id |-> 1, seq |-> 0, from |-> 1, to |-> 5],
                [id |-> 2, seq |-> 0, from |-> 1, to |-> 8],
                [id |-> 2, seq |-> 1, from |-> 9, to |-> 9]>>[k]
         slot == ChunkSlot((k - 1) % 2, c)
     IN  IF k = 4 THEN [slot EXCEPT !.off = PageSize - 15, !.len = 15] ELSE slot]

(* Half of one chunk tuple, half of another.                               *)
MCMixed == {[Place[2] EXCEPT !.id = 2, !.seq = 3], [Place[2] EXCEPT !.id = 4]}

Lost(k) == [Place[k] EXCEPT !.len = 0]
OffPageItem(k) == [Place[k] EXCEPT !.off = PageSize - 3]

(* A header that claims more than the file has, less than the header       *)
(* itself, or bytes of the next tuple.                                     *)
WithSize(k, n) == [Place[k] EXCEPT !.size = n]

(* A header that became one of a byte, or the tag of a TOAST pointer: what *)
(* was the rest of it is taken for data.                                   *)
WithHeader(k, n, size) ==
  [Place[k] EXCEPT !.hdr = n, !.size = size,
                   !.data = [j \in 1 .. VARHDRSZ - n |-> 1] \o @]

(* What may be found in place k.                                           *)
Damaged(k) ==
  {Place[k], Lost(k), WithSize(k, 200), WithSize(k, 0), WithSize(k, 5)}
  \union
  CASE k = 1 -> {[Place[k] EXCEPT !.nulls = {2}], OffPageItem(k), WithHeader(k, 1, 4)}
    [] k = 2 -> {[Place[k] EXCEPT !.seq = WordMod - 1], [Place[k] EXCEPT !.seq = 2],
                 [Place[k] EXCEPT !.seq = 1], WithHeader(k, 0, 18)}
    [] k = 3 -> {[Place[k] EXCEPT !.data = <<10, 0, 0, 15, 2, 7, 3, 1>>],
                 [Place[k] EXCEPT !.data = <<10, 0, 0, 0, 2, 7, 3, 9>>],
                 [Place[k] EXCEPT !.data = <<10, 0, 0, 0, 8, 7, 3, 1>>]}
    [] k = 4 -> {[Place[k] EXCEPT !.data = <<0>>], [Place[k] EXCEPT !.data = <<6>>]}

TwoPages(places) ==
  <<PageOf(<<places[1], places[2]>>), PageOf(<<places[3], places[4]>>)>>

(* Three pages: the last one repeats the values of the first.              *)
ThreePages == TwoPages(Place) \o <<PageOf(<<Place[2], Place[1]>>)>>

(* The pages of set b are not delivered whole: the first of them leaves    *)
(* its first n bytes over those of the page before it.                     *)
Broken(pages, b) ==
  LET p == CHOOSE q \in b : \A r \in b : q <= r
      old == IF p = 0 THEN ZeroPage ELSE pages[p]
  IN  {[Sound(pages) EXCEPT !.bad = b, !.left = l] :
         l \in UNION {Torn(pages[p + 1], old, n, MCMixed) : n \in 0 .. PageSize - 1}}

DamagedFiles ==
  LET places == {<<a, b, c, d>> :
                   a \in Damaged(1), b \in Damaged(2), c \in Damaged(3), d \in Damaged(4)}
      damaged == {f \in places : Cardinality({k \in 1 .. 4 : f[k] # Place[k]}) <= 2}
      pages == TwoPages(Place)
  IN  {Sound(TwoPages(f)) : f \in damaged}
      \union {Sound([pages EXCEPT ![n].lower = l]) :
                n \in 1 .. 2, l \in {0, PageHeaderSize, PageHeaderSize + 3}}
      \union {Sound(ThreePages)}
      \union UNION {Broken(ThreePages, b) : b \in SUBSET (0 .. 2) \ {{}}}
      \union {[Sound(pages) EXCEPT !.opens = FALSE], [Sound(pages) EXCEPT !.tail = 3]}

MCFiles == IntactFiles \union DamagedFiles

=============================================================================
