--------------------------- MODULE ToastMapProofs ---------------------------
(***************************************************************************)
(* The TOAST map for every file, sound or damaged, whatever pages of it    *)
(* can be read: whatever order its chunk tuples come in, the map holds     *)
(* those scanned and nothing else, and what a fetch reads is the bytes of  *)
(* the chunk whose turn it is, in its place.  The fetches on top of it call the decoder as it may be    *)
(* called, only a damaged value makes their stream fail, and until it does *)
(* a value whose chunks are all there is answered by its own text: a       *)
(* lookup as ToastStore has it.                                            *)
(***************************************************************************)
EXTENDS ToastFetch, SequenceTheorems, FiniteSetTheorems, Induction, TLAPS

(* What a compressor can have written.                                     *)
StreamLists == {l \in Seq(Format!Item) : Format!WellFormedItems(l)}

Inflation == INSTANCE PglzDecompressProofs WITH
  Inputs <- {}, ItemLists <- StreamLists, Excess <- Nat, items <- << >>

-----------------------------------------------------------------------------

Place == [first: Nat, second: Nat]

(* The buffer holds the page being scanned, or a read has failed; between  *)
(* two pages no line pointer has been looked at.                           *)
BufferInStep ==
  /\ good => held = page_pos + 1 \/ (held = page_pos /\ item_pos = 0)
  /\ scan = "items" /\ good => held = page_pos + 1
  /\ scan \in {"open", "next"} => item_pos = 0 /\ (good => held = page_pos)
  /\ scan = "done" => item_pos = 0

(* What the induction needs of the variables of the scan.                  *)
MapTypeOK ==
  /\ file \in ToastFile
  /\ held \in 0 .. Len(file.pages)
  /\ page_pos \in Nat /\ item_pos \in Nat
  /\ \A id \in DOMAIN positions : positions[id] \in Seq(Place)
  /\ scan \in {"next", "items"} => End <= Len(file.pages)
  /\ scan = "items" => page_pos < End
  /\ BufferInStep

LEMMA WordIsNat ==
  ASSUME NEW n \in Int
  PROVE  Word(n) \in Nat
  <1>1. WordMod \in Nat \ {0}
    BY PageAssumption
  <1>2. QED  BY <1>1 DEF Word

LEMMA CountIsNat ==
  ASSUME NEW page \in BufferPage
  PROVE  ItemIdCount(page) \in Nat
  <1>1. page.lower \in Nat /\ PageHeaderSize \in Nat /\ ItemIdSize \in Nat \ {0}
    BY PageAssumption DEF BufferPage
  <1>2. LinePointerBytes(page) \in Nat
    BY <1>1, WordIsNat DEF LinePointerBytes
  <1>3. QED  BY <1>1, <1>2 DEF ItemIdCount

(* The iterator never counts more pages than the file has.                 *)
LEMMA EndFits ==
  ASSUME file \in ToastFile
  PROVE  End \in Nat /\ End <= Len(file.pages)
  <1> DEFINE n == Len(file.pages)
             bytes == PageSize * n + file.tail
  <1>1. n \in Nat /\ file.tail \in 0 .. PageSize - 1
    BY DEF ToastFile
  <1>2. PageSize \in Nat \ {0} /\ WordMod \in Nat \ {0}
    BY PageAssumption
  <1>3. PageSize * n \in Nat
    BY <1>1, <1>2
  <1>4. Size \in Nat /\ Size <= bytes
    <2> HIDE DEF n
    <2>1. bytes \in Nat
      BY <1>1, <1>3
    <2>2. \A b \in Nat, w \in Nat \ {0} : b % w \in Nat /\ b % w <= b
      OBVIOUS
    <2>3. QED  BY <1>2, <2>1, <2>2 DEF Size, Word, n
  <1>5. End \in Nat /\ PageSize * End <= Size
    BY <1>2, <1>4 DEF End
  <1>6. PageSize * End < PageSize * (n + 1)
    <2>1. \A a \in Nat, b \in Nat : a * (b + 1) = a * b + a
      OBVIOUS
    <2>2. PageSize * (n + 1) = PageSize * n + PageSize
      BY <1>1, <1>2, <2>1
    <2>3. End \in Nat /\ PageSize * End \in Nat
      BY <1>2, <1>5
    <2> HIDE DEF n
    <2>4. QED  BY <1>1, <1>2, <1>3, <1>4, <1>5, <2>2, <2>3
  <1>7. QED  BY <1>1, <1>2, <1>5, <1>6

(* A page of the file is one the buffer may hold.                          *)
LEMMA PagesAreShown == ToastPage \subseteq BufferPage
  BY DEF ToastPage, BufferPage

LEMMA ShownTyped ==
  ASSUME file \in ToastFile, held \in 0 .. Len(file.pages), NEW q \in Nat
  PROVE  ShownAt(q) \in BufferPage
  <1>1. file.left \in BufferPage /\ file.pages \in Seq(ToastPage)
    BY DEF ToastFile
  <1>2. CASE q < held
    <2>1. q + 1 \in DOMAIN file.pages
      BY <1>1, <1>2
    <2>2. file.pages[q + 1] \in ToastPage
      BY <1>1, <2>1
    <2>3. QED  BY <1>2, <2>2, PagesAreShown DEF ShownAt
  <1>3. CASE ~ (q < held)
    BY <1>1, <1>3 DEF ShownAt
  <1>4. QED  BY <1>2, <1>3

LEMMA LocationIsPlace ==
  ASSUME NEW p \in Nat, NEW it \in ChunkItem
  PROVE  Location(p, it) \in Place
  <1>1. PageSize \in Nat
    BY PageAssumption
  <1>2. PageSize * p \in Nat
    BY <1>1
  <1>3. PageSize * p + it.off + it.hoff + IdSeqSize + it.hdr \in Int /\ it.size - it.hdr \in Int
    <2>1. it.off \in Nat /\ it.hoff \in Nat /\ it.hdr \in Nat /\ it.size \in Nat
      BY DEF ChunkItem
    <2>2. QED  BY ONLY <1>2, <2>1 DEF IdSeqSize
  <1>4. QED  BY <1>3, WordIsNat DEF Location, Place

(* The vector of a value after a chunk was entered: no shorter than it     *)
(* was, the chunk in its place, every other place as it was or a hole.     *)
LEMMA WithChunkProperties ==
  ASSUME NEW datas \in Seq(Place), NEW seq \in Nat, NEW loc \in Place
  PROVE  /\ WithChunk(datas, seq, loc) \in Seq(Place)
         /\ seq + 1 \in DOMAIN WithChunk(datas, seq, loc)
         /\ DOMAIN datas \subseteq DOMAIN WithChunk(datas, seq, loc)
         /\ WithChunk(datas, seq, loc)[seq + 1] = loc
         /\ \A k \in DOMAIN datas : k # seq + 1 => WithChunk(datas, seq, loc)[k] = datas[k]
         /\ \A k \in DOMAIN WithChunk(datas, seq, loc) :
              k # seq + 1 => \/ WithChunk(datas, seq, loc)[k] = Hole
                             \/ /\ k \in DOMAIN datas
                                /\ WithChunk(datas, seq, loc)[k] = datas[k]
  <1> DEFINE n == IF Len(datas) <= seq THEN seq + 1 ELSE Len(datas)
             e(k) == IF k = seq + 1 THEN loc ELSE IF k <= Len(datas) THEN datas[k] ELSE Hole
             v == [k \in 1 .. n |-> e(k)]
  <1>1. n \in Nat /\ Len(datas) \in Nat /\ Len(datas) <= n /\ seq + 1 <= n
    OBVIOUS
  <1>2. DOMAIN datas = 1 .. Len(datas) /\ \A k \in 1 .. Len(datas) : datas[k] \in Place
    OBVIOUS
  <1>3. Hole \in Place
    BY DEF Hole, Place
  <1>4. \A k \in 1 .. n : e(k) \in Place
    BY <1>1, <1>2, <1>3
  <1>5. v \in Seq(Place) /\ DOMAIN v = 1 .. n
    <2> HIDE DEF n, e
    <2>1. v \in [1 .. n -> Place]
      BY <1>4
    <2>2. QED  BY <1>1, <2>1
  <1>6. WithChunk(datas, seq, loc) = v
    BY DEF WithChunk
  <1>7. \A k \in 1 .. n : v[k] = e(k)
    OBVIOUS
  <1>8. v[seq + 1] = loc /\ seq + 1 \in DOMAIN v /\ DOMAIN datas \subseteq DOMAIN v
    BY <1>1, <1>2, <1>5, <1>7
  <1>9. \A k \in DOMAIN datas : k # seq + 1 => v[k] = datas[k]
    BY <1>1, <1>2, <1>7
  <1>10. \A k \in DOMAIN v :
           k # seq + 1 => v[k] = Hole \/ (k \in DOMAIN datas /\ v[k] = datas[k])
    BY <1>1, <1>2, <1>5, <1>7
  <1> HIDE DEF v
  <1>11. QED  BY <1>5, <1>6, <1>8, <1>9, <1>10

-----------------------------------------------------------------------------

(* The places of the items, spelled out.                                   *)
LEMMA ItemPlaces ==
  ASSUME NEW pi \in Items
  PROVE  /\ pi = <<pi[1], pi[2]>>
         /\ pi[1] \in 0 .. Len(file.pages) - 1
         /\ pi[2] \in 0 .. Len(ShownAt(pi[1]).linp) - 1
         /\ pi[2] < ItemIdCount(ShownAt(pi[1]))
  BY DEF Items

LEMMA ItemAt ==
  ASSUME NEW q \in 0 .. Len(file.pages) - 1,
         NEW j \in 0 .. Len(ShownAt(q).linp) - 1,
         j < ItemIdCount(ShownAt(q))
  PROVE  <<q, j>> \in Items
  BY DEF Items

LEMMA ChunkTyped ==
  ASSUME MapTypeOK, NEW pi \in Items, Followed(ChunkAt(pi))
  PROVE  ChunkAt(pi) \in ChunkItem
  <1>1. pi[1] \in Nat
    BY ItemPlaces DEF MapTypeOK, ToastFile
  <1>2. ShownAt(pi[1]).linp \in Seq(ChunkItem \union {ZeroItem})
    BY <1>1, ShownTyped DEF MapTypeOK, BufferPage
  <1>3. ChunkAt(pi) \in ChunkItem \union {ZeroItem}
    BY <1>2, ItemPlaces DEF ChunkAt
  <1>4. ~ Followed(ZeroItem)
    BY DEF Followed, ZeroItem, LP_UNUSED, LP_NORMAL
  <1>5. QED  BY <1>3, <1>4

(* An item that the scan follows is one of those.                          *)
LEMMA ItemHere ==
  ASSUME MapTypeOK, AtItem, Followed(Item)
  PROVE  /\ <<page_pos, item_pos>> \in Items
         /\ ChunkAt(<<page_pos, item_pos>>) = Item
         /\ Item \in ChunkItem
  <1>1. item_pos < Len(Page.linp) /\ Item = Page.linp[item_pos + 1]
    BY DEF Followed, Item, LinePointer, ZeroItem, LP_UNUSED, LP_NORMAL
  <1>2. Page \in BufferPage /\ Len(file.pages) \in Nat
    BY ShownTyped DEF MapTypeOK, Page, ToastFile
  <1>3. <<page_pos, item_pos>> \in Items
    <2>1. page_pos \in 0 .. Len(file.pages) - 1
      BY <1>2, EndFits DEF MapTypeOK, AtItem
    <2>2. item_pos \in 0 .. Len(ShownAt(page_pos).linp) - 1
      BY <1>1, <1>2 DEF MapTypeOK, Page, BufferPage
    <2>3. item_pos < ItemIdCount(ShownAt(page_pos))
      BY DEF AtItem, Page
    <2>4. QED  BY <2>1, <2>2, <2>3, ItemAt
  <1>4. ChunkAt(<<page_pos, item_pos>>) = Item
    BY <1>1 DEF ChunkAt, Page
  <1>5. QED  BY <1>3, <1>4, ChunkTyped

(* The buffer stays: so does every item shown.                             *)
LEMMA ShownStays ==
  ASSUME UNCHANGED <<file, held>>
  PROVE  Items' = Items /\ \A pi : ChunkAt(pi)' = ChunkAt(pi)
  BY DEF Items, ChunkAt, ShownAt, ItemIdCount, LinePointerBytes

LEMMA StillScanned ==
  ASSUME UNCHANGED <<file, held, page_pos, item_pos>>
  PROVE  ScannedChunks' = ScannedChunks
  BY ShownStays DEF ScannedChunks, Scanned

(* Reading a page adds nothing yet, and shows what was scanned as before.  *)
LEMMA ReadPageScanned ==
  ASSUME MapTypeOK, ReadPage
  PROVE  /\ ScannedChunks' = ScannedChunks
         /\ \A pi \in ScannedChunks : ChunkAt(pi)' = ChunkAt(pi)
  <1>1. /\ held = page_pos /\ held' = page_pos + 1 /\ item_pos = 0
        /\ UNCHANGED <<file, page_pos, item_pos>>
        /\ page_pos \in Nat /\ Len(file.pages) \in Nat
    BY DEF MapTypeOK, BufferInStep, ReadPage, AtPage, ToastFile
  <1>2. ASSUME NEW q \in 0 .. Len(file.pages) - 1, q < page_pos
        PROVE  ShownAt(q)' = ShownAt(q)
    BY <1>1, <1>2 DEF ShownAt
  <1>3. ASSUME NEW pi \in ScannedChunks
        PROVE  pi \in ScannedChunks' /\ ChunkAt(pi)' = ChunkAt(pi)
    <2>1. pi \in Items /\ Followed(ChunkAt(pi)) /\ Scanned(pi)
      BY <1>3 DEF ScannedChunks
    <2>2. pi = <<pi[1], pi[2]>> /\ pi[1] \in 0 .. Len(file.pages) - 1 /\ pi[2] \in Int
      BY <2>1, ItemPlaces
    <2>3. pi[1] < page_pos
      <3>1. pi[2] >= 0
        BY <2>1, ItemPlaces
      <3>2. QED  BY <1>1, <2>1, <2>2, <3>1 DEF Scanned
    <2>4. ShownAt(pi[1])' = ShownAt(pi[1])
      BY <1>2, <2>2, <2>3
    <2>5. ChunkAt(pi)' = ChunkAt(pi)
      BY <2>4 DEF ChunkAt
    <2>6. pi \in Items'
      BY <1>1, <2>1, <2>2, <2>4, ItemPlaces DEF Items, ItemIdCount, LinePointerBytes
    <2>7. QED  BY <1>1, <2>1, <2>5, <2>6 DEF ScannedChunks, Scanned
  <1>4. ASSUME NEW pi \in ScannedChunks'
        PROVE  pi \in ScannedChunks
    <2>1. pi \in Items' /\ Followed(ChunkAt(pi)') /\ Scanned(pi)
      BY <1>1, <1>4 DEF ScannedChunks, Scanned
    <2>2. /\ pi = <<pi[1], pi[2]>> /\ pi[1] \in 0 .. Len(file.pages) - 1
          /\ pi[2] \in 0 .. Len(ShownAt(pi[1])'.linp) - 1
          /\ pi[2] < ItemIdCount(ShownAt(pi[1])')
      BY <1>1, <2>1 DEF Items, ItemIdCount, LinePointerBytes
    <2>3. pi[1] < page_pos
      BY <1>1, <2>1, <2>2 DEF Scanned
    <2>4. ShownAt(pi[1])' = ShownAt(pi[1])
      BY <1>2, <2>2, <2>3
    <2>5. pi \in Items
      BY <2>2, <2>4, ItemAt
    <2>6. QED  BY <2>1, <2>4, <2>5 DEF ScannedChunks, ChunkAt
  <1>5. QED  BY <1>3, <1>4

(* Going to the next line pointer adds the item left behind, if it is a    *)
(* chunk tuple.                                                            *)
LEMMA NextItemScanned ==
  ASSUME MapTypeOK, AtItem, UNCHANGED <<file, held, page_pos>>,
         item_pos' = item_pos + 1
  PROVE  ScannedChunks' =
           ScannedChunks \union
             {pi \in {<<page_pos, item_pos>>} : Followed(Item)}
  <1>1. Items' = Items /\ \A pi : ChunkAt(pi)' = ChunkAt(pi)
    BY ShownStays
  <1>2. ASSUME NEW pi \in Items
        PROVE  Scanned(pi)' <=> Scanned(pi) \/ pi = <<page_pos, item_pos>>
    BY ItemPlaces DEF Scanned, MapTypeOK, ToastFile
  <1>3. ASSUME NEW pi \in ScannedChunks'
        PROVE  pi \in ScannedChunks \/ (pi = <<page_pos, item_pos>> /\ Followed(Item))
    <2>1. pi \in Items /\ Scanned(pi)' /\ Followed(ChunkAt(pi))
      BY <1>1, <1>3 DEF ScannedChunks
    <2>2. CASE Scanned(pi)
      BY <2>1, <2>2 DEF ScannedChunks
    <2>3. CASE pi = <<page_pos, item_pos>>
      <3>1. Item = ChunkAt(pi)
        BY <2>1, <2>3, ItemPlaces DEF Item, LinePointer, ChunkAt, Page
      <3>2. QED  BY <2>1, <2>3, <3>1
    <2>4. QED  BY <1>2, <2>1, <2>2, <2>3
  <1>4. ASSUME NEW pi \in ScannedChunks
        PROVE  pi \in ScannedChunks'
    BY <1>1, <1>2 DEF ScannedChunks
  <1>5. ASSUME Followed(Item)
        PROVE  <<page_pos, item_pos>> \in ScannedChunks'
    BY <1>1, <1>2, <1>5, ItemHere DEF ScannedChunks
  <1>6. QED  BY <1>3, <1>4, <1>5

(* Going to the next page adds nothing: its items were all looked at.      *)
LEMMA NextPageScanned ==
  ASSUME MapTypeOK, NextPage
  PROVE  ScannedChunks' = ScannedChunks
  <1>1. /\ Items' = Items /\ \A pi : ChunkAt(pi)' = ChunkAt(pi)
        /\ page_pos' = page_pos + 1 /\ item_pos' = 0
        /\ item_pos >= ItemIdCount(Page)
    BY ShownStays DEF NextPage
  <1>2. Page \in BufferPage
    BY ShownTyped DEF MapTypeOK, Page
  <1>3. ItemIdCount(Page) \in Nat
    BY <1>2, CountIsNat
  <1>4. ASSUME NEW pi \in Items
        PROVE  Scanned(pi)' <=> Scanned(pi)
    <2>1. pi[1] \in Nat /\ pi[2] \in Nat /\ (pi[1] = page_pos => pi[2] < ItemIdCount(Page))
      BY ItemPlaces DEF Page
    <2>2. QED  BY <1>1, <1>3, <2>1 DEF Scanned, MapTypeOK
  <1>5. QED  BY <1>1, <1>4 DEF ScannedChunks

-----------------------------------------------------------------------------

(* The two steps that do more than move on or stop.                        *)
LEMMA AddChunkEffect ==
  ASSUME MapTypeOK, AddChunk
  PROVE  LET v == WithChunk(ChunksOf(Item.id), Item.seq, Location(page_pos, Item))
         IN  /\ DOMAIN positions' = DOMAIN positions \union {Item.id}
             /\ positions'[Item.id] = v
             /\ \A id \in DOMAIN positions : id # Item.id => positions'[id] = positions[id]
             /\ ChunksOf(Item.id) \in Seq(Place)
             /\ Item \in ChunkItem
             /\ Location(page_pos, Item) \in Place
             /\ ScannedChunks' = ScannedChunks \union {<<page_pos, item_pos>>}
             /\ <<page_pos, item_pos>> \in Items
             /\ ChunkAt(<<page_pos, item_pos>>) = Item
             /\ \A pi : ChunkAt(pi)' = ChunkAt(pi)
  <1>1. /\ AtItem /\ Followed(Item) /\ UNCHANGED <<file, held, page_pos>>
        /\ item_pos' = item_pos + 1
    BY DEF AddChunk, AtChunk
  <1>2. /\ <<page_pos, item_pos>> \in Items /\ Item \in ChunkItem
        /\ ChunkAt(<<page_pos, item_pos>>) = Item
    BY <1>1, ItemHere
  <1>3. ScannedChunks' = ScannedChunks \union {<<page_pos, item_pos>>}
    BY <1>1, NextItemScanned
  <1>4. ChunksOf(Item.id) \in Seq(Place)
    <2>1. << >> \in Seq(Place)
      OBVIOUS
    <2>2. QED  BY <2>1 DEF ChunksOf, MapTypeOK
  <1>5. Location(page_pos, Item) \in Place
    BY <1>2, LocationIsPlace DEF MapTypeOK
  <1>6. positions' =
          [id \in DOMAIN positions \union {Item.id} |->
             IF id = Item.id
               THEN WithChunk(ChunksOf(Item.id), Item.seq, Location(page_pos, Item))
               ELSE positions[id]]
    BY DEF AddChunk
  <1>7. \A pi : ChunkAt(pi)' = ChunkAt(pi)
    BY <1>1, ShownStays
  <1>8. QED  BY <1>2, <1>3, <1>4, <1>5, <1>6, <1>7

(* The value's vector after the step.                                      *)
LEMMA AddedVector ==
  ASSUME MapTypeOK, AddChunk
  PROVE  /\ positions'[Item.id] \in Seq(Place)
         /\ Item.seq + 1 \in DOMAIN positions'[Item.id]
         /\ positions'[Item.id][Item.seq + 1] = Location(page_pos, Item)
         /\ Item.id \in DOMAIN positions =>
              /\ DOMAIN positions[Item.id] \subseteq DOMAIN positions'[Item.id]
              /\ \A k \in DOMAIN positions[Item.id] :
                   k # Item.seq + 1 => positions'[Item.id][k] = positions[Item.id][k]
         /\ \A k \in DOMAIN positions'[Item.id] :
              k # Item.seq + 1 =>
                \/ positions'[Item.id][k] = Hole
                \/ /\ Item.id \in DOMAIN positions /\ k \in DOMAIN positions[Item.id]
                   /\ positions'[Item.id][k] = positions[Item.id][k]
  <1> DEFINE datas == ChunksOf(Item.id)
             loc == Location(page_pos, Item)
             v == WithChunk(datas, Item.seq, loc)
  <1>1. datas \in Seq(Place) /\ loc \in Place /\ Item \in ChunkItem
    BY AddChunkEffect
  <1>2. Item.seq \in Nat
    BY <1>1 DEF ChunkItem
  <1>3. positions'[Item.id] = v
    BY AddChunkEffect
  <1>4. \/ Item.id \in DOMAIN positions /\ datas = positions[Item.id]
        \/ Item.id \notin DOMAIN positions /\ DOMAIN datas = {}
    BY DEF ChunksOf
  <1> HIDE DEF datas, loc
  <1>5. /\ v \in Seq(Place) /\ Item.seq + 1 \in DOMAIN v
        /\ v[Item.seq + 1] = loc /\ DOMAIN datas \subseteq DOMAIN v
        /\ \A k \in DOMAIN datas : k # Item.seq + 1 => v[k] = datas[k]
        /\ \A k \in DOMAIN v :
             k # Item.seq + 1 => v[k] = Hole \/ (k \in DOMAIN datas /\ v[k] = datas[k])
    BY <1>1, <1>2, WithChunkProperties, ZenonT(40)
  <1> HIDE DEF v
  <1>6. QED  BY <1>3, <1>4, <1>5 DEF loc

LEMMA ScannedTyped ==
  ASSUME MapTypeOK, NEW pi \in ScannedChunks
  PROVE  pi \in Items /\ ChunkAt(pi) \in ChunkItem /\ pi[1] \in Nat /\ pi[2] \in Nat
  <1>1. pi \in Items /\ Followed(ChunkAt(pi))
    BY DEF ScannedChunks
  <1>2. QED  BY <1>1, ChunkTyped, ItemPlaces

(* The steps that leave the map and the set of scanned tuples alone.       *)
LEMMA QuietSteps ==
  ASSUME MapTypeOK, [MapNext]_mapVars, ~ AddChunk
  PROVE  /\ UNCHANGED positions /\ UNCHANGED file /\ ScannedChunks' = ScannedChunks
         /\ \A pi \in ScannedChunks : ChunkAt(pi)' = ChunkAt(pi)
  <1>1. CASE UNCHANGED <<file, held, page_pos, item_pos, positions>>
    BY <1>1, StillScanned, ShownStays
  <1>2. CASE SkipItem
    <2>1. /\ AtItem /\ ~ Followed(Item) /\ UNCHANGED <<file, held, page_pos, positions>>
          /\ item_pos' = item_pos + 1
      BY <1>2 DEF SkipItem
    <2>2. QED  BY <2>1, NextItemScanned, ShownStays
  <1>3. CASE NextPage
    <2>1. UNCHANGED <<file, held, positions>>
      BY <1>3 DEF NextPage
    <2>2. QED  BY <1>3, <2>1, NextPageScanned, ShownStays
  <1>4. CASE ReadPage
    <2>1. UNCHANGED <<file, positions>>
      BY <1>4 DEF ReadPage
    <2>2. QED  BY <1>4, <2>1, ReadPageScanned
  <1>5. UNCHANGED <<file, held, page_pos, item_pos, positions>>
          \/ SkipItem \/ NextPage \/ ReadPage
    BY DEF MapNext, MapStep, Misfit, Open, ReadFails, BadCount, OffPage, NullAttribute,
           SeqWraps, ScanDone, Stop, StreamUsed, scanVars, mapVars
  <1>6. QED  BY <1>1, <1>2, <1>3, <1>4, <1>5

LEMMA InitTyped == MapInit => MapTypeOK
  BY FilesAssumption DEF MapInit, MapTypeOK, BufferInStep, ToastFile

LEMMA StepTyped == MapTypeOK /\ [MapNext]_mapVars => MapTypeOK'
  <1> SUFFICES ASSUME MapTypeOK, [MapNext]_mapVars
               PROVE  MapTypeOK'
    OBVIOUS
  <1> USE DEF BufferInStep
  <1>1. UNCHANGED file /\ End' = End /\ page_pos' \in Nat /\ item_pos' \in Nat
    <2>1. UNCHANGED file /\ page_pos' \in {page_pos, page_pos + 1}
          /\ item_pos' \in {item_pos, item_pos + 1, 0}
      BY DEF MapNext, MapStep, Misfit, Open, ReadPage, ReadFails, BadCount,
             OffPage, SkipItem, NullAttribute, AddChunk, SeqWraps, NextPage, ScanDone,
             Stop, StreamUsed, scanVars, mapVars
    <2>2. End' = End
      BY <2>1 DEF End, Size, Word
    <2>3. QED  BY <2>1, <2>2 DEF MapTypeOK
  <1>2. ASSUME NEW id \in DOMAIN positions'
        PROVE  positions'[id] \in Seq(Place)
    <2>1. CASE AddChunk
      BY <1>2, <2>1, AddedVector, AddChunkEffect DEF MapTypeOK
    <2>2. CASE ~ AddChunk
      BY <1>2, <2>2, QuietSteps DEF MapTypeOK
    <2>3. QED  BY <2>1, <2>2
  <1>3. End \in Nat /\ End <= Len(file.pages) /\ Len(file.pages) \in Nat
    BY EndFits DEF MapTypeOK, ToastFile
  <1>4. /\ held' \in 0 .. Len(file.pages)
        /\ scan' = "items" => page_pos' < End
        /\ BufferInStep'
    <2>1. CASE ReadPage
      BY <1>3, <2>1 DEF MapTypeOK, ReadPage, AtPage
    <2>2. CASE ReadFails
      BY <2>2 DEF MapTypeOK, ReadFails, AtPage
    <2>3. CASE SkipItem \/ AddChunk
      BY <2>3 DEF MapTypeOK, SkipItem, AddChunk, AtChunk, AtItem
    <2>4. CASE NextPage
      BY <2>4 DEF MapTypeOK, NextPage
    <2>5. CASE Open \/ Misfit \/ ScanDone
      BY <2>5 DEF MapTypeOK, Open, Misfit, ScanDone, Stop
    <2>6. CASE BadCount \/ OffPage \/ NullAttribute \/ SeqWraps
      BY <2>6 DEF MapTypeOK, BadCount, OffPage, NullAttribute, SeqWraps, Stop
    <2>7. CASE StreamUsed \/ UNCHANGED mapVars
      <3>1. UNCHANGED <<file, held, page_pos, item_pos, scan>> /\ good' \in {good, FALSE}
        BY <2>7 DEF StreamUsed, mapVars, scanVars
      <3>2. CASE good' = FALSE
        BY <3>1, <3>2 DEF MapTypeOK
      <3>3. CASE good' = good
        BY <3>1, <3>3 DEF MapTypeOK
      <3>4. QED  BY <3>1, <3>2, <3>3
    <2>8. QED
      BY <2>1, <2>2, <2>3, <2>4, <2>5, <2>6, <2>7 DEF MapNext, MapStep
  <1>5. scan' \in {"next", "items"} => End' <= Len(file.pages')
    BY <1>1, <1>3
  <1>6. QED  BY <1>1, <1>2, <1>4, <1>5 DEF MapTypeOK

-----------------------------------------------------------------------------

LEMMA InitEntries == MapInit => EntriesAreChunks
  BY DEF MapInit, EntriesAreChunks

LEMMA StepEntries ==
  MapTypeOK /\ EntriesAreChunks /\ [MapNext]_mapVars => EntriesAreChunks'
  <1> SUFFICES ASSUME MapTypeOK, EntriesAreChunks, [MapNext]_mapVars,
                      NEW id \in DOMAIN positions', NEW k \in DOMAIN positions'[id],
                      positions'[id][k] # Hole
               PROVE  \E pi \in ScannedChunks' :
                        /\ ChunkAt(pi)'.id = id /\ ChunkAt(pi)'.seq = k - 1
                        /\ positions'[id][k] = Location(pi[1], ChunkAt(pi)')
    BY DEF EntriesAreChunks, Hole, Location, Word
  <1>1. \A pi \in ScannedChunks : ChunkAt(pi)' = ChunkAt(pi)
    BY AddChunkEffect, QuietSteps
  <1>2. ScannedChunks \subseteq ScannedChunks'
    BY AddChunkEffect, QuietSteps
  <1>3. CASE AddChunk /\ id = Item.id /\ k = Item.seq + 1
    <2>1. PICK here \in ScannedChunks' : ChunkAt(here)' = Item /\ here[1] = page_pos
      BY <1>3, AddChunkEffect
    <2>2. Item.seq \in Nat
      BY <1>3, AddChunkEffect DEF ChunkItem
    <2>3. positions'[id][k] = Location(page_pos, Item)
      BY <1>3, AddedVector
    <2>4. QED  BY <1>3, <2>1, <2>2, <2>3
  <1>4. CASE ~ (AddChunk /\ id = Item.id /\ k = Item.seq + 1)
    <2>1. /\ id \in DOMAIN positions /\ k \in DOMAIN positions[id]
          /\ positions'[id][k] = positions[id][k]
      <3>1. CASE AddChunk /\ id = Item.id
        BY <1>4, <3>1, AddedVector
      <3>2. CASE AddChunk /\ id # Item.id
        BY <3>2, AddChunkEffect
      <3>3. CASE ~ AddChunk
        BY <3>3, QuietSteps
      <3>4. QED  BY <3>1, <3>2, <3>3
    <2>2. PICK pi \in ScannedChunks :
            /\ ChunkAt(pi).id = id /\ ChunkAt(pi).seq = k - 1
            /\ positions[id][k] = Location(pi[1], ChunkAt(pi))
      BY <2>1 DEF EntriesAreChunks
    <2>3. QED  BY <1>1, <1>2, <2>1, <2>2
  <1>5. QED  BY <1>3, <1>4

LEMMA InitEntered == MapInit => ChunksAreEntered
  <1> SUFFICES ASSUME MapInit
               PROVE  ScannedChunks = {}
    BY DEF ChunksAreEntered
  <1>1. ASSUME NEW pi \in ScannedChunks
        PROVE  FALSE
    <2>1. MapTypeOK /\ page_pos = 0 /\ item_pos = 0
      BY InitTyped DEF MapInit
    <2>2. pi[1] \in Nat /\ pi[2] \in Nat
      BY <2>1, ScannedTyped
    <2>3. QED  BY <2>1, <2>2 DEF ScannedChunks, Scanned
  <1>2. QED  BY <1>1

(* An entry of the map as it was before a step is still there after it,    *)
(* unless the step entered a chunk in its place.                           *)
LEMMA EntryKept ==
  ASSUME MapTypeOK, [MapNext]_mapVars,
         NEW id \in DOMAIN positions, NEW k \in DOMAIN positions[id],
         ~ (AddChunk /\ id = Item.id /\ k = Item.seq + 1)
  PROVE  /\ id \in DOMAIN positions' /\ k \in DOMAIN positions'[id]
         /\ positions'[id][k] = positions[id][k]
  <1>1. CASE AddChunk /\ id = Item.id
    BY <1>1, AddedVector, AddChunkEffect
  <1>2. CASE AddChunk /\ id # Item.id
    BY <1>2, AddChunkEffect
  <1>3. CASE ~ AddChunk
    BY <1>3, QuietSteps
  <1>4. QED  BY <1>1, <1>2, <1>3

Later(qj, pi) == qj[1] > pi[1] \/ (qj[1] = pi[1] /\ qj[2] > pi[2])

Entered(pi) ==
  LET c == ChunkAt(pi)
  IN  /\ c.id \in DOMAIN positions
      /\ c.seq + 1 \in DOMAIN positions[c.id]
      /\ \/ positions[c.id][c.seq + 1] = Location(pi[1], c)
         \/ \E qj \in ScannedChunks :
              /\ Later(qj, pi)
              /\ ChunkAt(qj).id = c.id /\ ChunkAt(qj).seq = c.seq
              /\ positions[c.id][c.seq + 1] = Location(qj[1], ChunkAt(qj))

LEMMA EnteredSpelled ==
  ChunksAreEntered <=> \A pi \in ScannedChunks : Entered(pi)
  BY DEF ChunksAreEntered, Entered, Later

(* A tuple scanned before is overtaken by a later one with its id and      *)
(* number, or its entry is kept.                                           *)
LEMMA OldStaysEntered ==
  ASSUME MapTypeOK, [MapNext]_mapVars, NEW pi \in ScannedChunks, Entered(pi)
  PROVE  Entered(pi)'
  <1> DEFINE c == ChunkAt(pi)
  <1>1. ChunkAt(pi)' = c /\ \A qj \in ScannedChunks : ChunkAt(qj)' = ChunkAt(qj)
    BY AddChunkEffect, QuietSteps
  <1>2. ScannedChunks \subseteq ScannedChunks'
    BY AddChunkEffect, QuietSteps
  <1>3. c \in ChunkItem /\ pi[1] \in Nat /\ pi[2] \in Nat
    BY ScannedTyped
  <1>4. c.id \in DOMAIN positions /\ c.seq + 1 \in DOMAIN positions[c.id] /\ c.seq \in Nat
    BY <1>3 DEF Entered, ChunkItem
  <1>5. CASE AddChunk /\ c.id = Item.id /\ c.seq + 1 = Item.seq + 1
    <2>1. PICK here \in ScannedChunks' :
            /\ ChunkAt(here)' = Item /\ Item.seq \in Nat
            /\ here[1] = page_pos /\ here[2] = item_pos
      BY <1>5, AddChunkEffect DEF ChunkItem
    <2>2. c.seq = Item.seq
      BY <1>4, <1>5, <2>1
    <2>3. Later(here, pi)
      BY <1>3, <2>1 DEF Later, ScannedChunks, Scanned, MapTypeOK
    <2>4. /\ c.id \in DOMAIN positions' /\ c.seq + 1 \in DOMAIN positions'[c.id]
          /\ positions'[c.id][c.seq + 1] = Location(page_pos, Item)
      BY <1>5, <2>2, AddedVector, AddChunkEffect
    <2> HIDE DEF c
    <2>5. QED  BY <1>1, <1>5, <2>1, <2>2, <2>3, <2>4 DEF Entered, Later, Location, Word
  <1>6. CASE ~ (AddChunk /\ c.id = Item.id /\ c.seq + 1 = Item.seq + 1)
    <2>1. /\ c.id \in DOMAIN positions' /\ c.seq + 1 \in DOMAIN positions'[c.id]
          /\ positions'[c.id][c.seq + 1] = positions[c.id][c.seq + 1]
      BY <1>4, <1>6, EntryKept
    <2>2. CASE positions[c.id][c.seq + 1] = Location(pi[1], c)
      BY <1>1, <2>1, <2>2 DEF Entered
    <2>3. CASE \E qj \in ScannedChunks :
                 /\ Later(qj, pi)
                 /\ ChunkAt(qj).id = c.id /\ ChunkAt(qj).seq = c.seq
                 /\ positions[c.id][c.seq + 1] = Location(qj[1], ChunkAt(qj))
      BY <1>1, <1>2, <2>1, <2>3 DEF Entered, Later
    <2>4. QED  BY <2>2, <2>3 DEF Entered
  <1>7. QED  BY <1>5, <1>6

LEMMA StepEntered ==
  MapTypeOK /\ ChunksAreEntered /\ [MapNext]_mapVars => ChunksAreEntered'
  <1> SUFFICES ASSUME MapTypeOK, ChunksAreEntered, [MapNext]_mapVars,
                      NEW pi \in ScannedChunks'
               PROVE  Entered(pi)'
    BY DEF ChunksAreEntered, Entered, Later
  <1>1. CASE pi \in ScannedChunks
    BY <1>1, EnteredSpelled, OldStaysEntered
  <1>2. CASE pi \notin ScannedChunks
    <2>1. AddChunk /\ pi = <<page_pos, item_pos>>
      BY <1>2, AddChunkEffect, QuietSteps
    <2>2. ChunkAt(pi)' = ChunkAt(pi)
      BY <2>1, AddChunkEffect
    <2>3. ChunkAt(pi) = Item /\ pi[1] = page_pos
      BY <2>1, AddChunkEffect
    <2>4. /\ Item.id \in DOMAIN positions' /\ Item.seq + 1 \in DOMAIN positions'[Item.id]
          /\ positions'[Item.id][Item.seq + 1] = Location(page_pos, Item)
      BY <2>1, AddedVector, AddChunkEffect
    <2>5. QED  BY <2>2, <2>3, <2>4 DEF Entered
  <1>3. QED  BY <1>1, <1>2

-----------------------------------------------------------------------------

LEMMA ScanTyped == MapSpec => []MapTypeOK
  BY InitTyped, StepTyped, PTL DEF MapSpec

(* fill_toast_map makes nothing up: every entry of the map is a hole or    *)
(* the location of a scanned tuple with that value id and chunk number.    *)
THEOREM NothingMadeUp == MapSpec => []EntriesAreChunks
  BY ScanTyped, InitEntries, StepEntries, PTL DEF MapSpec

(* fill_toast_map loses nothing: every tuple scanned is in the map, or a   *)
(* later one with its value id and number is.                              *)
THEOREM NothingLost == MapSpec => []ChunksAreEntered
  BY ScanTyped, InitEntered, StepEntered, PTL DEF MapSpec

(* What the scan was shown while the stream was good is what lies there.   *)
LEMMA ShownIsStored ==
  ASSUME MapTypeOK, good, NEW pi \in ScannedChunks
  PROVE  pi \in LiveChunks /\ StoredAt(pi) = ChunkAt(pi)
  <1>1. pi \in Items /\ Scanned(pi) /\ Followed(ChunkAt(pi))
    BY DEF ScannedChunks
  <1>2. /\ pi = <<pi[1], pi[2]>> /\ pi[1] \in 0 .. Len(file.pages) - 1
        /\ pi[2] \in 0 .. Len(ShownAt(pi[1]).linp) - 1
        /\ pi[2] < ItemIdCount(ShownAt(pi[1]))
    BY <1>1, ItemPlaces
  <1>3. Len(file.pages) \in Nat /\ Len(ShownAt(pi[1]).linp) \in Nat
    <2>1. /\ file \in ToastFile /\ held \in 0 .. Len(file.pages)
          /\ Len(file.pages) \in Nat /\ pi[1] \in Nat
      BY <1>2 DEF MapTypeOK, ToastFile
    <2>2. ShownAt(pi[1]) \in BufferPage
      BY <2>1, ShownTyped
    <2>3. QED  BY <2>1, <2>2 DEF BufferPage
  <1>4. pi[1] < held
    BY <1>1, <1>2, <1>3 DEF Scanned, MapTypeOK, BufferInStep
  <1>5. ShownAt(pi[1]) = file.pages[pi[1] + 1]
    BY <1>2, <1>3, <1>4 DEF ShownAt, MapTypeOK
  <1>6. StoredAt(pi) = ChunkAt(pi) /\ StoredAt(<<pi[1], pi[2]>>) = ChunkAt(pi)
    BY <1>2, <1>5 DEF StoredAt, TupleAt, ChunkAt
  <1>7. QED  BY <1>1, <1>2, <1>3, <1>5, <1>6 DEF LiveChunks, ChunksIn, StoredAt

LEMMA TrueWhileGood == MapTypeOK /\ EntriesAreChunks => UsableMapIsTrue
  BY ShownIsStored DEF EntriesAreChunks, UsableMapIsTrue

(* As long as the stream is good every entry is where the file has a chunk *)
(* with that value id and number, whatever pages could not be read before. *)
THEOREM UsableMapTrue == MapSpec => []UsableMapIsTrue
  BY ScanTyped, NothingMadeUp, TrueWhileGood, PTL

(* A fetch is only begun on a finished map.                                *)
PhaseAfterScan == phase # "idle" => scan = "done"

(* The fetches leave the map alone; they may make its stream fail.         *)
LEMMA FetchScans == FetchSpec => MapSpec
  <1>1. FetchInit => MapInit
    BY DEF FetchInit
  <1>2. FetchInit => PhaseAfterScan
    BY DEF FetchInit, PhaseAfterScan
  <1>3. PhaseAfterScan /\ [FetchNext]_vars => PhaseAfterScan' /\ [MapNext]_mapVars
    <2> SUFFICES ASSUME PhaseAfterScan, [FetchNext]_vars
                 PROVE  PhaseAfterScan' /\ [MapNext]_mapVars
      OBVIOUS
    <2>1. CASE Scan
      BY <2>1 DEF Scan, MapNext, PhaseAfterScan, fetchVars, MapStep, Misfit, Open, ReadPage,
                  ReadFails, BadCount, OffPage, SkipItem, NullAttribute, AddChunk,
                  SeqWraps, NextPage, ScanDone, AtPage, AtItem, AtChunk, Stop
    <2>2. CASE Request \/ ReadChunk
      BY <2>2 DEF Request, Fetch, FetchUnknown, ReadChunk, MapNext, StreamUsed,
                  PhaseAfterScan, mapVars, scanVars
    <2>3. CASE FetchStep /\ ~ ReadChunk
      BY <2>3 DEF FetchStep, AddSize, Allocate, ChunkTooLong, ReturnPlain, ChunksRead,
                  StartInflate, NegativeRawSize, NoRawSize, Inflate, ReturnInflated,
                  Inflated, ThrowCorrupted, InflateAborts, Inflatable, Leave,
                  PhaseAfterScan, mapVars, scanVars, fetchVars
    <2>4. CASE Ended \/ UNCHANGED vars
      BY <2>4 DEF Ended, vars, mapVars, scanVars, fetchVars, PhaseAfterScan
    <2>5. QED  BY <2>1, <2>2, <2>3, <2>4 DEF FetchNext
  <1>4. QED  BY <1>1, <1>2, <1>3, PTL DEF FetchSpec, MapSpec

(* So the map every fetch works on is the one the scan was to build.       *)
THEOREM FetchMapIsExact == FetchSpec => [](EntriesAreChunks /\ ChunksAreEntered)
  BY FetchScans, NothingMadeUp, NothingLost, PTL

-----------------------------------------------------------------------------

(* While chunks are summed and read, the map has the value asked for and   *)
(* the counter is inside its vector.                                       *)
FetchInMap ==
  /\ PhaseAfterScan
  /\ phase \in {"size", "read"} =>
       ptr.valueid \in DOMAIN positions /\ chunk \in 0 .. Len(Datas)
  /\ phase = "read" => pos \in Nat

LEMMA InitInMap == FetchInit => FetchInMap
  BY DEF FetchInit, FetchInMap, PhaseAfterScan

LEMMA StepInMap == MapTypeOK /\ FetchInMap /\ [FetchNext]_vars => FetchInMap'
  <1> SUFFICES ASSUME MapTypeOK, FetchInMap, [FetchNext]_vars
               PROVE  FetchInMap'
    OBVIOUS
  <1>1. CASE Scan
    <2>1. phase = "idle" /\ UNCHANGED phase
      BY <1>1 DEF Scan, fetchVars, FetchInMap, PhaseAfterScan, MapStep, Misfit, Open, ReadPage,
                  ReadFails, BadCount, OffPage, SkipItem, NullAttribute, AddChunk,
                  SeqWraps, NextPage, ScanDone, AtPage, AtItem, AtChunk
    <2>2. QED  BY <2>1 DEF FetchInMap, PhaseAfterScan
  <1>2. ASSUME NEW p \in Pointers, Fetch(p)
        PROVE  FetchInMap'
    <2>1. positions[p.valueid] \in Seq(Place)
      BY <1>2 DEF Fetch, MapTypeOK
    <2>2. QED  BY <1>2, <2>1 DEF Fetch, FetchInMap, PhaseAfterScan, mapVars, scanVars, Datas
  <1>3. ASSUME NEW p \in Pointers, FetchUnknown(p)
        PROVE  FetchInMap'
    BY <1>3 DEF FetchUnknown, FetchInMap, PhaseAfterScan, mapVars, scanVars
  <1>4. CASE AddSize \/ Allocate \/ ReadChunk \/ ChunkTooLong
    <2>1. phase \in {"size", "read"} /\ UNCHANGED <<ptr, positions, scan>>
      BY <1>4 DEF AddSize, Allocate, ReadChunk, ChunkTooLong, mapVars, scanVars
    <2>2. Datas \in Seq(Place)
      BY <2>1 DEF FetchInMap, MapTypeOK, Datas
    <2>3. Datas' = Datas /\ ptr.valueid \in DOMAIN positions /\ scan = "done"
      BY <2>1 DEF Datas, FetchInMap, PhaseAfterScan
    <2>4. chunk' \in 0 .. Len(Datas)
      BY <1>4, <2>1, <2>2 DEF AddSize, Allocate, ReadChunk, ChunkTooLong, FetchInMap
    <2>6. phase' = "read" => pos' \in Nat
      <3>1. CASE ReadChunk
        <4>1. pos \in Nat /\ Datas[chunk + 1] \in Place
          BY <2>2, <3>1 DEF ReadChunk, FetchInMap
        <4>2. QED  BY <3>1, <4>1 DEF ReadChunk, Place
      <3>2. CASE ~ ReadChunk
        BY <1>4, <3>2 DEF AddSize, Allocate, ChunkTooLong, VARHDRSZ
      <3>3. QED  BY <3>1, <3>2
    <2>7. QED  BY <2>1, <2>3, <2>4, <2>6 DEF FetchInMap, PhaseAfterScan
  <1>5. CASE ReturnPlain \/ NegativeRawSize \/ ReturnInflated \/ ThrowCorrupted
    <2>1. phase' = "idle"
      BY <1>5 DEF ReturnPlain, NegativeRawSize, ReturnInflated, ThrowCorrupted, Leave
    <2>2. QED  BY <2>1 DEF FetchInMap, PhaseAfterScan
  <1>6. CASE StartInflate \/ NoRawSize \/ Inflate \/ InflateAborts
    <2>1. UNCHANGED scan /\ phase # "idle" /\ phase' \notin {"size", "read"}
      BY <1>6 DEF StartInflate, NoRawSize, Inflate, InflateAborts, Inflatable, ChunksRead,
                  mapVars, scanVars, fetchVars
    <2>2. QED  BY <2>1 DEF FetchInMap, PhaseAfterScan
  <1>7. CASE Ended \/ UNCHANGED vars
    BY <1>7 DEF Ended, vars, mapVars, scanVars, fetchVars, FetchInMap, PhaseAfterScan, Datas
  <1>8. QED
    BY <1>1, <1>2, <1>3, <1>4, <1>5, <1>6, <1>7 DEF FetchNext, Request, FetchStep

-----------------------------------------------------------------------------

(* The format of what is stored is the one of PglzDecompressProofs.        *)
LEMMA FormatIsInflations ==
  ASSUME NEW l
  PROVE  /\ Format!Encode(l) = Inflation!Format!Encode(l)
         /\ Format!Expand(l) = Inflation!Format!Expand(l)
         /\ Format!Item = Inflation!Format!Item
         /\ Format!WellFormedItems(l) = Inflation!Format!WellFormedItems(l)
  <1>1. Format!ByteCount = Inflation!Format!ByteCount /\ Format!Item = Inflation!Format!Item
    BY DEF Format!ByteCount, Inflation!Format!ByteCount, Format!Item, Inflation!Format!Item,
           Format!ByteValue, Inflation!Format!ByteValue
  <1>2. \A t, i : Format!Extend(t, i) = Inflation!Format!Extend(t, i)
    BY DEF Format!Extend, Inflation!Format!Extend
  <1>3. \A s : Format!Expand(s) = Inflation!Format!Expand(s)
    BY <1>2 DEF Format!Expand, Inflation!Format!Expand
  <1>4. Format!WellFormedItems(l) = Inflation!Format!WellFormedItems(l)
    BY <1>1, <1>3 DEF Format!WellFormedItems, Inflation!Format!WellFormedItems,
                      Format!RunFits, Inflation!Format!RunFits
  <1>5. \A o : Format!WriteControl(o) = Inflation!Format!WriteControl(o)
    BY DEF Format!WriteControl, Inflation!Format!WriteControl
  <1>6. \A o : Format!OutCtrl(o) = Inflation!Format!OutCtrl(o)
    BY <1>5 DEF Format!OutCtrl, Inflation!Format!OutCtrl
  <1>7. /\ \A b : Format!Shift(b) = Inflation!Format!Shift(b)
        /\ \A n, f : Format!TagBytes(n, f) = Inflation!Format!TagBytes(n, f)
    BY <1>1 DEF Format!Shift, Inflation!Format!Shift, Format!TagBytes, Inflation!Format!TagBytes
  <1>8. \A o, i : Format!Emit(o, i) = Inflation!Format!Emit(o, i)
    BY <1>6, <1>7 DEF Format!Emit, Inflation!Format!Emit, Format!OutLiteral,
       Inflation!Format!OutLiteral, Format!OutTag, Inflation!Format!OutTag
  <1>9. Format!Encode(l) = Inflation!Format!Encode(l)
    BY <1>5, <1>8 DEF Format!Encode, Inflation!Format!Encode, Format!Emitted,
       Inflation!Format!Emitted, Format!NoOutput, Inflation!Format!NoOutput
  <1> QED
    BY <1>1, <1>3, <1>4, <1>9

(* The decoder as fetch_data calls it is the one of PglzDecompressProofs.  *)
LEMMA InflationAssumption ==
  /\ {} \subseteq Inflation!Input
  /\ Nibble \in Nat /\ Nibble >= 2
  /\ CtrlBits \in Nat \ {0} /\ Inflation!Bit[CtrlBits] = Nibble * Nibble
  /\ Slack \in Nat /\ Slack >= 2
  /\ Mark \in Inflation!Byte
  /\ Nat \subseteq Nat
  /\ \A l \in StreamLists :
       l \in Seq(Inflation!Format!Item) /\ Inflation!Format!WellFormedItems(l)
  <1>1. \A l \in StreamLists :
          l \in Seq(Inflation!Format!Item) /\ Inflation!Format!WellFormedItems(l)
    BY FormatIsInflations DEF StreamLists
  <1> QED
    BY <1>1, PglzAssumption DEF Inflation!Byte, Pglz!Byte, Inflation!Bit, Pglz!Bit

LEMMA StepsAreInflation == Pglz!Step => Inflation!Step
  <1> SUFFICES ASSUME Pglz!Step
               PROVE  Inflation!Step
    OBVIOUS
  <1> USE DEF Pglz!ByteAt, Inflation!ByteAt, Pglz!Byte, Inflation!Byte,
              Pglz!Written, Inflation!Written
  <1>0. \A i : Pglz!TagsAt(i) = Inflation!TagsAt(i)
    BY DEF Pglz!TagsAt, Inflation!TagsAt, Pglz!Tag, Inflation!Tag
  <1>1. CASE Pglz!ReadControl
    BY <1>1 DEF Pglz!ReadControl, Inflation!Step, Inflation!ReadControl
  <1>2. CASE Pglz!ControlDone
    BY <1>2 DEF Pglz!ControlDone, Inflation!Step, Inflation!ControlDone, Pglz!MoreItems, Inflation!MoreItems
  <1>3. CASE Pglz!Literal
    BY <1>3 DEF Pglz!Literal, Inflation!Step, Inflation!Literal, Pglz!MoreItems,
                Inflation!MoreItems, Pglz!NextItem, Inflation!NextItem
  <1>4. CASE Pglz!LiteralOverrun
    BY <1>4 DEF Pglz!LiteralOverrun, Inflation!Step, Inflation!LiteralOverrun, Pglz!MoreItems,
                Inflation!MoreItems
  <1>5. CASE Pglz!BeginCopy
    BY <1>0, <1>5 DEF Pglz!BeginCopy, Inflation!Step, Inflation!BeginCopy, Pglz!MoreItems,
                Inflation!MoreItems
  <1>6. CASE Pglz!TagOverrun
    BY <1>0, <1>6 DEF Pglz!TagOverrun, Inflation!Step, Inflation!TagOverrun, Pglz!MoreItems,
                Inflation!MoreItems
  <1>7. CASE Pglz!CopyByte
    BY <1>7 DEF Pglz!CopyByte, Inflation!Step, Inflation!CopyByte, Pglz!Held, Inflation!Held
  <1>8. CASE Pglz!GiveUp
    BY <1>8 DEF Pglz!GiveUp, Inflation!Step, Inflation!GiveUp
  <1>9. CASE Pglz!CopyDone
    BY <1>9 DEF Pglz!CopyDone, Inflation!Step, Inflation!CopyDone, Pglz!NextItem, Inflation!NextItem
  <1>10. CASE Pglz!Finish
    BY <1>10 DEF Pglz!Finish, Inflation!Step, Inflation!Finish
  <1> QED
    BY <1>1, <1>2, <1>3, <1>4, <1>5, <1>6, <1>7, <1>8, <1>9, <1>10 DEF Pglz!Step

LEMMA InflateStep ==
  ASSUME Inflation!Inv, Pglz!Step
  PROVE  Inflation!Inv'
  <1>1. Inflation!Step
    BY StepsAreInflation
  <1>2. Inflation!Inv /\ [Inflation!Next]_Inflation!vars => Inflation!Inv'
    BY Inflation!StepInv, InflationAssumption
  <1> QED
    BY <1>1, <1>2 DEF Inflation!Next

-----------------------------------------------------------------------------

(* The types of the fetch's variables; the decoder's are looked at only    *)
(* while it runs.                                                          *)
FetchTyped ==
  /\ file \in Files
  /\ scan \in {"open", "next", "items", "done", "aborted", "undefined"}
  /\ phase \in {"idle", "size", "read", "inflate", "aborted", "undefined"}
  /\ good \in BOOLEAN /\ ptr \in Pointers
  /\ result \in Seq(Pglz!Byte)
  /\ pos \in Nat /\ chunk \in Nat
  /\ answer.kind \in {"none", "thrown", "value"}
  /\ phase = "inflate" => Inflation!Inv

(* A byte of the file that a read delivers is a byte.                      *)
LEMMA FileBytes ==
  ASSUME file \in Files, NEW p \in Nat, p < FileSize
  PROVE  FileByte(p) \in Pglz!Byte
  <1> DEFINE page == file.pages[p \div PageSize + 1]
             b == p % PageSize
             here == Covering(page, b)
             chosen == CHOOSE k \in here : TRUE
  <1>1. file \in ToastFile /\ PageSize \in Nat \ {0} /\ Len(file.pages) \in Nat
    BY FilesAssumption, PageAssumption DEF ToastFile
  <1>2. \A n \in Nat \ {0}, m \in Nat : p < n * m => p \div n \in 0 .. m - 1
    OBVIOUS
  <1>3. p \div PageSize \in 0 .. Len(file.pages) - 1
    BY <1>1, <1>2 DEF FileSize
  <1>4. p \div PageSize + 1 \in DOMAIN file.pages
    BY <1>1, <1>3 DEF ToastFile
  <1>5. ASSUME NEW k \in here
        PROVE  page.linp[k].data[b - DataStart(page.linp[k]) + 1] \in Pglz!Byte
    <2>1. page.linp[k].data \in Seq(Pglz!Byte)
      BY <1>4, <1>5, BytesAssumption DEF Covering
    <2>2. b - DataStart(page.linp[k]) \in 0 .. Len(page.linp[k].data) - 1
      BY <1>5 DEF Covering
    <2> HIDE DEF b, page
    <2>3. \A s \in Seq(Pglz!Byte) : \A m \in 0 .. Len(s) - 1 : s[m + 1] \in Pglz!Byte
      OBVIOUS
    <2> QED
      BY <2>1, <2>2, <2>3, Zenon
  <1>6. here # {} => chosen \in here
    BY Zenon
  <1>7. 0 \in Pglz!Byte
    BY PglzAssumption DEF Pglz!Byte
  <1>8. FileByte(p) = IF here = {} THEN 0
                      ELSE page.linp[chosen].data[b - DataStart(page.linp[chosen]) + 1]
    BY DEF FileByte, PageByte
  <1> HIDE DEF here, chosen, page, b
  <1> QED
    BY <1>5, <1>6, <1>7, <1>8, Zenon

(* The raw size in the header is a number.                                 *)
LEMMA RawSizeIsInt ==
  ASSUME NEW bytes \in Seq(Pglz!Byte), Len(bytes) >= PGLZ_Header
  PROVE  RawSize(bytes) \in Int
  <1>1. \A k \in 1 .. 4 : bytes[VARHDRSZ + k] \in Pglz!Byte
    BY DEF VARHDRSZ, PGLZ_Header, RawSizeBytes
  <1>2. Nibble * Nibble \in Nat
    BY PglzAssumption
  <1>3. \A k \in 1 .. 4 : bytes[VARHDRSZ + k] \in Int
    BY <1>1, <1>2 DEF Pglz!Byte
  <1>4. \A m, n \in Int : m * n \in Int
    OBVIOUS
  <1> DEFINE base == Nibble * Nibble
             b(k) == bytes[VARHDRSZ + k]
             top == IF b(4) < base \div 2 THEN b(4) ELSE b(4) - base
  <1>5. base \in Int /\ b(1) \in Int /\ b(2) \in Int /\ b(3) \in Int /\ b(4) \in Int
    BY <1>2, <1>3
  <1>6. top \in Int
    BY <1>5
  <1>7. RawSize(bytes) = b(1) + base * (b(2) + base * (b(3) + base * top))
    BY DEF RawSize
  <1> HIDE DEF base, b, top
  <1>8. base * top \in Int
    BY <1>4, <1>5, <1>6
  <1>9. base * (b(3) + base * top) \in Int
    BY <1>4, <1>5, <1>8
  <1>10. base * (b(2) + base * (b(3) + base * top)) \in Int
    BY <1>4, <1>5, <1>9
  <1> QED
    BY <1>5, <1>7, <1>10

(* The call of the decoder is one it may be given.                         *)
LEMMA CallIsInput ==
  ASSUME NEW bytes \in Seq(Pglz!Byte), Len(bytes) >= PGLZ_Header, RawSize(bytes) >= 0,
         NEW p \in Pointers, IsCompressed(p)
  PROVE  InflateCall(p, bytes) \in Inflation!Input
  <1>1. RawSize(bytes) \in Nat
    BY RawSizeIsInt
  <1>2. p.rawsize - PGLZ_Header \in Nat
    BY PointersAssumption DEF PGLZ_Header, VARHDRSZ, RawSizeBytes
  <1>3. SubSeq(bytes, PGLZ_Header + 1, Len(bytes)) \in Seq(Inflation!Byte)
    <2>1. bytes \in Seq(Inflation!Byte)
      BY DEF Inflation!Byte, Pglz!Byte
    <2> QED
      BY <2>1, SubSeqProperties DEF PGLZ_Header, VARHDRSZ, RawSizeBytes
  <1> QED
    BY <1>1, <1>2, <1>3 DEF InflateCall, HeaderSize, Inflation!Input

LEMMA BeginsInflation ==
  ASSUME NEW call \in Inflation!Input, BeginInflate(call)
  PROVE  Inflation!Inv'
  <1>1. 0 \in Inflation!Byte /\ 0 \in 0 .. CtrlBits /\ 0 \in 0 .. Inflation!MaxRun
    BY PglzAssumption DEF Inflation!Byte, Inflation!MaxRun
  <1>2. call.rawsize \in Nat /\ call.srcend \in Nat
    BY DEF Inflation!Input
  <1>3. Inflation!TypeOK'
    BY <1>1, <1>2 DEF BeginInflate, Inflation!TypeOK
  <1> QED
    BY <1>2, <1>3 DEF BeginInflate, Inflation!Inv, Inflation!RunFits, Inflation!CopyUnderControl,
       Inflation!PositionFits, Inflation!SlackZero, Inflation!ZeroTail, Inflation!OverreadBounded

(* A read stays inside the buffer.                                         *)
LEMMA ReadInBuffer ==
  ASSUME MapTypeOK, FetchInMap, FetchTyped, ReadChunk
  PROVE  LET d == Datas[chunk + 1]
             n == IF good THEN Available(d.first, d.second) ELSE 0
         IN  /\ ptr.valueid \in DOMAIN positions /\ chunk + 1 \in DOMAIN positions[ptr.valueid]
             /\ d = positions[ptr.valueid][chunk + 1]
             /\ d.first \in Nat /\ d.second \in Nat /\ FileSize \in Nat
             /\ n \in 0 .. d.second /\ (n = 0 \/ d.first + n <= FileSize)
             /\ pos \in Nat /\ pos + d.second <= Len(result)
             /\ result' = [k \in DOMAIN result |->
                             IF k \in pos + 1 .. pos + n THEN FileByte(d.first + k - pos - 1)
                                                         ELSE result[k]]
             /\ good' = (good /\ n = d.second)
             /\ pos' = pos + d.second
  <1> DEFINE d == Datas[chunk + 1]
             n == IF good THEN Available(d.first, d.second) ELSE 0
  <1>1. /\ ptr.valueid \in DOMAIN positions /\ Datas \in Seq(Place)
        /\ chunk \in Nat /\ chunk < Len(Datas)
    BY DEF ReadChunk, FetchInMap, MapTypeOK, FetchTyped, Datas
  <1>2. d \in Place /\ chunk + 1 \in DOMAIN positions[ptr.valueid]
        /\ d = positions[ptr.valueid][chunk + 1]
    BY <1>1 DEF Datas
  <1>3. d.first \in Nat /\ d.second \in Nat
    BY <1>2 DEF Place
  <1>4. FileSize \in Nat
    BY PageAssumption DEF FileSize, MapTypeOK, ToastFile
  <1>5. n \in 0 .. d.second /\ (n = 0 \/ d.first + n <= FileSize)
    BY <1>3, <1>4 DEF Available
  <1>6. /\ pos + d.second <= Len(result)
        /\ result' = [k \in DOMAIN result \union (pos + 1 .. pos + n) |->
                        IF k \in pos + 1 .. pos + n THEN FileByte(d.first + k - pos - 1)
                                                    ELSE result[k]]
        /\ good' = (good /\ n = d.second)
        /\ pos' = pos + d.second
    BY DEF ReadChunk
  <1>7. pos \in Nat /\ DOMAIN result = 1 .. Len(result) /\ Len(result) \in Nat
    BY DEF FetchTyped
  <1> HIDE DEF d, n
  <1>8. DOMAIN result \union (pos + 1 .. pos + n) = DOMAIN result
    BY <1>3, <1>5, <1>6, <1>7
  <1> QED
    BY <1>1, <1>2, <1>3, <1>4, <1>5, <1>6, <1>7, <1>8 DEF d, n

(* What a read puts into the buffer are bytes.                             *)
LEMMA ReadTyped ==
  ASSUME MapTypeOK, FetchInMap, FetchTyped, ReadChunk
  PROVE  result' \in Seq(Pglz!Byte) /\ pos' \in Nat /\ good' \in BOOLEAN
  <1> DEFINE d == Datas[chunk + 1]
             n == IF good THEN Available(d.first, d.second) ELSE 0
  <1>1. /\ d.first \in Nat /\ d.second \in Nat /\ FileSize \in Nat
        /\ n \in 0 .. d.second /\ (n = 0 \/ d.first + n <= FileSize)
        /\ pos \in Nat
        /\ result' = [k \in DOMAIN result |->
                        IF k \in pos + 1 .. pos + n THEN FileByte(d.first + k - pos - 1)
                                                    ELSE result[k]]
        /\ good' = (good /\ n = d.second)
        /\ pos' = pos + d.second
    BY ReadInBuffer
  <1> HIDE DEF d, n
  <1>2. ASSUME NEW k \in pos + 1 .. pos + n
        PROVE  FileByte(d.first + k - pos - 1) \in Pglz!Byte
    <2>1. d.first + k - pos - 1 \in Nat /\ d.first + k - pos - 1 < FileSize
      BY <1>1
    <2> QED
      BY <2>1, FileBytes DEF FetchTyped
  <1>3. result \in Seq(Pglz!Byte) /\ DOMAIN result = 1 .. Len(result) /\ Len(result) \in Nat
    BY DEF FetchTyped
  <1>4. ASSUME NEW k \in 1 .. Len(result)
        PROVE  result'[k] \in Pglz!Byte
    <2>1. CASE k \in pos + 1 .. pos + n
      BY <1>1, <1>2, <1>3, <2>1
    <2>2. CASE k \notin pos + 1 .. pos + n
      BY <1>1, <1>3, <2>2
    <2> QED
      BY <2>1, <2>2
  <1>5. result' \in Seq(Pglz!Byte)
    <2>1. DOMAIN result' = 1 .. Len(result)
      BY <1>1, <1>3
    <2>2. result' \in [1 .. Len(result) -> Pglz!Byte]
      BY <1>1, <1>3, <1>4, <2>1
    <2> QED
      BY <1>3, <2>2, SeqDef
  <1> QED
    BY <1>1, <1>5 DEF FetchTyped

LEMMA InitFetchTyped == FetchInit => FetchTyped
  BY DEF FetchInit, MapInit, FetchTyped, NoAnswer

LEMMA StepFetchTyped ==
  MapTypeOK /\ FetchInMap /\ FetchTyped /\ [FetchNext]_vars => FetchTyped'
  <1> SUFFICES ASSUME MapTypeOK, FetchInMap, FetchTyped, [FetchNext]_vars
               PROVE  FetchTyped'
    OBVIOUS
  <1>1. CASE Scan
    <2>1. MapStep /\ phase = "idle" /\ UNCHANGED <<file, fetchVars>>
      BY <1>1 DEF Scan, fetchVars, FetchInMap, PhaseAfterScan, MapStep, Misfit, Open, ReadPage,
                  ReadFails, BadCount, OffPage, SkipItem, NullAttribute, AddChunk,
                  SeqWraps, NextPage, ScanDone, AtPage, AtItem, AtChunk, Stop
    <2>2. /\ scan' \in {"open", "next", "items", "done", "aborted", "undefined"}
          /\ good' \in BOOLEAN
      BY <2>1 DEF FetchTyped, MapStep, Misfit, Open, ReadPage, ReadFails, BadCount, OffPage,
                  SkipItem, NullAttribute, AddChunk, SeqWraps, NextPage, ScanDone, AtItem,
                  AtChunk, Stop
    <2> QED
      BY <2>1, <2>2 DEF FetchTyped, fetchVars
  <1>2. ASSUME NEW p \in Pointers, Fetch(p) \/ FetchUnknown(p)
        PROVE  FetchTyped'
    BY <1>2 DEF Fetch, FetchUnknown, FetchTyped, mapVars, scanVars, NoAnswer, Thrown, VARHDRSZ
  <1>3. CASE AddSize
    <2>1. pos' \in Nat
      <3>1. Datas \in Seq(Place) /\ chunk + 1 \in DOMAIN Datas
        BY <1>3 DEF AddSize, FetchInMap, MapTypeOK, Datas
      <3>2. Datas[chunk + 1] \in Place
        BY <3>1
      <3>3. pos + Datas[chunk + 1].second \in Int
        BY <3>2 DEF Place, FetchTyped
      <3> QED
        BY <1>3, <3>3, WordIsNat DEF AddSize
    <2> QED
      BY <1>3, <2>1 DEF AddSize, FetchTyped, mapVars, scanVars
  <1>4. CASE Allocate
    <2>1. result' \in Seq(Pglz!Byte)
      <3>1. 0 \in Pglz!Byte
        BY PglzAssumption DEF Pglz!Byte
      <3> QED
        BY <1>4, <3>1 DEF Allocate, FetchTyped
    <2> QED
      BY <1>4, <2>1 DEF Allocate, FetchTyped, mapVars, scanVars, VARHDRSZ
  <1>5. CASE ReadChunk
    BY <1>5, ReadTyped DEF ReadChunk, FetchTyped, scanVars
  <1>6. CASE ChunkTooLong \/ NoRawSize \/ InflateAborts
    BY <1>6 DEF ChunkTooLong, NoRawSize, InflateAborts, FetchTyped, mapVars, scanVars
  <1>7. CASE ReturnPlain \/ NegativeRawSize \/ ReturnInflated \/ ThrowCorrupted
    <2>1. PICK a : Leave(a) /\ a.kind \in {"thrown", "value"}
      BY <1>7 DEF ReturnPlain, NegativeRawSize, ReturnInflated, ThrowCorrupted, Value, Thrown
    <2> QED
      BY <2>1 DEF Leave, FetchTyped, mapVars, scanVars
  <1>8. CASE StartInflate
    <2>1. InflateCall(ptr, result) \in Inflation!Input
      BY <1>8, CallIsInput DEF StartInflate, Inflatable, FetchTyped
    <2>2. Inflation!Inv'
      BY <1>8, <2>1, BeginsInflation DEF StartInflate
    <2> QED
      BY <1>8, <2>2 DEF StartInflate, FetchTyped, mapVars, scanVars
  <1>9. CASE Inflate
    <2>1. Inflation!Inv'
      BY <1>9, InflateStep DEF Inflate, FetchTyped
    <2> QED
      BY <1>9, <2>1 DEF Inflate, FetchTyped, mapVars, scanVars, fetchVars
  <1>10. CASE UNCHANGED vars
    <2>1. Inflation!Inv => Inflation!Inv'
      <3>1. Inflation!Inv /\ [Inflation!Next]_Inflation!vars => Inflation!Inv'
        BY Inflation!StepInv, InflationAssumption
      <3> QED
        BY <1>10, <3>1 DEF vars, inflateVars, Inflation!vars
    <2> QED
      BY <1>10, <2>1 DEF vars, FetchTyped, mapVars, scanVars, fetchVars
  <1> QED
    BY <1>1, <1>2, <1>3, <1>4, <1>5, <1>6, <1>7, <1>8, <1>9, <1>10
    DEF FetchNext, Request, FetchStep, Ended

LEMMA FetchesTyped == FetchSpec => [](MapTypeOK /\ FetchInMap /\ FetchTyped)
  <1>1. FetchSpec => []MapTypeOK
    BY FetchScans, ScanTyped, PTL
  <1> QED
    BY <1>1, InitInMap, StepInMap, InitFetchTyped, StepFetchTyped, PTL DEF FetchSpec

(* Whatever the file holds, every call of pglz_decompress is one it may be *)
(* given, and the variables of fetch_data keep their types.                *)
THEOREM FetchTypeCorrect == FetchSpec => []FetchTypeOK
  <1>1. FetchTyped => FetchTypeOK
    <2> SUFFICES ASSUME FetchTyped
                 PROVE  FetchTypeOK
      OBVIOUS
    <2>1. \A k \in DOMAIN result : result[k] \in Pglz!Byte
      BY DEF FetchTyped
    <2>2. phase = "inflate" => Pglz!TypeOK
      BY DEF FetchTyped, Inflation!Inv, Inflation!TypeOK, Pglz!TypeOK, Inflation!Input, Pglz!Input,
             Inflation!Byte, Pglz!Byte, Inflation!MaxRun, Pglz!MaxRun, Inflation!Final, Pglz!Final
    <2> QED
      BY <2>1, <2>2 DEF FetchTyped, FetchTypeOK
  <1> QED
    BY <1>1, FetchesTyped, PTL

-----------------------------------------------------------------------------

(* The entry of a chunk on its page is a stretch of the file.              *)
LEMMA ChunkIsInFile ==
  ASSUME MapTypeOK, NEW pi \in LiveChunks, Honest(StoredAt(pi))
  PROVE  LET d == Location(pi[1], StoredAt(pi))
         IN  Available(d.first, d.second) = d.second
  <1> DEFINE c == StoredAt(pi)
             o == DataStart(c)
             l == Len(c.data)
             d == Location(pi[1], c)
  <1>1. PICK p \in 0 .. Len(file.pages) - 1 :
          \E j \in 0 .. Len(file.pages[p + 1].linp) - 1 : pi = <<p, j>>
    BY DEF LiveChunks, ChunksIn
  <1>i. PICK i \in 0 .. Len(file.pages[p + 1].linp) - 1 : pi = <<p, i>>
    BY <1>1
  <1>2. file.pages[p + 1] \in ToastPage /\ Len(file.pages) \in Nat
    BY <1>1 DEF MapTypeOK, ToastFile
  <1>3. c \in ChunkItem
    BY <1>i, <1>2 DEF StoredAt, TupleAt, ToastPage
  <1>4. o \in Nat /\ l \in Nat /\ c.size = c.hdr + l /\ o + l <= PageSize /\ c.hdr \in Nat
    <2>1. /\ c.off \in Nat /\ c.hoff \in Nat /\ c.hdr \in Nat /\ l \in Nat
          /\ c.size = c.hdr + l /\ o + l <= PageSize
      BY <1>3 DEF ChunkItem, Honest
    <2>2. QED  BY <2>1 DEF IdSeqSize, DataStart
  <1>5. PageSize \in Nat /\ WordMod \in Nat \ {0} /\ PageSize < WordMod
    BY PageAssumption
  <1>6. d.second = l
    <2>1. d.second = Word(c.size - c.hdr)
      BY DEF Location
    <2>2. c.size - c.hdr = l /\ l < WordMod
      <3>1. c.size \in Nat
        BY <1>3 DEF ChunkItem
      <3> HIDE DEF o, l, c
      <3> QED
        BY <1>4, <1>5, <3>1
    <2>3. \A m \in Nat : m < WordMod => Word(m) = m
      BY <1>5 DEF Word
    <2> HIDE DEF l, c, d
    <2> QED
      BY <1>4, <2>1, <2>2, <2>3
  <1>7. pi[1] = p /\ p \in Nat /\ PageSize * p \in Nat
    BY <1>1, <1>i, <1>2, <1>5
  <1>8. d.first \in Nat /\ d.first <= PageSize * p + o
    <2>1. \A m \in Nat : Word(m) \in Nat /\ Word(m) <= m
      BY <1>5 DEF Word
    <2>2. d.first = Word(PageSize * p + c.off + c.hoff + IdSeqSize + c.hdr)
      BY <1>7 DEF Location
    <2>3. PageSize * p + c.off + c.hoff + IdSeqSize + c.hdr = PageSize * p + o
      <3>1. c.off \in Nat /\ c.hoff \in Nat /\ c.hdr \in Nat
        BY <1>3 DEF ChunkItem
      <3> HIDE DEF c
      <3> QED
        BY <1>7, <3>1 DEF IdSeqSize, DataStart
    <2> HIDE DEF o, d, c
    <2> QED
      BY <1>4, <1>7, <2>1, <2>2, <2>3
  <1>9. PageSize * p + PageSize <= FileSize /\ FileSize \in Nat
    <2>1. \A n, m, k \in Nat : m <= k - 1 => n * m + n <= n * k /\ n * k \in Nat
      OBVIOUS
    <2>2. p <= Len(file.pages) - 1
      BY <1>1, <1>2
    <2>3. PageSize * p + PageSize <= PageSize * Len(file.pages) /\ PageSize * Len(file.pages) \in Nat
      BY <1>2, <1>5, <1>7, <2>1, <2>2
    <2> QED
      BY <2>3 DEF FileSize
  <1> HIDE DEF o, d, c, l
  <1>10. Available(d.first, d.second) = d.second
    <2> DEFINE q == PageSize * p
    <2>1. q \in Nat /\ d.first <= q + o /\ q + PageSize <= FileSize
      BY <1>7, <1>8, <1>9
    <2> HIDE DEF q
    <2>2. d.first + l <= FileSize
      BY ONLY <1>4, <1>5, <1>8, <1>9, <2>1
    <2>3. d.first >= FileSize => l = 0
      BY ONLY <1>4, <1>8, <1>9, <2>2
    <2> QED
      BY ONLY <1>4, <1>6, <1>8, <1>9, <2>2, <2>3 DEF Available
  <1> QED
    BY <1>10 DEF d, c

(* The stream only fails under a read that a chunk of a damaged value      *)
(* asked for.                                                              *)
LEMMA StepKeepsStream ==
  ASSUME MapTypeOK, UsableMapIsTrue, FetchInMap, FetchTyped, [FetchNext]_vars,
         scan = "done", good, ~ good'
  PROVE  ~ Intact(ptr.valueid)
  <1> SUFFICES ASSUME Intact(ptr.valueid)
               PROVE  FALSE
    OBVIOUS
  <1>1. ReadChunk
    <2>1. ~ Scan
      BY DEF Scan, MapStep, Misfit, Open, ReadPage, ReadFails, BadCount, OffPage, SkipItem,
             NullAttribute, AddChunk, SeqWraps, NextPage, ScanDone, AtPage, AtItem, AtChunk
    <2> QED
      BY <2>1 DEF FetchNext, Request, Fetch, FetchUnknown, FetchStep, AddSize, Allocate,
           ChunkTooLong, ReturnPlain, StartInflate, NegativeRawSize, NoRawSize, Inflate,
           ReturnInflated, ThrowCorrupted, InflateAborts, Leave, Ended, vars, mapVars
  <1> DEFINE d == Datas[chunk + 1]
  <1>2. /\ ptr.valueid \in DOMAIN positions /\ Datas \in Seq(Place)
        /\ chunk \in Nat /\ chunk < Len(Datas)
    BY <1>1 DEF FetchInMap, ReadChunk, MapTypeOK, Datas
  <1>3. d \in Place /\ chunk + 1 \in DOMAIN positions[ptr.valueid]
        /\ d = positions[ptr.valueid][chunk + 1]
    BY <1>2 DEF Datas
  <1>4. Available(d.first, d.second) # d.second
    BY <1>1 DEF ReadChunk
  <1>5. FileSize \in Nat
    BY PageAssumption DEF FileSize, MapTypeOK, ToastFile
  <1> HIDE DEF d
  <1>6. d # Hole
    <2>1. Available(0, 0) = 0
      BY <1>5 DEF Available
    <2> QED
      BY <1>4, <2>1 DEF Hole
  <1>7. PICK pi \in LiveChunks : StoredAt(pi).id = ptr.valueid /\ d = Location(pi[1], StoredAt(pi))
    BY <1>2, <1>3, <1>6 DEF UsableMapIsTrue
  <1>a. StoredAt(pi) \in PiecesIn(file, ptr.valueid)
    BY <1>7 DEF LiveChunks, StoredAt, PiecesIn
  <1>8. Honest(StoredAt(pi))
    BY <1>a DEF Intact, IntactIn
  <1> QED
    BY <1>4, <1>7, <1>8, ChunkIsInFile

(* Whatever the file and whatever is damaged in it: once the map is filled *)
(* the shared stream fails only under the fetch of a damaged value.        *)
THEOREM DamageStaysLocal == FetchSpec => OnlyDamageFailsStream
  <1>1. MapTypeOK /\ UsableMapIsTrue /\ FetchInMap /\ FetchTyped /\ [FetchNext]_vars
          => [scan = "done" /\ good /\ ~ good' => ~ Intact(ptr.valueid)]_vars
    BY StepKeepsStream
  <1>2. FetchSpec => []UsableMapIsTrue
    BY FetchScans, UsableMapTrue, PTL
  <1> QED
    BY <1>1, <1>2, FetchesTyped, PTL DEF FetchSpec, OnlyDamageFailsStream

-----------------------------------------------------------------------------
(* A fetch of an intact value: the map has its chunks and no others, in    *)
(* their order.                                                            *)

(* The scan ends behind the last page; the last entry of a vector is that  *)
(* of a chunk; and a read fails only on a page the medium does not deliver.*)
ScanComplete ==
  /\ scan = "done" => page_pos >= End
  /\ scan \in {"open", "next", "items"} /\ ~ good => file.bad # {}
  /\ \A id \in DOMAIN positions : \E pi \in ScannedChunks :
       ChunkAt(pi).id = id /\ ChunkAt(pi).seq + 1 = Len(positions[id])

LEMMA InitComplete == MapInit => ScanComplete
  BY DEF MapInit, ScanComplete

(* How long the vector of a value is after a chunk was entered.            *)
LEMMA AddedLength ==
  ASSUME MapTypeOK, AddChunk
  PROVE  /\ Item.seq \in Nat
         /\ \/ Len(positions'[Item.id]) = Item.seq + 1
            \/ /\ Item.id \in DOMAIN positions
               /\ Len(positions'[Item.id]) = Len(positions[Item.id])
  <1> DEFINE datas == ChunksOf(Item.id)
             n == IF Len(datas) <= Item.seq THEN Item.seq + 1 ELSE Len(datas)
  <1>1. /\ datas \in Seq(Place) /\ Item \in ChunkItem
        /\ positions'[Item.id] = WithChunk(datas, Item.seq, Location(page_pos, Item))
    BY AddChunkEffect
  <1>2. Item.seq \in Nat /\ Len(datas) \in Nat
    BY <1>1, LenProperties DEF ChunkItem
  <1>3. positions'[Item.id] \in Seq(Place) /\ DOMAIN positions'[Item.id] = 1 .. n
    BY <1>1, AddedVector DEF WithChunk
  <1>4. Len(positions'[Item.id]) = n
    <2>1. n \in Nat
      BY <1>2
    <2> HIDE DEF n
    <2> QED
      BY <1>3, <2>1, LenProperties
  <1>5. Item.id \notin DOMAIN positions => Len(datas) = 0
    BY DEF ChunksOf
  <1>6. Item.id \in DOMAIN positions => datas = positions[Item.id]
    BY DEF ChunksOf
  <1> HIDE DEF datas
  <1> QED
    BY <1>2, <1>4, <1>5, <1>6

LEMMA StepComplete == MapTypeOK /\ ScanComplete /\ [MapNext]_mapVars => ScanComplete'
  <1> SUFFICES ASSUME MapTypeOK, ScanComplete, [MapNext]_mapVars
               PROVE  ScanComplete'
    OBVIOUS
  <1>1. UNCHANGED file /\ End' = End
    <2>1. UNCHANGED file
      BY AddChunkEffect, QuietSteps DEF AddChunk
    <2> QED
      BY <2>1 DEF End, Size, Word
  <1>2. scan' = "done" => page_pos' >= End'
    <2>1. CASE ScanDone \/ StreamUsed \/ UNCHANGED mapVars
      BY <1>1, <2>1 DEF ScanDone, StreamUsed, Stop, mapVars, scanVars, ScanComplete
    <2>2. CASE ~ (ScanDone \/ StreamUsed \/ UNCHANGED mapVars)
      BY <2>2 DEF MapNext, MapStep, Misfit, Open, ReadPage, ReadFails, BadCount, OffPage, SkipItem,
             NullAttribute, AddChunk, SeqWraps, NextPage, AtPage, AtItem, AtChunk, Stop
    <2> QED
      BY <2>1, <2>2
  <1>3. scan' \in {"open", "next", "items"} /\ ~ good' => file'.bad # {}
    BY <1>1 DEF ScanComplete, MapNext, MapStep, Misfit, Open, ReadPage, ReadFails, BadCount, OffPage,
           SkipItem, NullAttribute, AddChunk, SeqWraps, NextPage, ScanDone, AtPage, AtItem,
           AtChunk, Stop, StreamUsed, mapVars, scanVars
  <1>4. ASSUME NEW id \in DOMAIN positions'
        PROVE  \E pi \in ScannedChunks' :
                 ChunkAt(pi)'.id = id /\ ChunkAt(pi)'.seq + 1 = Len(positions'[id])
    <2>1. ScannedChunks \subseteq ScannedChunks'
          /\ \A pi \in ScannedChunks : ChunkAt(pi)' = ChunkAt(pi)
      BY AddChunkEffect, QuietSteps
    <2>2. CASE AddChunk /\ id = Item.id /\ Len(positions'[id]) = Item.seq + 1
      BY <2>2, AddChunkEffect
    <2>3. CASE id \in DOMAIN positions /\ Len(positions'[id]) = Len(positions[id])
      BY <2>1, <2>3 DEF ScanComplete
    <2>4. CASE ~ (AddChunk /\ id = Item.id)
      <3>1. id \in DOMAIN positions /\ positions'[id] = positions[id]
        BY <2>4, AddChunkEffect, QuietSteps
      <3> QED
        BY <2>3, <3>1
    <2> QED
      BY <2>2, <2>3, <2>4, AddedLength
  <1> QED
    BY <1>2, <1>3, <1>4 DEF ScanComplete

(* The file is counted by an unsigned.                                     *)
LEMMA AllPages ==
  ASSUME file \in Files
  PROVE  /\ Len(file.pages) \in Nat /\ End = Len(file.pages)
         /\ Size = PageSize * Len(file.pages) + file.tail
         /\ \A q \in 0 .. Len(file.pages) - 1 :
              PageSize * q \in Nat /\ PageSize * q + PageSize < WordMod
  <1> DEFINE n == Len(file.pages)
             t == file.tail
  <1>1. n \in Nat /\ t \in 0 .. PageSize - 1
    BY FilesAssumption DEF ToastFile
  <1>2. PageSize \in Nat \ {0} /\ WordMod \in Nat
    BY PageAssumption
  <1>3. PageSize * n + t < WordMod
    BY PagesAssumption
  <1>4. Size = Word(PageSize * n + t) /\ End = Size \div PageSize
    BY DEF Size, End
  <1> HIDE DEF n, t
  <1>5. PageSize * n \in Nat
    BY <1>1, <1>2
  <1>6. Size = PageSize * n + t
    <2>1. PageSize * n + t \in Nat
      BY <1>1, <1>5
    <2>2. \A m \in Nat : m < WordMod => Word(m) = m
      BY <1>2 DEF Word
    <2> QED
      BY <1>3, <1>4, <2>1, <2>2
  <1>7. \A b \in Nat \ {0}, m \in Nat : \A r \in 0 .. b - 1 : (b * m + r) \div b = m
    OBVIOUS
  <1>8. End = n
    BY <1>1, <1>2, <1>4, <1>6, <1>7
  <1>9. ASSUME NEW q \in 0 .. n - 1
        PROVE  PageSize * q \in Nat /\ PageSize * q + PageSize < WordMod
    <2>1. \A b, m, k \in Nat : m <= k - 1 => b * m + b <= b * k /\ b * m \in Nat
      OBVIOUS
    <2>2. PageSize * q + PageSize <= PageSize * n /\ PageSize * q \in Nat
      BY <1>1, <1>2, <2>1
    <2> QED
      BY <1>1, <1>2, <1>3, <1>5, <2>2
  <1> QED
    BY <1>1, <1>6, <1>8, <1>9 DEF n, t

(* The places of the chunks in the file, spelled out.                      *)
LEMMA LivePlaces ==
  ASSUME file \in Files, NEW pi \in LiveChunks
  PROVE  /\ pi = <<pi[1], pi[2]>>
         /\ pi[1] \in 0 .. Len(file.pages) - 1
         /\ pi[2] \in 0 .. Len(file.pages[pi[1] + 1].linp) - 1
         /\ pi[2] < ItemIdCount(file.pages[pi[1] + 1])
         /\ StoredAt(pi) = file.pages[pi[1] + 1].linp[pi[2] + 1]
         /\ StoredAt(pi) \in ChunkItem /\ Followed(StoredAt(pi))
         /\ StoredAt(pi).data \in Seq(Pglz!Byte)
  <1>1. PICK p \in 0 .. Len(file.pages) - 1 :
          pi \in {<<p, i>> : i \in {j \in 0 .. Len(file.pages[p + 1].linp) - 1 :
                                    /\ j < ItemIdCount(file.pages[p + 1])
                                    /\ Followed(TupleAt(file, <<p, j>>))}}
    BY DEF LiveChunks, ChunksIn
  <1>2. PICK i \in 0 .. Len(file.pages[p + 1].linp) - 1 :
          /\ pi = <<p, i>> /\ i < ItemIdCount(file.pages[p + 1])
          /\ Followed(TupleAt(file, <<p, i>>))
    BY <1>1
  <1>3. pi[1] = p /\ pi[2] = i
    BY <1>2
  <1>4. TupleAt(file, pi) = file.pages[p + 1].linp[i + 1]
    BY <1>3 DEF TupleAt
  <1>5. p + 1 \in DOMAIN file.pages /\ file.pages[p + 1] \in ToastPage
    BY FilesAssumption DEF ToastFile
  <1>6. file.pages[p + 1].linp \in Seq(ChunkItem) /\ i + 1 \in DOMAIN file.pages[p + 1].linp
    BY <1>5 DEF ToastPage
  <1>7. file.pages[p + 1].linp[i + 1] \in ChunkItem
    BY <1>6
  <1>8. file.pages[p + 1].linp[i + 1].data \in Seq(Pglz!Byte)
    BY <1>5, <1>6, BytesAssumption
  <1> QED
    BY <1>2, <1>3, <1>4, <1>7, <1>8 DEF StoredAt

(* When the map is filled and every read succeeded all chunks of the file  *)
(* have been scanned.                                                      *)
LEMMA AllScanned ==
  ASSUME file \in Files, MapTypeOK, ScanComplete, scan = "done", good, NEW pi \in LiveChunks
  PROVE  pi \in ScannedChunks /\ ChunkAt(pi) = StoredAt(pi)
  <1>1. page_pos >= Len(file.pages) /\ page_pos \in Nat /\ Len(file.pages) \in Nat
    BY AllPages DEF ScanComplete, MapTypeOK
  <1>2. held = page_pos /\ item_pos = 0 /\ held = Len(file.pages)
    BY <1>1 DEF MapTypeOK, BufferInStep
  <1>3. /\ pi = <<pi[1], pi[2]>> /\ pi[1] \in 0 .. Len(file.pages) - 1
        /\ pi[2] \in 0 .. Len(file.pages[pi[1] + 1].linp) - 1
        /\ pi[2] < ItemIdCount(file.pages[pi[1] + 1])
        /\ StoredAt(pi) = file.pages[pi[1] + 1].linp[pi[2] + 1]
        /\ Followed(StoredAt(pi))
    BY LivePlaces
  <1>4. ShownAt(pi[1]) = file.pages[pi[1] + 1]
    BY <1>1, <1>2, <1>3 DEF ShownAt
  <1>5. pi \in Items
    BY <1>3, <1>4, ItemAt
  <1>6. ChunkAt(pi) = StoredAt(pi)
    BY <1>3, <1>4 DEF ChunkAt
  <1>7. Scanned(pi)
    BY <1>1, <1>2, <1>3 DEF Scanned
  <1> QED
    BY <1>3, <1>5, <1>6, <1>7 DEF ScannedChunks

-----------------------------------------------------------------------------
(* The bytes of a value, piece after piece.                                *)

IsGathering(f, pieces, m) ==
  f = [k \in 0 .. m |-> IF k = 0 THEN << >> ELSE f[k - 1] \o Piece(pieces, k - 1).data]

LEMMA GatheringNext ==
  ASSUME NEW pieces, NEW m \in Nat, NEW f, IsGathering(f, pieces, m), NEW k \in 0 .. m - 1
  PROVE  f[k + 1] = f[k] \o Piece(pieces, k).data
  <1>1. k + 1 \in 0 .. m /\ k + 1 # 0 /\ (k + 1) - 1 = k
    OBVIOUS
  <1> QED
    BY <1>1 DEF IsGathering

LEMMA GatheringsExist ==
  ASSUME NEW pieces, NEW n \in Nat
  PROVE  \E f : IsGathering(f, pieces, n)
  <1> DEFINE S == {m \in 0 .. n : \E f : IsGathering(f, pieces, m)}
  <1>1. 0 \in S
    <2>1. IsGathering([k \in 0 .. 0 |-> << >>], pieces, 0)
      BY DEF IsGathering
    <2> QED
      BY <2>1
  <1>2. \A m \in 0 .. n - 1 : m \in S => m + 1 \in S
    <2> SUFFICES ASSUME NEW m \in 0 .. n - 1, NEW f, IsGathering(f, pieces, m)
                 PROVE  \E h : IsGathering(h, pieces, m + 1)
      OBVIOUS
    <2> DEFINE h == [k \in 0 .. m + 1 |->
                      IF k = m + 1 THEN f[m] \o Piece(pieces, m).data ELSE f[k]]
               Right(k) == IF k = 0 THEN << >> ELSE h[k - 1] \o Piece(pieces, k - 1).data
    <2>1. ASSUME NEW k \in 0 .. m + 1
          PROVE  h[k] = Right(k)
      <3>1. CASE k = 0
        BY <3>1 DEF IsGathering
      <3>2. CASE k = m + 1
        <4>1. k # 0 /\ k - 1 = m /\ m \in 0 .. m + 1 /\ m # m + 1
          BY <3>2
        <4>2. h[m] = f[m] /\ h[k] = f[m] \o Piece(pieces, m).data
          BY <3>2, <4>1
        <4> QED
          BY <4>1, <4>2
      <3>3. CASE k # 0 /\ k # m + 1
        <4>1. k \in 0 .. m /\ k - 1 \in 0 .. m + 1 /\ k - 1 # m + 1
          BY <3>3
        <4>2. h[k] = f[k] /\ h[k - 1] = f[k - 1]
          BY <3>3, <4>1
        <4>3. f[k] = f[k - 1] \o Piece(pieces, k - 1).data
          BY <3>3, <4>1 DEF IsGathering
        <4> HIDE DEF h
        <4> QED
          BY <3>3, <4>2, <4>3
      <3> QED
        BY <3>1, <3>2, <3>3
    <2>2. h = [k \in 0 .. m + 1 |-> h[k]]
      OBVIOUS
    <2> HIDE DEF h
    <2>3. h = [k \in 0 .. m + 1 |-> Right(k)]
      BY <2>1, <2>2
    <2>4. IsGathering(h, pieces, m + 1)
      BY <2>3 DEF IsGathering
    <2> QED
      BY <2>4
  <1> HIDE DEF S
  <1>3. 0 .. n \subseteq S
    BY <1>1, <1>2, IntervalInduction
  <1> QED
    BY <1>3 DEF S

LEMMA GatheredIsLast ==
  ASSUME NEW pieces, NEW n \in Nat
  PROVE  \E f : IsGathering(f, pieces, n) /\ Gathered(pieces, n) = f[n]
  <1> DEFINE f == CHOOSE f : IsGathering(f, pieces, n)
  <1>1. IsGathering(f, pieces, n)
    BY GatheringsExist
  <1>2. Gathered(pieces, n) = f[n]
    BY DEF Gathered, IsGathering
  <1> QED
    BY <1>1, <1>2

LEMMA GatheringsAgree ==
  ASSUME NEW pieces, NEW n \in Nat, NEW m \in Nat, n <= m,
         NEW f, IsGathering(f, pieces, n), NEW g, IsGathering(g, pieces, m)
  PROVE  f[n] = g[n]
  <1> DEFINE S == {k \in 0 .. n : f[k] = g[k]}
  <1>1. 0 \in S
    BY DEF IsGathering
  <1>2. \A k \in 0 .. n - 1 : k \in S => k + 1 \in S
    <2> SUFFICES ASSUME NEW k \in 0 .. n - 1, f[k] = g[k]
                 PROVE  f[k + 1] = g[k + 1]
      OBVIOUS
    <2>1. k \in 0 .. m - 1
      OBVIOUS
    <2>2. f[k + 1] = f[k] \o Piece(pieces, k).data
      BY GatheringNext
    <2>3. g[k + 1] = g[k] \o Piece(pieces, k).data
      BY <2>1, GatheringNext
    <2> QED
      BY <2>2, <2>3
  <1> HIDE DEF S
  <1>3. 0 .. n \subseteq S
    BY <1>1, <1>2, IntervalInduction
  <1> QED
    BY <1>3 DEF S

LEMMA OneMorePiece ==
  ASSUME NEW pieces, NEW n \in Nat
  PROVE  /\ Gathered(pieces, 0) = << >>
         /\ Gathered(pieces, n + 1) = Gathered(pieces, n) \o Piece(pieces, n).data
  <1>1. PICK f : IsGathering(f, pieces, n) /\ Gathered(pieces, n) = f[n]
    BY GatheredIsLast
  <1>2. PICK g : IsGathering(g, pieces, n + 1) /\ Gathered(pieces, n + 1) = g[n + 1]
    BY GatheredIsLast
  <1>3. g[n + 1] = g[n] \o Piece(pieces, n).data
    <2>1. n + 1 \in Nat /\ n \in 0 .. (n + 1) - 1
      OBVIOUS
    <2> QED
      BY <1>2, <2>1, GatheringNext
  <1>4. f[n] = g[n]
    BY <1>1, <1>2, GatheringsAgree
  <1>5. PICK h : IsGathering(h, pieces, 0) /\ Gathered(pieces, 0) = h[0]
    BY GatheredIsLast
  <1>6. h[0] = << >>
    BY <1>5 DEF IsGathering
  <1> QED
    BY <1>1, <1>2, <1>3, <1>4, <1>5, <1>6

(* What a piece adds.                                                      *)
LEMMA PieceAdds ==
  ASSUME NEW S, NEW pieces, NEW k \in Nat,
         Gathered(pieces, k) \in Seq(S), Piece(pieces, k).data \in Seq(S)
  PROVE  LET g == Gathered(pieces, k)
             h == Gathered(pieces, k + 1)
             d == Piece(pieces, k).data
         IN  /\ h \in Seq(S) /\ Len(h) = Len(g) + Len(d)
             /\ \A x \in 1 .. Len(g) : h[x] = g[x]
             /\ \A x \in 1 .. Len(d) : h[Len(g) + x] = d[x]
  <1> DEFINE g == Gathered(pieces, k)
             h == Gathered(pieces, k + 1)
             d == Piece(pieces, k).data
  <1>1. g \in Seq(S) /\ d \in Seq(S) /\ h = g \o d
    BY OneMorePiece
  <1> HIDE DEF g, d, h
  <1>2. Len(g) \in Nat /\ Len(d) \in Nat
    BY <1>1, LenProperties
  <1>3. /\ h \in Seq(S) /\ Len(h) = Len(g) + Len(d)
        /\ \A x \in 1 .. Len(g) + Len(d) :
             h[x] = IF x <= Len(g) THEN g[x] ELSE d[x - Len(g)]
    BY <1>1, ConcatProperties
  <1>4. \A x \in 1 .. Len(g) : h[x] = g[x]
    BY <1>2, <1>3
  <1>5. \A x \in 1 .. Len(d) : h[Len(g) + x] = d[x]
    <2> SUFFICES ASSUME NEW x \in 1 .. Len(d)
                 PROVE  h[Len(g) + x] = d[x]
      OBVIOUS
    <2>1. Len(g) + x \in 1 .. Len(g) + Len(d) /\ ~ (Len(g) + x <= Len(g))
          /\ (Len(g) + x) - Len(g) = x
      BY <1>2
    <2> QED
      BY <1>3, <2>1
  <1> QED
    BY <1>3, <1>4, <1>5 DEF g, h, d

(* The bytes gathered from some pieces begin those gathered from more.     *)
LEMMA GatheredGrows ==
  ASSUME NEW S, NEW pieces, NEW n \in Nat,
         \A k \in 0 .. n - 1 : Piece(pieces, k).data \in Seq(S)
  PROVE  \A k \in 0 .. n :
           /\ Gathered(pieces, k) \in Seq(S)
           /\ Len(Gathered(pieces, k)) <= Len(Gathered(pieces, n))
           /\ \A x \in 1 .. Len(Gathered(pieces, k)) :
                Gathered(pieces, n)[x] = Gathered(pieces, k)[x]
  <1> DEFINE Begins(k, m) ==
               /\ Gathered(pieces, k) \in Seq(S)
               /\ Len(Gathered(pieces, k)) <= Len(Gathered(pieces, m))
               /\ \A x \in 1 .. Len(Gathered(pieces, k)) :
                    Gathered(pieces, m)[x] = Gathered(pieces, k)[x]
             T == {m \in 0 .. n : \A k \in 0 .. m : Begins(k, m)}
  <1>1. 0 \in T
    <2>1. Gathered(pieces, 0) = << >>
      BY OneMorePiece
    <2>2. << >> \in Seq(S) /\ Len(<< >>) = 0
      BY EmptySeq
    <2>3. Len(Gathered(pieces, 0)) = 0 /\ Gathered(pieces, 0) \in Seq(S)
      BY <2>1, <2>2
    <2>4. Begins(0, 0)
      BY <2>3
    <2> QED
      BY <2>4
  <1>2. ASSUME NEW m \in 0 .. n - 1, m \in T
        PROVE  m + 1 \in T
    <2>1. Gathered(pieces, m) \in Seq(S)
      BY <1>2
    <2>2. Len(Gathered(pieces, m)) \in Nat
      BY <2>1, LenProperties
    <2> DEFINE g == Gathered(pieces, m)
               h == Gathered(pieces, m + 1)
    <2>3. /\ h \in Seq(S) /\ Len(h) = Len(g) + Len(Piece(pieces, m).data)
          /\ \A x \in 1 .. Len(g) : h[x] = g[x]
      BY <2>1, PieceAdds
    <2>4. Len(Piece(pieces, m).data) \in Nat
      BY LenProperties
    <2>5. ASSUME NEW k \in 0 .. m
          PROVE  Begins(k, m + 1)
      <3>1. Begins(k, m)
        BY <1>2
      <3>2. Len(Gathered(pieces, k)) \in Nat
        BY <3>1, LenProperties
      <3>3. Len(Gathered(pieces, k)) <= Len(h)
        BY <2>2, <2>3, <2>4, <3>1, <3>2
      <3>4. ASSUME NEW x \in 1 .. Len(Gathered(pieces, k))
            PROVE  h[x] = Gathered(pieces, k)[x]
        BY <2>2, <2>3, <3>1, <3>2
      <3> QED
        BY <3>1, <3>3, <3>4
    <2>6. Begins(m + 1, m + 1)
      BY <2>3, LenProperties
    <2>7. \A k \in 0 .. m + 1 : k \in 0 .. m \/ k = m + 1
      OBVIOUS
    <2> HIDE DEF Begins
    <2> QED
      BY <2>5, <2>6, <2>7
  <1> HIDE DEF T
  <1>3. n \in T
    <2>1. 0 .. n \subseteq T
      BY <1>1, <1>2, IntervalInduction
    <2> QED
      BY <2>1
  <1> QED
    BY <1>3 DEF T


-----------------------------------------------------------------------------
(* The pieces of an intact value, by number.                               *)

LEMMA LiveAreFinite ==
  ASSUME file \in Files
  PROVE  IsFiniteSet(LiveChunks)
  <1> DEFINE box == (0 .. Len(file.pages) - 1) \X (0 .. PageSize)
  <1>1. Len(file.pages) \in Nat /\ PageSize \in Nat
    BY AllPages, PageAssumption
  <1>2. IsFiniteSet(0 .. Len(file.pages) - 1) /\ IsFiniteSet(0 .. PageSize)
    BY <1>1, FS_Interval
  <1>3. IsFiniteSet(box)
    BY <1>2, FS_Product
  <1>4. ASSUME NEW pi \in LiveChunks
        PROVE  pi \in box
    <2> DEFINE page == file.pages[pi[1] + 1]
               m == Len(page.linp)
    <2>1. pi = <<pi[1], pi[2]>> /\ pi[1] \in 0 .. Len(file.pages) - 1 /\ pi[2] \in 0 .. m - 1
      BY LivePlaces
    <2>2. pi[1] + 1 \in DOMAIN file.pages /\ page \in ToastPage
      BY <2>1, FilesAssumption DEF ToastFile
    <2>3. m \in Nat
      BY <2>2 DEF ToastPage
    <2>4. PageHeaderSize + m * ItemIdSize <= PageSize
      BY <2>2, PagesAssumption
    <2>5. \A a \in Nat, b \in Nat \ {0} : a <= a * b
      OBVIOUS
    <2> HIDE DEF m
    <2>6. ItemIdSize \in Nat \ {0} /\ PageHeaderSize \in Nat
      BY PageAssumption
    <2>7. m <= m * ItemIdSize /\ m * ItemIdSize \in Nat
      BY ONLY <2>3, <2>5, <2>6
    <2>8. m <= PageSize
      BY ONLY <1>1, <2>3, <2>4, <2>6, <2>7
    <2>9. pi[2] \in 0 .. PageSize
      BY <2>1, <2>3, <2>8, <1>1
    <2> QED
      BY <2>1, <2>9
  <1> QED
    BY <1>3, <1>4, FS_Subset

LEMMA PiecesAreFinite ==
  ASSUME file \in Files, NEW id
  PROVE  /\ IsFiniteSet(PiecesIn(file, id))
         /\ \A c \in PiecesIn(file, id) : \E pi \in LiveChunks : c = StoredAt(pi) /\ c.id = id
  <1> DEFINE f == [pi \in LiveChunks |-> StoredAt(pi)]
             all == {StoredAt(pi) : pi \in LiveChunks}
  <1>1. f \in Surjection(LiveChunks, all)
    BY DEF Surjection
  <1>2. IsFiniteSet(all)
    BY <1>1, LiveAreFinite, FS_Surjection
  <1>3. PiecesIn(file, id) = {c \in all : c.id = id}
    BY DEF PiecesIn, LiveChunks, StoredAt
  <1>4. PiecesIn(file, id) \in SUBSET all
    BY <1>3
  <1>5. IsFiniteSet(PiecesIn(file, id))
    BY <1>2, <1>4, FS_Subset
  <1> QED
    BY <1>3, <1>5

(* No two pieces of an intact value claim one number.                      *)
LEMMA PiecesFacts ==
  ASSUME file \in Files, NEW id, Intact(id)
  PROVE  LET pieces == PiecesIn(file, id)
             n == Cardinality(pieces)
         IN  /\ n \in Nat
             /\ \A k \in 0 .. n - 1 :
                  /\ Piece(pieces, k) \in pieces /\ Piece(pieces, k).seq = k
                  /\ Piece(pieces, k).data \in Seq(Pglz!Byte)
             /\ \A c \in pieces : c.seq \in 0 .. n - 1 /\ c = Piece(pieces, c.seq)
  <1> DEFINE pieces == PiecesIn(file, id)
             n == Cardinality(pieces)
             f == [c \in pieces |-> c.seq]
  <1>1. IsFiniteSet(pieces)
    BY PiecesAreFinite
  <1>2. n \in Nat
    BY <1>1, FS_CardinalityType
  <1>3. {c.seq : c \in pieces} = 0 .. n - 1
    BY DEF Intact, IntactIn
  <1>d. \A c \in pieces : c.data \in Seq(Pglz!Byte)
    BY PiecesAreFinite, LivePlaces
  <1> HIDE DEF pieces
  <1>4. f \in Surjection(pieces, 0 .. n - 1)
    BY <1>3 DEF Surjection
  <1>5. Cardinality(0 .. n - 1) = n
    BY <1>2, FS_Interval
  <1>6. f \in Injection(pieces, 0 .. n - 1)
    BY <1>1, <1>4, <1>5, FS_SurjSameCardinalityImpliesInj
  <1>7. \A c \in pieces, e \in pieces : c.seq = e.seq => c = e
    BY <1>6 DEF Injection, IsInjective
  <1>8. ASSUME NEW k \in 0 .. n - 1
        PROVE  /\ Piece(pieces, k) \in pieces /\ Piece(pieces, k).seq = k
               /\ Piece(pieces, k).data \in Seq(Pglz!Byte)
    <2>1. \E c \in pieces : c.seq = k
      BY <1>3
    <2>2. Piece(pieces, k) \in pieces /\ Piece(pieces, k).seq = k
      BY <2>1 DEF Piece
    <2> QED
      BY <2>2, <1>d
  <1>9. ASSUME NEW c \in pieces
        PROVE  c.seq \in 0 .. n - 1 /\ c = Piece(pieces, c.seq)
    <2>1. c.seq \in 0 .. n - 1
      BY <1>3
    <2> QED
      BY <2>1, <1>7, <1>8
  <1> QED
    BY <1>2, <1>8, <1>9 DEF pieces

(* In a map filled without a failed read the vector of an intact value has *)
(* an entry for each of its pieces, in their order, and no other.          *)
LEMMA IntactEntries ==
  ASSUME file \in Files, MapTypeOK, ScanComplete, ChunksAreEntered, scan = "done", good,
         NEW id, Intact(id), Store[id].image # << >>
  PROVE  LET pieces == PiecesIn(file, id)
             n == Cardinality(pieces)
         IN  /\ id \in DOMAIN positions /\ Len(positions[id]) = n
             /\ \A k \in 0 .. n - 1 :
                  \E pi \in LiveChunks :
                    /\ StoredAt(pi) = Piece(pieces, k)
                    /\ positions[id][k + 1] = Location(pi[1], Piece(pieces, k))
  <1> DEFINE pieces == PiecesIn(file, id)
             n == Cardinality(pieces)
  <1>1. /\ n \in Nat
        /\ \A k \in 0 .. n - 1 : Piece(pieces, k) \in pieces /\ Piece(pieces, k).seq = k
        /\ \A c \in pieces : c.seq \in 0 .. n - 1 /\ c = Piece(pieces, c.seq)
    BY PiecesFacts
  <1>2. \A c \in pieces : \E pi \in LiveChunks : c = StoredAt(pi) /\ c.id = id
    BY PiecesAreFinite
  <1>3. \A pi \in ScannedChunks : ChunkAt(pi).id = id => pi \in LiveChunks /\ StoredAt(pi) = ChunkAt(pi)
                                                          /\ ChunkAt(pi) \in pieces
    BY ShownIsStored DEF PiecesIn, LiveChunks, StoredAt
  <1>4. Gathered(pieces, n) # << >>
    BY DEF Intact, IntactIn
  <1> HIDE DEF pieces, n
  <1>5. n # 0
    BY <1>4, OneMorePiece
  <1>6. ASSUME NEW k \in 0 .. n - 1
        PROVE  /\ id \in DOMAIN positions /\ k + 1 \in DOMAIN positions[id]
               /\ \E pi \in LiveChunks :
                    /\ StoredAt(pi) = Piece(pieces, k)
                    /\ positions[id][k + 1] = Location(pi[1], Piece(pieces, k))
    <2> DEFINE c == Piece(pieces, k)
    <2>1. c \in pieces /\ c.seq = k
      BY <1>1
    <2>2. PICK pi \in LiveChunks : c = StoredAt(pi) /\ c.id = id
      BY <1>2, <2>1
    <2>3. pi \in ScannedChunks /\ ChunkAt(pi) = c
      BY <2>2, AllScanned
    <2> HIDE DEF c
    <2>4. /\ id \in DOMAIN positions /\ k + 1 \in DOMAIN positions[id]
          /\ \/ positions[id][k + 1] = Location(pi[1], c)
             \/ \E qj \in ScannedChunks :
                  /\ ChunkAt(qj).id = id /\ ChunkAt(qj).seq = k
                  /\ positions[id][k + 1] = Location(qj[1], ChunkAt(qj))
      BY <2>1, <2>2, <2>3 DEF ChunksAreEntered
    <2>5. CASE positions[id][k + 1] = Location(pi[1], c)
      BY <2>2, <2>4, <2>5 DEF c
    <2>6. ASSUME NEW qj \in ScannedChunks,
                 ChunkAt(qj).id = id, ChunkAt(qj).seq = k,
                 positions[id][k + 1] = Location(qj[1], ChunkAt(qj))
          PROVE  \E pj \in LiveChunks :
                    /\ StoredAt(pj) = c /\ positions[id][k + 1] = Location(pj[1], c)
      <3>1. qj \in LiveChunks /\ StoredAt(qj) = ChunkAt(qj) /\ ChunkAt(qj) \in pieces
        BY <1>3, <2>6
      <3>2. ChunkAt(qj) = c
        BY <1>1, <2>6, <3>1 DEF c
      <3> QED
        BY <2>6, <3>1, <3>2
    <2> QED
      BY <2>4, <2>5, <2>6 DEF c
  <1>7. id \in DOMAIN positions /\ n \in DOMAIN positions[id]
    <2>1. n - 1 \in 0 .. n - 1 /\ (n - 1) + 1 = n
      BY <1>1, <1>5
    <2> QED
      BY <1>6, <2>1
  <1>8. Len(positions[id]) \in Nat /\ DOMAIN positions[id] = 1 .. Len(positions[id])
    BY <1>7 DEF MapTypeOK
  <1>9. PICK pi \in ScannedChunks : ChunkAt(pi).id = id /\ ChunkAt(pi).seq + 1 = Len(positions[id])
    BY <1>7 DEF ScanComplete
  <1>10. ChunkAt(pi).seq \in 0 .. n - 1
    BY <1>1, <1>3, <1>9
  <1>11. Len(positions[id]) = n
    <2> DEFINE s == ChunkAt(pi).seq
               m == Len(positions[id])
    <2>1. m \in Nat /\ n \in 1 .. m /\ s \in 0 .. n - 1 /\ s + 1 = m
      BY <1>7, <1>8, <1>9, <1>10
    <2> HIDE DEF s, m
    <2>2. m = n
      BY <1>1, <2>1
    <2> QED
      BY <2>2 DEF m
  <1> QED
    BY <1>6, <1>7, <1>11 DEF pieces, n

-----------------------------------------------------------------------------
(* What a read of an honest piece delivers.                                *)

LEMMA PieceBytes ==
  ASSUME MapTypeOK, file \in Files, NEW pi \in LiveChunks, Honest(StoredAt(pi))
  PROVE  LET c == StoredAt(pi)
             d == Location(pi[1], c)
         IN  /\ d.first \in Nat /\ d.second = Len(c.data)
             /\ Available(d.first, d.second) = d.second
             /\ \A j \in 1 .. Len(c.data) : FileByte(d.first + j - 1) = c.data[j]
  <1> DEFINE c == StoredAt(pi)
             d == Location(pi[1], c)
             p == pi[1]
             page == file.pages[p + 1]
             o == DataStart(c)
             l == Len(c.data)
  <1>1. /\ p \in 0 .. Len(file.pages) - 1 /\ pi[2] \in 0 .. Len(page.linp) - 1
        /\ c = page.linp[pi[2] + 1] /\ c \in ChunkItem /\ Followed(c)
        /\ c.data \in Seq(Pglz!Byte)
    BY LivePlaces
  <1>2. p + 1 \in DOMAIN file.pages /\ page \in ToastPage /\ Len(file.pages) \in Nat
    <2>1. file.pages \in Seq(ToastPage) /\ Len(file.pages) \in Nat
      BY FilesAssumption DEF ToastFile
    <2>2. p + 1 \in 1 .. Len(file.pages)
      <3> HIDE DEF p
      <3> QED
        BY ONLY <1>1, <2>1
    <2> QED
      BY <2>1, <2>2, ElementOfSeq
  <1>3. pi[2] + 1 \in DOMAIN page.linp
    <2>1. page.linp \in Seq(ChunkItem)
      BY <1>2 DEF ToastPage
    <2>2. DOMAIN page.linp = 1 .. Len(page.linp) /\ Len(page.linp) \in Nat
      BY ONLY <2>1, LenProperties
    <2> HIDE DEF page
    <2> QED
      BY ONLY <1>1, <2>2
  <1>4. /\ o \in Nat /\ l \in Nat /\ c.hdr \in Nat /\ c.size \in Nat
        /\ c.size = c.hdr + l /\ o + l <= PageSize
        /\ c.off + c.hoff + IdSeqSize + c.hdr = o
        /\ c.off \in Nat /\ c.hoff \in Nat
    <2>1. c.off \in Nat /\ c.hoff \in Nat /\ c.hdr \in Nat /\ c.size \in Nat
      BY <1>1 DEF ChunkItem
    <2>2. l \in Nat
      BY <1>1, LenProperties
    <2>3. o = c.off + c.hoff + IdSeqSize + c.hdr
      BY DEF DataStart
    <2>4. o \in Nat
      BY <2>1, <2>3 DEF IdSeqSize
    <2>5. c.size = c.hdr + l /\ o + l <= PageSize
      BY DEF Honest
    <2> QED
      BY <2>1, <2>2, <2>3, <2>4, <2>5
  <1>5. PageSize \in Nat \ {0} /\ WordMod \in Nat /\ PageSize < WordMod
    BY PageAssumption
  <1>6. PageSize * p \in Nat /\ PageSize * p + PageSize < WordMod
    BY <1>1, AllPages
  <1>7. \A m \in Nat : m < WordMod => Word(m) = m
    BY <1>5 DEF Word
  <1>8. d.second = l
    <2>1. d.second = Word(c.size - c.hdr)
      BY DEF Location
    <2> HIDE DEF c, d, l
    <2>2. c.size - c.hdr = l /\ l < WordMod
      BY <1>4, <1>5
    <2> QED
      BY <1>4, <1>7, <2>1, <2>2
  <1>9. d.first = PageSize * p + o
    <2>1. d.first = Word(PageSize * p + c.off + c.hoff + IdSeqSize + c.hdr)
      BY DEF Location
    <2> HIDE DEF c, d, l, o, p
    <2>2. PageSize * p + c.off + c.hoff + IdSeqSize + c.hdr = PageSize * p + o
      <3>1. \A q, x, y, z, h \in Nat : q + x + y + z + h = q + (x + y + z + h)
        OBVIOUS
      <3>2. IdSeqSize \in Nat
        BY DEF IdSeqSize
      <3> QED
        BY ONLY <1>4, <1>6, <3>1, <3>2
    <2>3. PageSize * p + o \in Nat /\ PageSize * p + o < WordMod
      <3> DEFINE q == PageSize * p
      <3>1. q \in Nat /\ q + PageSize < WordMod
        BY <1>6
      <3> HIDE DEF q
      <3>2. q + o \in Nat /\ q + o < WordMod
        BY ONLY <1>4, <1>5, <3>1
      <3> QED
        BY <3>2 DEF q
    <2> QED
      BY <1>7, <2>1, <2>2, <2>3
  <1>10. ASSUME NEW j \in 1 .. l
         PROVE  FileByte(d.first + j - 1) = c.data[j]
    <2> DEFINE b == o + j - 1
    <2>1. b \in 0 .. PageSize - 1 /\ b - o = j - 1 /\ j - 1 \in 0 .. l - 1
      <3> HIDE DEF c, o, l
      <3> QED
        BY <1>4, <1>5
    <2>2. d.first + j - 1 = PageSize * p + b
      <3> HIDE DEF c, d, o, l, p
      <3> QED
        BY <1>4, <1>6, <1>9
    <2>3. (PageSize * p + b) \div PageSize = p /\ (PageSize * p + b) % PageSize = b
      <3>1. \A a \in Nat \ {0}, m \in Nat : \A r \in 0 .. a - 1 :
               (a * m + r) \div a = m /\ (a * m + r) % a = r
        OBVIOUS
      <3> HIDE DEF b, p
      <3>2. p \in Nat
        BY ONLY <1>1, <1>2
      <3> QED
        BY ONLY <1>5, <2>1, <3>1, <3>2
    <2>4. FileByte(d.first + j - 1) = PageByte(page, b)
      <3> HIDE DEF b, d, c
      <3> QED
        BY <2>2, <2>3 DEF FileByte
    <2>5. pi[2] + 1 \in Covering(page, b)
      <3> HIDE DEF b, l, o
      <3>1. b - o \in 0 .. l - 1
        BY <2>1
      <3>2. b - DataStart(page.linp[pi[2] + 1]) \in 0 .. Len(page.linp[pi[2] + 1].data) - 1
        BY <1>1, <3>1 DEF o, l
      <3>3. Followed(page.linp[pi[2] + 1])
        BY <1>1
      <3> HIDE DEF page, c, d
      <3> QED
        BY ONLY <1>3, <3>2, <3>3 DEF Covering
    <2>6. page.linp[pi[2] + 1].data[b - DataStart(page.linp[pi[2] + 1]) + 1] = PageByte(page, b)
      <3> HIDE DEF b
      <3> QED
        BY <1>2, <2>1, <2>5, PagesAssumption, ZenonT(30)
    <2>7. c.data[b - o + 1] = PageByte(page, b)
      BY <1>1, <2>6
    <2>8. b - o + 1 = j
      <3> HIDE DEF c, o, l
      <3> QED
        BY <1>4
    <2> QED
      BY <2>4, <2>7, <2>8
  <1>11. Available(d.first, d.second) = d.second
    BY ChunkIsInFile
  <1> QED
    BY <1>4, <1>6, <1>8, <1>9, <1>10, <1>11

(* A read of a fetch fills its chunk's place, and if it succeeds with the  *)
(* bytes of a chunk of the value asked for.                                *)
LEMMA ReadDelivers ==
  ASSUME MapTypeOK, UsableMapIsTrue, FetchInMap, FetchTyped, [FetchNext]_vars,
         phase = "read", chunk' = chunk + 1
  PROVE  LET d == Datas[chunk + 1]
         IN  /\ DOMAIN result' = DOMAIN result
             /\ \A k \in DOMAIN result : k \notin pos + 1 .. pos + d.second => result'[k] = result[k]
             /\ good' /\ d # Hole =>
                  \E pi \in LiveChunks :
                    LET c == StoredAt(pi)
                    IN  /\ c.id = ptr.valueid /\ c.seq = chunk /\ d = Location(pi[1], c)
                        /\ Honest(c) => \A j \in DOMAIN c.data : result'[pos + j] = c.data[j]
  <1> DEFINE d == Datas[chunk + 1]
             n == IF good THEN Available(d.first, d.second) ELSE 0
  <1>1. ReadChunk
    <2>1. chunk \in Nat /\ chunk' # chunk /\ chunk' # 0
      BY DEF FetchTyped
    <2>2. ~ Scan
      BY DEF Scan, FetchInMap, PhaseAfterScan, MapStep, Misfit, Open, ReadPage, ReadFails, BadCount,
             OffPage, SkipItem, NullAttribute, AddChunk, SeqWraps, NextPage, ScanDone, AtPage,
             AtItem, AtChunk
    <2> QED
      BY <2>1, <2>2 DEF FetchNext, Request, Fetch, FetchUnknown, FetchStep, AddSize, Allocate,
           ChunkTooLong, ReturnPlain, StartInflate, NegativeRawSize, NoRawSize, Inflate,
           ReturnInflated, Inflated, ThrowCorrupted, InflateAborts, Inflatable, Leave,
           Ended, vars, fetchVars
  <1>2. /\ ptr.valueid \in DOMAIN positions /\ chunk + 1 \in DOMAIN positions[ptr.valueid]
        /\ d = positions[ptr.valueid][chunk + 1]
        /\ d.first \in Nat /\ d.second \in Nat
        /\ n \in 0 .. d.second /\ pos \in Nat /\ pos + d.second <= Len(result)
        /\ result' = [k \in DOMAIN result |->
                        IF k \in pos + 1 .. pos + n THEN FileByte(d.first + k - pos - 1)
                                                    ELSE result[k]]
        /\ good' = (good /\ n = d.second)
    BY <1>1, ReadInBuffer
  <1>3. chunk \in Nat /\ DOMAIN result = 1 .. Len(result) /\ Len(result) \in Nat
    BY DEF FetchTyped
  <1> HIDE DEF d, n
  <1>4. ASSUME NEW k \in DOMAIN result, k \notin pos + 1 .. pos + d.second
        PROVE  result'[k] = result[k]
    <2>1. k \notin pos + 1 .. pos + n
      BY <1>2, <1>3, <1>4
    <2> QED
      BY <1>2, <2>1
  <1>5. ASSUME good', d # Hole
        PROVE  \E pi \in LiveChunks :
                 /\ StoredAt(pi).id = ptr.valueid /\ StoredAt(pi).seq = chunk
                 /\ d = Location(pi[1], StoredAt(pi))
                 /\ Honest(StoredAt(pi)) =>
                      \A j \in DOMAIN StoredAt(pi).data : result'[pos + j] = StoredAt(pi).data[j]
    <2>1. good /\ n = d.second
      BY <1>2, <1>5
    <2>2. PICK pi \in LiveChunks :
            /\ StoredAt(pi).id = ptr.valueid /\ StoredAt(pi).seq = chunk
            /\ d = Location(pi[1], StoredAt(pi))
      <3>1. \A id \in DOMAIN positions : \A k \in DOMAIN positions[id] :
              \/ positions[id][k] = Hole
              \/ \E pi \in LiveChunks : /\ StoredAt(pi).id = id /\ StoredAt(pi).seq = k - 1
                                       /\ positions[id][k] = Location(pi[1], StoredAt(pi))
        BY <2>1 DEF UsableMapIsTrue
      <3>2. /\ ptr.valueid \in DOMAIN positions /\ chunk + 1 \in DOMAIN positions[ptr.valueid]
            /\ d = positions[ptr.valueid][chunk + 1] /\ d # Hole
        BY <1>2, <1>5
      <3>3. PICK v, k : v = ptr.valueid /\ k = chunk + 1 /\ k - 1 = chunk
        BY <1>3
      <3>4. v \in DOMAIN positions /\ k \in DOMAIN positions[v] /\ positions[v][k] # Hole
        BY ONLY <3>2, <3>3
      <3>5. PICK pi \in LiveChunks : /\ StoredAt(pi).id = v /\ StoredAt(pi).seq = k - 1
                                    /\ positions[v][k] = Location(pi[1], StoredAt(pi))
        BY ONLY <3>1, <3>4
      <3>6. d = Location(pi[1], StoredAt(pi))
        BY ONLY <3>2, <3>3, <3>5
      <3>7. StoredAt(pi).id = ptr.valueid
        BY ONLY <3>3, <3>5
      <3>8. StoredAt(pi).seq = chunk
        BY ONLY <3>3, <3>5
      <3> QED
        BY ONLY <3>5, <3>6, <3>7, <3>8
    <2>3. ASSUME Honest(StoredAt(pi)), NEW j \in DOMAIN StoredAt(pi).data
          PROVE  result'[pos + j] = StoredAt(pi).data[j]
      <3> DEFINE c == StoredAt(pi)
      <3>1. c.data \in Seq(Pglz!Byte)
        BY LivePlaces DEF FetchTyped
      <3>2. /\ Location(pi[1], c).second = Len(c.data)
            /\ \A i \in 1 .. Len(c.data) : FileByte(Location(pi[1], c).first + i - 1) = c.data[i]
        BY <2>3, PieceBytes DEF FetchTyped
      <3>3. d.second = Len(c.data)
            /\ \A i \in 1 .. Len(c.data) : FileByte(d.first + i - 1) = c.data[i]
        BY <2>2, <3>2
      <3> DEFINE l == Len(c.data)
      <3>4. l \in Nat /\ j \in 1 .. l
        BY <2>3, <3>1, LenProperties
      <3> HIDE DEF c, l
      <3>5. d.second = l /\ FileByte(d.first + j - 1) = c.data[j]
        BY <3>3, <3>4 DEF l
      <3>6. /\ pos + j \in 1 .. Len(result) /\ pos + j \in pos + 1 .. pos + n
            /\ d.first + (pos + j) - pos - 1 = d.first + j - 1
        BY <1>2, <1>3, <2>1, <3>4, <3>5
      <3>7. result'[pos + j] = FileByte(d.first + (pos + j) - pos - 1)
        BY <1>2, <1>3, <3>6
      <3> QED
        BY <3>5, <3>6, <3>7 DEF c
    <2> QED
      BY <2>2, <2>3
  <1> QED
    BY <1>2, <1>4, <1>5 DEF d

(* Whatever the file, whatever is damaged and whichever reads fail: no     *)
(* read of a fetch writes outside the place of its chunk in the buffer,    *)
(* and one that succeeds brings the bytes of a chunk with the id asked for *)
(* and the number whose turn it is, of an honest one exactly those.        *)
THEOREM ChunksArrive == FetchSpec => ChunkBytesArrive
  <1>1. MapTypeOK /\ UsableMapIsTrue /\ FetchInMap /\ FetchTyped /\ [FetchNext]_vars
          => [ChunkArrives]_vars
    BY ReadDelivers DEF ChunkArrives
  <1>2. FetchSpec => []UsableMapIsTrue
    BY FetchScans, UsableMapTrue, PTL
  <1> QED
    BY <1>1, <1>2, FetchesTyped, PTL DEF FetchSpec, ChunkBytesArrive

-----------------------------------------------------------------------------
(* The decoder on what was stored compressed.                              *)

LEMMA CallDecodes ==
  ASSUME NEW l \in StreamLists, NEW e \in Nat
  PROVE  Inflation!Call(Inflation!StreamCall(l, e))' => Inflation!Decoding(l)'
  <1>1. Inflation!Call(Inflation!StreamCall(l, e)) => Inflation!Decoding(l)
    BY Inflation!StreamCallDecodes, InflationAssumption
  <1> QED
    BY <1>1, PTL

LEMMA BeginsDecoding ==
  ASSUME NEW l \in StreamLists, NEW e \in Nat,
         BeginInflate([src     |-> Format!Encode(l),
                       srcend  |-> Len(Format!Encode(l)) + e,
                       rawsize |-> Len(Format!Expand(l))])
  PROVE  Inflation!Decoding(l)'
  <1>1. Inflation!Call(Inflation!StreamCall(l, e))' => Inflation!Decoding(l)'
    BY CallDecodes
  <1>2. Inflation!StreamCall(l, e) = [src     |-> Format!Encode(l),
                                      srcend  |-> Len(Format!Encode(l)) + e,
                                      rawsize |-> Len(Format!Expand(l))]
    BY FormatIsInflations DEF Inflation!StreamCall
  <1>3. Inflation!Call(Inflation!StreamCall(l, e))'
    BY <1>2 DEF BeginInflate, Inflation!Call
  <1> QED
    BY <1>1, <1>3

LEMMA KeepsDecoding ==
  ASSUME NEW l \in StreamLists, Inflation!Inv, Inflation!Decoding(l),
         Pglz!Step \/ UNCHANGED inflateVars
  PROVE  Inflation!Decoding(l)'
  <1>1. [Inflation!Next]_Inflation!vars
    BY StepsAreInflation DEF Inflation!Next, inflateVars, Inflation!vars
  <1>2. Inflation!Inv /\ Inflation!Decoding(l) /\ [Inflation!Next]_Inflation!vars
          => Inflation!Decoding(l)'
    BY Inflation!StepDecodes, InflationAssumption
  <1> QED
    BY <1>1, <1>2

LEMMA EndsDecoding ==
  ASSUME NEW l \in StreamLists, Inflation!Decoding(l)
  PROVE  /\ pc # "aborted" /\ pc # "gaveup"
         /\ pc = "returned" => [k \in 1 .. in.rawsize |-> dest[k - 1]] = Format!Expand(l)
  <1>1. pc \in Inflation!Final => pc = "returned" /\ Inflation!Output = Inflation!Format!Expand(l)
    BY Inflation!StreamEndsInText, InflationAssumption
  <1> QED
    BY <1>1, FormatIsInflations DEF Inflation!Final, Inflation!Output

-----------------------------------------------------------------------------
(* The fetch of an intact value over a stream that works.                  *)

Wanted == Store[ptr.valueid]
Pieces == PiecesIn(file, ptr.valueid)
SoFar(k) == Gathered(Pieces, k)

Serving == good /\ Intact(ptr.valueid)

MapReady == MapTypeOK /\ ScanComplete /\ ChunksAreEntered /\ FetchInMap /\ FetchTyped

LEMMA WantedTyped ==
  ASSUME ptr \in Pointers, Intact(ptr.valueid)
  PROVE  /\ Wanted.text \in Seq(Pglz!Byte) /\ Wanted.image \in Seq(Pglz!Byte)
         /\ Len(Wanted.text) \in Nat /\ Len(Wanted.image) \in Nat
         /\ Wanted.image # << >>
         /\ ptr.rawsize = VARHDRSZ + Len(Wanted.text) /\ ptr.extsize = Len(Wanted.image)
         /\ VARHDRSZ + Len(Wanted.image) < WordMod
         /\ ~ IsCompressed(ptr) => Wanted.image = Wanted.text
         /\ IsCompressed(ptr) =>
              /\ Wanted.items \in StreamLists
              /\ Wanted.text = Format!Expand(Wanted.items)
              /\ Len(Wanted.image) = RawSizeBytes + Len(Format!Encode(Wanted.items))
              /\ SubSeq(Wanted.image, RawSizeBytes + 1, Len(Wanted.image))
                   = Format!Encode(Wanted.items)
              /\ RawSize(<<0, 0, 0, 0>> \o Wanted.image) = Len(Wanted.text)
  <1>1. ptr.valueid \in DOMAIN Store
    BY DEF Intact, IntactIn
  <1>2. Wanted.text \in Seq(Pglz!Byte) /\ Wanted.image \in Seq(Pglz!Byte)
    BY <1>1, StoreAssumption DEF Wanted
  <1>3. Len(Wanted.text) \in Nat /\ Len(Wanted.image) \in Nat
    BY <1>2, LenProperties
  <1> QED
    BY <1>1, <1>2, <1>3, StoreAssumption DEF Wanted, StreamLists

(* Chunk k of a value that is served: what the map says of it, and what    *)
(* its place in the file shows.                                            *)
LEMMA ServedChunks ==
  ASSUME MapReady, scan = "done", Serving
  PROVE  LET n == Cardinality(Pieces)
         IN  /\ ptr.valueid \in DOMAIN positions
             /\ n \in Nat /\ Len(Datas) = n /\ SoFar(n) = Wanted.image
             /\ \A k \in 0 .. n - 1 :
                  LET d == Datas[k + 1]
                      b == Piece(Pieces, k).data
                  IN  /\ b \in Seq(Pglz!Byte)
                      /\ d.first \in Nat /\ d.second = Len(b)
                      /\ Available(d.first, d.second) = d.second
                      /\ \A j \in 1 .. Len(b) : FileByte(d.first + j - 1) = b[j]
  <1> DEFINE n == Cardinality(Pieces)
  <1>1. file \in Files /\ ptr \in Pointers /\ Intact(ptr.valueid) /\ good /\ MapTypeOK
    BY DEF MapReady, FetchTyped, Serving
  <1>2. /\ n \in Nat
        /\ \A k \in 0 .. n - 1 : /\ Piece(Pieces, k) \in Pieces
                                 /\ Piece(Pieces, k).data \in Seq(Pglz!Byte)
    BY <1>1, PiecesFacts DEF Pieces
  <1>3. Wanted.image # << >>
    BY <1>1, WantedTyped
  <1>4. /\ ptr.valueid \in DOMAIN positions /\ Len(positions[ptr.valueid]) = n
        /\ \A k \in 0 .. n - 1 :
             \E pi \in LiveChunks :
               /\ StoredAt(pi) = Piece(Pieces, k)
               /\ positions[ptr.valueid][k + 1] = Location(pi[1], Piece(Pieces, k))
    BY <1>1, <1>3, IntactEntries DEF Pieces, Wanted, MapReady
  <1>5. SoFar(n) = Wanted.image
    BY <1>1 DEF Intact, IntactIn, SoFar, Pieces, Wanted
  <1>6. \A c \in Pieces : Honest(c)
    BY <1>1 DEF Intact, IntactIn, Pieces
  <1>7. ASSUME NEW k \in 0 .. n - 1
        PROVE  LET d == Datas[k + 1]
                   b == Piece(Pieces, k).data
               IN  /\ b \in Seq(Pglz!Byte)
                   /\ d.first \in Nat /\ d.second = Len(b)
                   /\ Available(d.first, d.second) = d.second
                   /\ \A j \in 1 .. Len(b) : FileByte(d.first + j - 1) = b[j]
    <2>1. PICK pi \in LiveChunks :
            /\ StoredAt(pi) = Piece(Pieces, k)
            /\ Datas[k + 1] = Location(pi[1], StoredAt(pi))
      BY <1>4 DEF Datas
    <2>2. Honest(StoredAt(pi))
      BY <1>2, <1>6, <2>1
    <2> DEFINE d == Location(pi[1], StoredAt(pi))
    <2>3. /\ d.first \in Nat /\ d.second = Len(StoredAt(pi).data)
          /\ Available(d.first, d.second) = d.second
          /\ \A j \in 1 .. Len(StoredAt(pi).data) :
               FileByte(d.first + j - 1) = StoredAt(pi).data[j]
      BY <1>1, <2>2, PieceBytes
    <2> QED
      BY <1>2, <2>1, <2>3
  <1> QED
    BY <1>2, <1>4, <1>5, <1>7 DEF Datas

(* The bytes after k chunks begin the image; the next chunk's come next.   *)
LEMMA ServedBytes ==
  ASSUME MapReady, scan = "done", Serving
  PROVE  LET n == Cardinality(Pieces)
         IN  /\ \A k \in 0 .. n :
                  /\ Len(SoFar(k)) \in Nat /\ Len(SoFar(k)) <= Len(Wanted.image)
                  /\ \A x \in 1 .. Len(SoFar(k)) : Wanted.image[x] = SoFar(k)[x]
             /\ \A k \in 0 .. n - 1 :
                  LET b == Piece(Pieces, k).data
                  IN  /\ Len(SoFar(k + 1)) = Len(SoFar(k)) + Len(b)
                      /\ \A x \in 1 .. Len(b) : SoFar(k + 1)[Len(SoFar(k)) + x] = b[x]
  <1> DEFINE n == Cardinality(Pieces)
  <1>1. /\ n \in Nat /\ SoFar(n) = Wanted.image
        /\ \A k \in 0 .. n - 1 : Piece(Pieces, k).data \in Seq(Pglz!Byte)
    BY ServedChunks
  <1> HIDE DEF n
  <1>2. \A k \in 0 .. n :
          /\ SoFar(k) \in Seq(Pglz!Byte) /\ Len(SoFar(k)) <= Len(SoFar(n))
          /\ \A x \in 1 .. Len(SoFar(k)) : SoFar(n)[x] = SoFar(k)[x]
    BY <1>1, GatheredGrows DEF SoFar
  <1>3. ASSUME NEW k \in 0 .. n
        PROVE  Len(SoFar(k)) \in Nat
    BY <1>2, LenProperties
  <1>4. ASSUME NEW k \in 0 .. n - 1
        PROVE  LET b == Piece(Pieces, k).data
               IN  /\ Len(SoFar(k + 1)) = Len(SoFar(k)) + Len(b)
                   /\ \A x \in 1 .. Len(b) : SoFar(k + 1)[Len(SoFar(k)) + x] = b[x]
    <2>1. k \in Nat /\ k \in 0 .. n
      BY <1>1
    <2>2. SoFar(k) \in Seq(Pglz!Byte) /\ Piece(Pieces, k).data \in Seq(Pglz!Byte)
      BY <1>1, <1>2, <2>1
    <2> QED
      BY <2>1, <2>2, PieceAdds DEF SoFar
  <1> QED
    BY <1>1, <1>2, <1>3, <1>4 DEF n

RightAnswer(p, a) ==
  \/ a = Value(Store[p.valueid].text)
  \/ a = Thrown /\ IsCompressed(p) /\ StartsWithMarks(Store[p.valueid].text)

(* Where the fetch of an intact value is: the sizes of the chunks seen are *)
(* added up; their bytes are in the buffer; the decoder is on the stream   *)
(* that was stored; the answer is the right one.                           *)
FetchedRight ==
  /\ answer # NoAnswer => scan = "done"
  /\ Serving =>
       /\ phase \notin {"aborted", "undefined"}
       /\ phase \in {"size", "read"} => pos = VARHDRSZ + Len(SoFar(chunk))
       /\ phase = "read" =>
            /\ Len(result) = VARHDRSZ + Len(Wanted.image)
            /\ \A x \in 1 .. Len(SoFar(chunk)) : result[VARHDRSZ + x] = Wanted.image[x]
       /\ phase = "inflate" => IsCompressed(ptr) /\ Inflation!Decoding(Wanted.items)
       /\ phase = "idle" /\ answer # NoAnswer => RightAnswer(ptr, answer)

LEMMA SizeAdded ==
  ASSUME MapReady, scan = "done", Serving, FetchedRight, AddSize
  PROVE  pos' = VARHDRSZ + Len(SoFar(chunk + 1)) /\ chunk' = chunk + 1
  <1> DEFINE n == Cardinality(Pieces)
             d == Datas[chunk + 1]
             b == Piece(Pieces, chunk).data
  <1>1. phase = "size" /\ chunk \in Nat /\ chunk < Len(Datas)
    BY DEF AddSize, MapReady, FetchTyped
  <1>2. n \in Nat /\ Len(Datas) = n
    BY ServedChunks
  <1>3. chunk \in 0 .. n - 1 /\ chunk \in 0 .. n /\ chunk + 1 \in 0 .. n
    BY <1>1, <1>2
  <1>4. d.second = Len(b)
    BY <1>3, ServedChunks
  <1>5. /\ Len(SoFar(chunk)) \in Nat /\ Len(SoFar(chunk + 1)) \in Nat
        /\ Len(SoFar(chunk + 1)) <= Len(Wanted.image)
        /\ Len(SoFar(chunk + 1)) = Len(SoFar(chunk)) + Len(b)
    BY <1>3, ServedBytes
  <1>6. Len(b) \in Nat
    BY <1>3, ServedChunks, LenProperties
  <1>7. pos = VARHDRSZ + Len(SoFar(chunk)) /\ pos' = Word(pos + d.second)
    BY <1>1 DEF FetchedRight, AddSize
  <1>8. VARHDRSZ + Len(Wanted.image) < WordMod /\ Len(Wanted.image) \in Nat
    BY WantedTyped DEF MapReady, FetchTyped, Serving
  <1>9. WordMod \in Nat
    BY PageAssumption
  <1> HIDE DEF n, d, b
  <1>10. pos + d.second = VARHDRSZ + Len(SoFar(chunk + 1))
    BY <1>4, <1>5, <1>6, <1>7 DEF VARHDRSZ
  <1>11. \A m \in Nat : m < WordMod => Word(m) = m
    BY <1>9 DEF Word
  <1>12. /\ VARHDRSZ + Len(SoFar(chunk + 1)) \in Nat
         /\ VARHDRSZ + Len(SoFar(chunk + 1)) < WordMod
    BY <1>5, <1>8, <1>9 DEF VARHDRSZ
  <1>13. Word(VARHDRSZ + Len(SoFar(chunk + 1))) = VARHDRSZ + Len(SoFar(chunk + 1))
    BY <1>11, <1>12
  <1> QED
    BY <1>7, <1>10, <1>13 DEF AddSize

LEMMA NothingYet == Len(SoFar(0)) = 0
  BY OneMorePiece DEF SoFar

LEMMA BufferAllocated ==
  ASSUME MapReady, scan = "done", Serving, FetchedRight, Allocate
  PROVE  Len(result') = VARHDRSZ + Len(Wanted.image)
  <1>1. phase = "size" /\ chunk = Len(Datas) /\ result' = [k \in 1 .. pos |-> 0]
    BY DEF Allocate
  <1>2. pos = VARHDRSZ + Len(SoFar(chunk))
    BY <1>1 DEF FetchedRight
  <1>3. SoFar(chunk) = Wanted.image
    BY <1>1, ServedChunks
  <1>4. pos \in Nat
    BY DEF MapReady, FetchTyped
  <1>5. Len(result') = pos
    <2>1. result' \in [1 .. pos -> {0}]
      BY <1>1
    <2>2. result' \in Seq({0})
      BY <1>4, <2>1, SeqDef
    <2> QED
      BY <1>4, <2>1, <2>2, LenProperties
  <1> QED
    BY <1>2, <1>3, <1>5

LEMMA ChunkTaken ==
  ASSUME MapReady, scan = "done", Serving, FetchedRight,
         phase = "read", chunk < Len(Datas)
  PROVE  /\ pos + Datas[chunk + 1].second <= Len(result)
         /\ ReadChunk =>
              /\ pos' = VARHDRSZ + Len(SoFar(chunk + 1)) /\ chunk' = chunk + 1
              /\ Len(result') = Len(result)
              /\ \A x \in 1 .. Len(SoFar(chunk + 1)) : result'[VARHDRSZ + x] = Wanted.image[x]
  <1> DEFINE n == Cardinality(Pieces)
             d == Datas[chunk + 1]
             b == Piece(Pieces, chunk).data
             g == SoFar(chunk)
             h == SoFar(chunk + 1)
             w == Wanted.image
  <1>1. chunk \in Nat /\ result \in Seq(Pglz!Byte) /\ good
    BY DEF MapReady, FetchTyped, Serving
  <1>2. n \in Nat /\ Len(Datas) = n
    BY ServedChunks
  <1>3. chunk \in 0 .. n - 1 /\ chunk \in 0 .. n /\ chunk + 1 \in 0 .. n
    BY <1>1, <1>2
  <1>4. /\ b \in Seq(Pglz!Byte) /\ d.first \in Nat /\ d.second = Len(b)
        /\ Available(d.first, d.second) = d.second
        /\ \A j \in 1 .. Len(b) : FileByte(d.first + j - 1) = b[j]
    BY <1>3, ServedChunks
  <1>5. Len(b) \in Nat
    BY <1>4, LenProperties
  <1>6. /\ Len(g) \in Nat /\ Len(h) \in Nat /\ Len(h) <= Len(w) /\ Len(h) = Len(g) + Len(b)
        /\ \A x \in 1 .. Len(h) : w[x] = h[x]
        /\ \A x \in 1 .. Len(b) : h[Len(g) + x] = b[x]
    BY <1>3, ServedBytes
  <1>7. /\ pos = VARHDRSZ + Len(g) /\ Len(result) = VARHDRSZ + Len(w)
        /\ \A x \in 1 .. Len(g) : result[VARHDRSZ + x] = w[x]
    BY DEF FetchedRight
  <1>8. Len(w) \in Nat
    BY WantedTyped DEF MapReady, FetchTyped, Serving
  <1>9. DOMAIN result = 1 .. Len(result) /\ Len(result) \in Nat
    BY <1>1, LenProperties
  <1>a. MapTypeOK /\ FetchInMap /\ FetchTyped /\ good
    BY DEF MapReady, Serving
  <1>10. ReadChunk =>
           /\ result' = [k \in DOMAIN result |->
                           IF k \in pos + 1 .. pos + Len(b) THEN FileByte(d.first + k - pos - 1)
                                                            ELSE result[k]]
           /\ pos' = pos + d.second /\ chunk' = chunk + 1
    BY <1>a, <1>4, ReadInBuffer DEF ReadChunk
  <1> HIDE DEF n, d, b, g, h, w
  <1>11. pos + d.second <= Len(result)
    BY <1>4, <1>5, <1>6, <1>7, <1>8 DEF VARHDRSZ
  <1>12. ASSUME ReadChunk
         PROVE  /\ pos' = VARHDRSZ + Len(h) /\ chunk' = chunk + 1
                /\ Len(result') = Len(result)
                /\ \A x \in 1 .. Len(h) : result'[VARHDRSZ + x] = w[x]
    <2>1. pos' = VARHDRSZ + Len(h)
      BY <1>4, <1>5, <1>6, <1>7, <1>10, <1>12 DEF VARHDRSZ
    <2>2. DOMAIN result' = 1 .. Len(result)
      BY <1>9, <1>10, <1>12
    <2>3. Len(result') = Len(result)
      <3>1. MapReady /\ ReadChunk => result' \in Seq(Pglz!Byte)
        BY ReadTyped DEF MapReady
      <3>2. DOMAIN result' = 1 .. Len(result') /\ Len(result') \in Nat
        BY <1>12, <3>1, LenProperties
      <3> QED
        BY <1>9, <2>2, <3>2
    <2>4. ASSUME NEW x \in 1 .. Len(h)
          PROVE  result'[VARHDRSZ + x] = w[x]
      <3>1. VARHDRSZ + x \in DOMAIN result
        BY <1>6, <1>7, <1>8, <1>9 DEF VARHDRSZ
      <3>2. CASE x <= Len(g)
        <4>1. x \in 1 .. Len(g) /\ VARHDRSZ + x \notin pos + 1 .. pos + Len(b)
          BY <1>5, <1>6, <1>7, <3>2 DEF VARHDRSZ
        <4>2. result'[VARHDRSZ + x] = result[VARHDRSZ + x]
          BY <1>10, <1>12, <3>1, <4>1
        <4> QED
          BY <1>7, <4>1, <4>2
      <3>3. CASE ~ (x <= Len(g))
        <4> DEFINE j == x - Len(g)
        <4>1. /\ j \in 1 .. Len(b) /\ Len(g) + j = x
              /\ VARHDRSZ + x \in pos + 1 .. pos + Len(b)
              /\ d.first + (VARHDRSZ + x) - pos - 1 = d.first + j - 1
          BY <1>4, <1>5, <1>6, <1>7, <3>3 DEF VARHDRSZ
        <4> HIDE DEF j
        <4>2. result'[VARHDRSZ + x] = FileByte(d.first + j - 1)
          BY <1>10, <1>12, <3>1, <4>1
        <4>3. FileByte(d.first + j - 1) = b[j] /\ h[Len(g) + j] = b[j]
          BY <1>4, <1>6, <4>1
        <4> QED
          BY <1>6, <4>1, <4>2, <4>3
      <3> QED
        BY <3>2, <3>3
    <2> QED
      BY <1>10, <1>12, <2>1, <2>3, <2>4
  <1> QED
    BY <1>11, <1>12 DEF d, h, w

(* A sequence that ends in another one has its ends.                       *)
LEMMA SameEnds ==
  ASSUME NEW S, NEW s \in Seq(S), NEW w \in Seq(S), NEW h \in Nat, NEW m \in Nat,
         Len(s) = h + Len(w), m <= Len(w),
         \A x \in 1 .. Len(w) : s[h + x] = w[x]
  PROVE  /\ SubSeq(s, h + m + 1, Len(s)) = SubSeq(w, m + 1, Len(w))
         /\ SubSeq(w, 1, Len(w)) = w
  <1>1. Len(w) \in Nat /\ Len(s) \in Nat
    BY LenProperties
  <1>2. /\ \A i \in 1 .. Len(s) : s[i] \in S
        /\ \A i \in 1 .. Len(w) : w[i] \in S
    BY ElementOfSeq
  <1> DEFINE a == SubSeq(s, h + m + 1, Len(s))
             b == SubSeq(w, m + 1, Len(w))
             c == SubSeq(w, 1, Len(w))
             l == Len(w) - m
  <1>3. /\ a \in Seq(S) /\ Len(a) = l
        /\ \A i \in 1 .. l : a[i] = s[(h + m + 1) + i - 1]
    <2>1. \A i \in h + m + 1 .. Len(s) : s[i] \in S
      BY <1>1, <1>2
    <2>2. /\ a \in Seq(S) /\ Len(a) = IF h + m + 1 <= Len(s) THEN Len(s) - (h + m + 1) + 1 ELSE 0
          /\ \A i \in 1 .. Len(s) - (h + m + 1) + 1 : a[i] = s[(h + m + 1) + i - 1]
      BY <1>1, <2>1, SubSeqProperties
    <2> HIDE DEF a
    <2>3. Len(s) - (h + m + 1) + 1 = l /\ (~ (h + m + 1 <= Len(s)) => l = 0)
      BY <1>1
    <2> QED
      BY <2>2, <2>3
  <1>4. /\ b \in Seq(S) /\ Len(b) = l
        /\ \A i \in 1 .. l : b[i] = w[(m + 1) + i - 1]
    <2>1. \A i \in m + 1 .. Len(w) : w[i] \in S
      BY <1>1, <1>2
    <2>2. /\ b \in Seq(S) /\ Len(b) = IF m + 1 <= Len(w) THEN Len(w) - (m + 1) + 1 ELSE 0
          /\ \A i \in 1 .. Len(w) - (m + 1) + 1 : b[i] = w[(m + 1) + i - 1]
      BY <1>1, <2>1, SubSeqProperties
    <2> HIDE DEF b
    <2>3. Len(w) - (m + 1) + 1 = l /\ (~ (m + 1 <= Len(w)) => l = 0)
      BY <1>1
    <2> QED
      BY <2>2, <2>3
  <1>5. /\ c \in Seq(S) /\ Len(c) = Len(w)
        /\ \A i \in 1 .. Len(w) : c[i] = w[i]
    <2>1. /\ c \in Seq(S) /\ Len(c) = IF 1 <= Len(w) THEN Len(w) - 1 + 1 ELSE 0
          /\ \A i \in 1 .. Len(w) - 1 + 1 : c[i] = w[1 + i - 1]
      BY <1>1, <1>2, SubSeqProperties
    <2> HIDE DEF c
    <2>2. Len(w) - 1 + 1 = Len(w) /\ (~ (1 <= Len(w)) => Len(w) = 0)
          /\ \A i \in 1 .. Len(w) : 1 + i - 1 = i
      BY <1>1
    <2> QED
      BY <2>1, <2>2
  <1> HIDE DEF a, b, c
  <1>6. ASSUME NEW i \in 1 .. l
        PROVE  a[i] = b[i]
    <2>1. m + i \in 1 .. Len(w) /\ (h + m + 1) + i - 1 = h + (m + i) /\ (m + 1) + i - 1 = m + i
      BY <1>1
    <2> QED
      BY <1>3, <1>4, <2>1
  <1>7. a = b
    BY <1>3, <1>4, <1>6, SeqEqual
  <1>8. c = w
    BY <1>5, SeqEqual
  <1> QED
    BY <1>7, <1>8 DEF a, b, c

LEMMA BufferIsImage ==
  ASSUME MapReady, scan = "done", Serving, FetchedRight, ChunksRead
  PROVE  /\ result \in Seq(Pglz!Byte) /\ Len(result) = VARHDRSZ + Len(Wanted.image)
         /\ \A x \in 1 .. Len(Wanted.image) : result[VARHDRSZ + x] = Wanted.image[x]
         /\ Toss(result) = Wanted.image
  <1>1. phase = "read" /\ chunk = Len(Datas)
    BY DEF ChunksRead
  <1>2. SoFar(chunk) = Wanted.image
    BY <1>1, ServedChunks
  <1>3. /\ result \in Seq(Pglz!Byte) /\ Len(result) = VARHDRSZ + Len(Wanted.image)
        /\ \A x \in 1 .. Len(Wanted.image) : result[VARHDRSZ + x] = Wanted.image[x]
    BY <1>1, <1>2 DEF MapReady, FetchTyped, FetchedRight
  <1>4. Wanted.image \in Seq(Pglz!Byte) /\ Len(Wanted.image) \in Nat
    BY WantedTyped DEF MapReady, FetchTyped, Serving
  <1>5. /\ SubSeq(result, VARHDRSZ + 0 + 1, Len(result))
             = SubSeq(Wanted.image, 0 + 1, Len(Wanted.image))
        /\ SubSeq(Wanted.image, 1, Len(Wanted.image)) = Wanted.image
    <2>1. VARHDRSZ \in Nat /\ 0 \in Nat /\ 0 <= Len(Wanted.image)
      BY <1>4 DEF VARHDRSZ
    <2> QED
      BY ONLY <1>3, <1>4, <2>1, SameEnds
  <1>6. VARHDRSZ + 0 + 1 = VARHDRSZ + 1 /\ 0 + 1 = 1
    BY DEF VARHDRSZ
  <1> QED
    BY <1>3, <1>5, <1>6 DEF Toss

(* Only the four bytes after the header count.                             *)
LEMMA RawSizeOfBytes ==
  ASSUME NEW a, NEW b, \A k \in 1 .. 4 : a[VARHDRSZ + k] = b[VARHDRSZ + k]
  PROVE  RawSize(a) = RawSize(b)
  <1>1. /\ a[VARHDRSZ + 1] = b[VARHDRSZ + 1] /\ a[VARHDRSZ + 2] = b[VARHDRSZ + 2]
        /\ a[VARHDRSZ + 3] = b[VARHDRSZ + 3] /\ a[VARHDRSZ + 4] = b[VARHDRSZ + 4]
    OBVIOUS
  <1> QED
    BY <1>1 DEF RawSize

LEMMA StreamInBuffer ==
  ASSUME MapReady, scan = "done", Serving, FetchedRight, ChunksRead, IsCompressed(ptr)
  PROVE  /\ Wanted.items \in StreamLists /\ Len(result) >= PGLZ_Header
         /\ RawSize(result) = Len(Wanted.text)
         /\ \E e \in Nat :
              InflateCall(ptr, result) =
                [src     |-> Format!Encode(Wanted.items),
                 srcend  |-> Len(Format!Encode(Wanted.items)) + e,
                 rawsize |-> Len(Format!Expand(Wanted.items))]
  <1> DEFINE w == Wanted.image
             t == Wanted.text
             stream == Format!Encode(Wanted.items)
             zeros == <<0, 0, 0, 0>>
  <1>1. /\ w \in Seq(Pglz!Byte) /\ Len(w) \in Nat /\ Len(t) \in Nat
        /\ ptr.rawsize = VARHDRSZ + Len(t) /\ ptr.extsize = Len(w)
        /\ Wanted.items \in StreamLists /\ t = Format!Expand(Wanted.items)
        /\ Len(w) = RawSizeBytes + Len(stream)
        /\ SubSeq(w, RawSizeBytes + 1, Len(w)) = stream
        /\ RawSize(zeros \o w) = Len(t)
    BY WantedTyped DEF MapReady, FetchTyped, Serving
  <1>2. /\ result \in Seq(Pglz!Byte) /\ Len(result) = VARHDRSZ + Len(w)
        /\ \A x \in 1 .. Len(w) : result[VARHDRSZ + x] = w[x]
    BY BufferIsImage
  <1>3. Len(stream) \in Nat
    <2>1. \A i \in RawSizeBytes + 1 .. Len(w) : w[i] \in Pglz!Byte
      BY <1>1, ElementOfSeq DEF RawSizeBytes
    <2>2. SubSeq(w, RawSizeBytes + 1, Len(w)) \in Seq(Pglz!Byte)
      BY <1>1, <2>1, SubSeqProperties DEF RawSizeBytes
    <2> QED
      BY <1>1, <2>2, LenProperties
  <1>4. Len(w) < Len(t)
    <2>1. ptr.extsize < ptr.rawsize - VARHDRSZ
      BY DEF IsCompressed
    <2> HIDE DEF w, t
    <2> QED
      BY <1>1, <2>1 DEF VARHDRSZ
  <1>5. RawSize(result) = RawSize(zeros \o w)
    <2>1. 0 \in Pglz!Byte
      BY PglzAssumption DEF Pglz!Byte
    <2>2. zeros \in Seq(Pglz!Byte) /\ Len(zeros) = 4
      BY <2>1
    <2> HIDE DEF zeros, w
    <2>3. \A i \in 1 .. Len(zeros) + Len(w) :
            (zeros \o w)[i] = IF i <= Len(zeros) THEN zeros[i] ELSE w[i - Len(zeros)]
      <3>1. w \in Seq(Pglz!Byte) /\ zeros \in Seq(Pglz!Byte)
        BY <1>1, <2>2
      <3> QED
        BY ONLY <3>1, ConcatProperties
    <2>4. ASSUME NEW k \in 1 .. 4
          PROVE  result[VARHDRSZ + k] = (zeros \o w)[VARHDRSZ + k]
      <3>1. /\ k \in 1 .. Len(w) /\ VARHDRSZ + k \in 1 .. Len(zeros) + Len(w)
            /\ ~ (VARHDRSZ + k <= Len(zeros)) /\ (VARHDRSZ + k) - Len(zeros) = k
        BY ONLY <1>1, <1>3, <2>2, k \in 1 .. 4 DEF VARHDRSZ, RawSizeBytes
      <3> QED
        BY <1>2, <2>3, <3>1
    <2> QED
      BY <2>4, RawSizeOfBytes
  <1>6. SubSeq(result, PGLZ_Header + 1, Len(result)) = stream
    <2>1. VARHDRSZ \in Nat /\ RawSizeBytes \in Nat /\ RawSizeBytes <= Len(w)
      BY <1>1, <1>3 DEF VARHDRSZ, RawSizeBytes
    <2> HIDE DEF w, stream
    <2>2. w \in Seq(Pglz!Byte)
      BY <1>1
    <2>3. SubSeq(result, VARHDRSZ + RawSizeBytes + 1, Len(result))
            = SubSeq(w, RawSizeBytes + 1, Len(w))
      <3> DEFINE h == VARHDRSZ
                 m == RawSizeBytes
      <3>1. /\ h \in Nat /\ m \in Nat /\ m <= Len(w) /\ Len(result) = h + Len(w)
            /\ \A x \in 1 .. Len(w) : result[h + x] = w[x]
        BY ONLY <1>2, <2>1
      <3>2. result \in Seq(Pglz!Byte)
        BY <1>2
      <3> HIDE DEF h, m
      <3>3. SubSeq(result, h + m + 1, Len(result)) = SubSeq(w, m + 1, Len(w))
        BY ONLY <2>2, <3>1, <3>2, SameEnds
      <3> QED
        BY ONLY <3>3 DEF h, m
    <2> QED
      BY <1>1, <2>3 DEF PGLZ_Header
  <1> DEFINE e == Len(t) - Len(w)
  <1>7. e \in Nat /\ ptr.rawsize - PGLZ_Header = Len(stream) + e
    <2> HIDE DEF w, t, stream
    <2> QED
      BY <1>1, <1>3, <1>4 DEF PGLZ_Header, VARHDRSZ, RawSizeBytes
  <1>8. Len(result) >= PGLZ_Header
    <2> HIDE DEF w, stream
    <2> QED
      BY <1>1, <1>2, <1>3 DEF PGLZ_Header, VARHDRSZ, RawSizeBytes
  <1>9. InflateCall(ptr, result) =
          [src |-> stream, srcend |-> Len(stream) + e, rawsize |-> Len(t)]
    <2> HIDE DEF w, t, stream, e
    <2> QED
      BY <1>1, <1>5, <1>6, <1>7 DEF InflateCall, HeaderSize
  <1> QED
    BY <1>1, <1>5, <1>7, <1>8, <1>9

(* What the decoder hands back of a value that is served.                  *)
LEMMA InflatedIsText ==
  ASSUME MapReady, Serving, FetchedRight, phase = "inflate"
  PROVE  /\ pc # "aborted"
         /\ Inflated => Value([k \in 1 .. in.rawsize |-> dest[k - 1]]) = Value(Wanted.text)
         /\ Inflated /\ LooksCorrupted => IsCompressed(ptr) /\ StartsWithMarks(Wanted.text)
  <1>1. ptr \in Pointers /\ Intact(ptr.valueid)
    BY DEF MapReady, FetchTyped, Serving
  <1>2. IsCompressed(ptr) /\ Inflation!Decoding(Wanted.items)
    BY DEF FetchedRight
  <1>3. /\ Wanted.items \in StreamLists /\ Wanted.text = Format!Expand(Wanted.items)
        /\ Len(Wanted.text) \in Nat /\ Len(Wanted.image) \in Nat /\ Wanted.image # << >>
        /\ Wanted.image \in Seq(Pglz!Byte)
        /\ ptr.rawsize = VARHDRSZ + Len(Wanted.text) /\ ptr.extsize = Len(Wanted.image)
    BY <1>1, <1>2, WantedTyped
  <1>4. /\ pc # "aborted" /\ pc # "gaveup"
        /\ pc = "returned" => [k \in 1 .. in.rawsize |-> dest[k - 1]] = Wanted.text
    BY <1>2, <1>3, EndsDecoding
  <1>5. Len(Wanted.text) >= 2
    <2>1. Len(Wanted.image) # 0
      BY <1>3, EmptySeq
    <2>2. ptr.extsize < ptr.rawsize - VARHDRSZ
      BY <1>2 DEF IsCompressed
    <2> QED
      BY <1>3, <2>1, <2>2 DEF VARHDRSZ
  <1>6. ASSUME Inflated, LooksCorrupted
        PROVE  StartsWithMarks(Wanted.text)
    <2>1. Wanted.text = [k \in 1 .. in.rawsize |-> dest[k - 1]]
      BY <1>4, <1>6 DEF Inflated
    <2>2. Wanted.text \in Seq(Pglz!Byte)
      BY <1>1, WantedTyped
    <2>3. 1 \in DOMAIN Wanted.text /\ 2 \in DOMAIN Wanted.text
      BY <1>3, <1>5, <2>2, LenProperties
    <2>4. Wanted.text[1] = dest[1 - 1] /\ Wanted.text[2] = dest[2 - 1]
      BY <2>1, <2>3
    <2>5. dest[1 - 1] = dest[0] /\ dest[2 - 1] = dest[1]
      OBVIOUS
    <2> QED
      BY <1>5, <1>6, <2>4, <2>5 DEF LooksCorrupted, StartsWithMarks
  <1> QED
    BY <1>2, <1>4, <1>6 DEF Inflated

LEMMA SameFetch ==
  ASSUME UNCHANGED <<file, ptr>>
  PROVE  /\ Wanted' = Wanted /\ Pieces' = Pieces
         /\ Intact(ptr.valueid)' = Intact(ptr.valueid)
  BY DEF Wanted, Pieces, Intact

(* The steps of a fetch leave the map and the question alone.              *)
LEMMA FetchFrame ==
  ASSUME FetchStep
  PROVE  /\ UNCHANGED <<scanVars, ptr>> /\ (good' => good)
         /\ phase \notin {"idle", "aborted", "undefined"}
  <1>1. CASE ReadChunk
    <2>1. UNCHANGED <<scanVars, ptr>> /\ phase = "read"
      BY <1>1 DEF ReadChunk
    <2>2. good' => good
      <3>1. \E n : good' = (good /\ n)
        BY <1>1 DEF ReadChunk
      <3> QED
        BY <3>1
    <2> QED
      BY <2>1, <2>2
  <1>2. CASE AddSize \/ Allocate \/ ChunkTooLong \/ StartInflate \/ NoRawSize \/ InflateAborts
    BY <1>2 DEF AddSize, Allocate, ChunkTooLong, StartInflate, NoRawSize, InflateAborts,
       ChunksRead, Inflatable, mapVars
  <1>3. CASE ReturnPlain \/ NegativeRawSize \/ ReturnInflated \/ ThrowCorrupted
    BY <1>3 DEF ReturnPlain, NegativeRawSize, ReturnInflated, ThrowCorrupted, Leave, ChunksRead,
       Inflatable, Inflated, mapVars
  <1>4. CASE Inflate
    BY <1>4 DEF Inflate, mapVars, fetchVars
  <1> QED
    BY <1>1, <1>2, <1>3, <1>4 DEF FetchStep

LEMMA StepFetchedRight == MapReady /\ FetchedRight /\ [FetchNext]_vars => FetchedRight'
  <1> SUFFICES ASSUME MapReady, FetchedRight, [FetchNext]_vars
               PROVE  FetchedRight'
    OBVIOUS
  <1>1. CASE Scan
    <2>1. scan # "done" /\ phase = "idle" /\ UNCHANGED fetchVars
      BY <1>1 DEF Scan, fetchVars, MapReady, FetchInMap, PhaseAfterScan, MapStep, Misfit, Open,
                  ReadPage, ReadFails, BadCount, OffPage, SkipItem, NullAttribute, AddChunk,
                  SeqWraps, NextPage, ScanDone, AtPage, AtItem, AtChunk, Stop
    <2>2. phase' = "idle" /\ answer' = NoAnswer'
      BY <2>1 DEF FetchedRight, fetchVars, NoAnswer
    <2> QED
      BY <2>2 DEF FetchedRight
  <1>2. ASSUME NEW p \in Pointers, Fetch(p)
        PROVE  FetchedRight'
    <2>1. scan' = "done" /\ phase' = "size" /\ pos' = VARHDRSZ /\ chunk' = 0 /\ answer' = NoAnswer
      BY <1>2 DEF Fetch, mapVars, scanVars
    <2>2. Gathered(Pieces', chunk') = << >>
      BY <2>1, OneMorePiece
    <2>3. pos' = VARHDRSZ + Len(Gathered(Pieces', chunk'))
      BY <2>1, <2>2 DEF VARHDRSZ
    <2> QED
      BY <2>1, <2>3 DEF FetchedRight, SoFar
  <1>3. ASSUME NEW p \in Pointers, FetchUnknown(p)
        PROVE  FetchedRight'
    <2>1. /\ scan' = "done" /\ scan = "done" /\ UNCHANGED <<file, good>> /\ ptr' = p
          /\ p.valueid \notin DOMAIN positions
      BY <1>3 DEF FetchUnknown, mapVars, scanVars
    <2>2. ASSUME Serving'
          PROVE  FALSE
      <3>1. good /\ Intact(p.valueid)
        BY <2>1, <2>2 DEF Serving, Intact
      <3>2. p.valueid \in DOMAIN Store
        BY <3>1 DEF Intact, IntactIn
      <3>3. Store[p.valueid].image # << >>
        BY <3>2, StoreAssumption
      <3>4. file \in Files
        BY DEF MapReady, FetchTyped
      <3>5. p.valueid \in DOMAIN positions
        BY <2>1, <3>1, <3>3, <3>4, IntactEntries DEF MapReady
      <3> QED
        BY <2>1, <3>5
    <2> QED
      BY <2>1, <2>2 DEF FetchedRight
  <1>4. CASE UNCHANGED vars
    <2>1. UNCHANGED <<file, ptr, good, scan, phase, pos, chunk, result, answer, inflateVars>>
      BY <1>4 DEF vars, mapVars, scanVars, fetchVars
    <2>2. /\ Wanted' = Wanted /\ Pieces' = Pieces
          /\ Intact(ptr.valueid)' = Intact(ptr.valueid)
      BY <2>1, SameFetch
    <2>3. Serving' => Serving
      BY <2>1, <2>2 DEF Serving
    <2>4. Inflation!Decoding(Wanted.items) /\ IsCompressed(ptr) /\ Serving /\ phase = "inflate"
            => Inflation!Decoding(Wanted.items)'
      <3> SUFFICES ASSUME Inflation!Decoding(Wanted.items), IsCompressed(ptr), Serving,
                          phase = "inflate"
                   PROVE  Inflation!Decoding(Wanted.items)'
        OBVIOUS
      <3>1. PICK l \in StreamLists : l = Wanted.items
        BY WantedTyped DEF Serving, MapReady, FetchTyped
      <3>2. Inflation!Decoding(l)'
        BY <2>1, <3>1, KeepsDecoding DEF MapReady, FetchTyped
      <3> QED
        BY <2>2, <3>1, <3>2
    <2> QED
      BY <2>1, <2>2, <2>3, <2>4 DEF FetchedRight, SoFar, RightAnswer, IsCompressed
  <1>5. CASE FetchStep
    <2>1. /\ UNCHANGED <<file, positions, scan, ptr>> /\ (good' => good) /\ scan = "done"
          /\ phase \notin {"idle", "aborted", "undefined"}
      BY <1>5, FetchFrame DEF scanVars, MapReady, FetchInMap, PhaseAfterScan
    <2>2. /\ Wanted' = Wanted /\ Pieces' = Pieces
          /\ Intact(ptr.valueid)' = Intact(ptr.valueid)
      BY <2>1, SameFetch
    <2> SUFFICES ASSUME Serving'
                 PROVE  FetchedRight'
      BY <2>1 DEF FetchedRight
    <2>3. Serving
      BY <2>1, <2>2 DEF Serving
    <2>4. CASE AddSize
      <3>1. pos' = VARHDRSZ + Len(SoFar(chunk + 1)) /\ chunk' = chunk + 1 /\ phase' = "size"
        BY <2>1, <2>3, <2>4, SizeAdded DEF AddSize
      <3> QED
        BY <2>1, <2>2, <3>1 DEF FetchedRight, SoFar
    <2>5. CASE Allocate
      <3>1. pos' = VARHDRSZ /\ chunk' = 0 /\ phase' = "read"
        BY <2>5 DEF Allocate
      <3>2. Len(result') = VARHDRSZ + Len(Wanted.image)
        BY <2>1, <2>3, <2>5, BufferAllocated
      <3>3. Len(Gathered(Pieces', chunk')) = 0
        BY <3>1, OneMorePiece
      <3>4. pos' = VARHDRSZ + Len(Gathered(Pieces', chunk'))
        BY <3>1, <3>3 DEF VARHDRSZ
      <3> QED
        BY <2>1, <2>2, <3>1, <3>2, <3>3, <3>4 DEF FetchedRight, SoFar
    <2>6. CASE ReadChunk
      <3>1. phase = "read" /\ phase' = "read" /\ chunk < Len(Datas)
        BY <2>6 DEF ReadChunk
      <3>2. /\ pos' = VARHDRSZ + Len(SoFar(chunk + 1)) /\ chunk' = chunk + 1
            /\ Len(result') = Len(result)
            /\ \A x \in 1 .. Len(SoFar(chunk + 1)) : result'[VARHDRSZ + x] = Wanted.image[x]
        BY <2>1, <2>3, <2>6, <3>1, ChunkTaken
      <3>3. Len(result) = VARHDRSZ + Len(Wanted.image)
        BY <2>3, <3>1 DEF FetchedRight
      <3> QED
        BY <2>1, <2>2, <3>1, <3>2, <3>3 DEF FetchedRight, SoFar
    <2>7. ~ ChunkTooLong
      <3> SUFFICES ASSUME ChunkTooLong
                   PROVE  FALSE
        OBVIOUS
      <3>1. /\ phase = "read" /\ chunk < Len(Datas)
            /\ pos + Datas[chunk + 1].second > Len(result)
        BY DEF ChunkTooLong
      <3>2. pos + Datas[chunk + 1].second <= Len(result)
        BY <2>1, <2>3, <3>1, ChunkTaken
      <3>3. pos + Datas[chunk + 1].second \in Int /\ Len(result) \in Int
        <4>1. Len(result) \in Nat /\ pos \in Nat /\ chunk \in Nat
          BY LenProperties DEF MapReady, FetchTyped
        <4>2. Cardinality(Pieces) \in Nat /\ Len(Datas) = Cardinality(Pieces)
          BY <2>1, <2>3, ServedChunks
        <4>3. chunk \in 0 .. Cardinality(Pieces) - 1
          BY <3>1, <4>1, <4>2
        <4>4. Piece(Pieces, chunk).data \in Seq(Pglz!Byte)
              /\ Datas[chunk + 1].second = Len(Piece(Pieces, chunk).data)
          BY <2>1, <2>3, <4>3, ServedChunks
        <4>5. Datas[chunk + 1].second \in Nat
          BY <4>4, LenProperties
        <4> QED
          BY <4>1, <4>5
      <3> QED
        BY <3>1, <3>2, <3>3
    <2>8. CASE ReturnPlain
      <3>1. Toss(result) = Wanted.image /\ Wanted.image = Wanted.text
        BY <2>1, <2>3, <2>8, BufferIsImage, WantedTyped
        DEF ReturnPlain, MapReady, FetchTyped, Serving
      <3>2. phase' = "idle" /\ answer' = Value(Wanted.text)
        BY <2>8, <3>1 DEF ReturnPlain, Leave
      <3> QED
        BY <2>1, <3>2 DEF FetchedRight, RightAnswer, Wanted
    <2>9. CASE StartInflate
      <3>1. ChunksRead /\ IsCompressed(ptr) /\ phase' = "inflate"
            /\ BeginInflate(InflateCall(ptr, result))
        BY <2>9 DEF StartInflate, Inflatable
      <3>2. /\ Wanted.items \in StreamLists
            /\ \E e \in Nat :
                 InflateCall(ptr, result) =
                   [src     |-> Format!Encode(Wanted.items),
                    srcend  |-> Len(Format!Encode(Wanted.items)) + e,
                    rawsize |-> Len(Format!Expand(Wanted.items))]
        BY <2>1, <2>3, <3>1, StreamInBuffer
      <3>3. PICK l \in StreamLists : l = Wanted.items
        BY <3>2
      <3>4. PICK e \in Nat :
              InflateCall(ptr, result) =
                [src     |-> Format!Encode(l),
                 srcend  |-> Len(Format!Encode(l)) + e,
                 rawsize |-> Len(Format!Expand(l))]
        BY <3>2, <3>3
      <3>5. Inflation!Decoding(l)'
        BY <3>1, <3>4, BeginsDecoding
      <3>6. Inflation!Decoding(Wanted.items)'
        BY <2>2, <3>3, <3>5
      <3> QED
        BY <2>1, <3>1, <3>6 DEF FetchedRight, IsCompressed
    <2>10. ~ NegativeRawSize /\ ~ NoRawSize
      <3> SUFFICES ASSUME ChunksRead, IsCompressed(ptr),
                          (Len(result) >= PGLZ_Header /\ RawSize(result) < 0)
                            \/ Len(result) < PGLZ_Header
                   PROVE  FALSE
        BY DEF NegativeRawSize, NoRawSize, Inflatable
      <3>1. /\ Len(result) >= PGLZ_Header /\ RawSize(result) = Len(Wanted.text)
        BY <2>1, <2>3, StreamInBuffer
      <3>2. Len(Wanted.text) \in Nat /\ Len(result) \in Nat /\ PGLZ_Header \in Nat
        BY <2>3, WantedTyped, LenProperties
        DEF MapReady, FetchTyped, Serving, PGLZ_Header, VARHDRSZ, RawSizeBytes
      <3> QED
        BY <3>1, <3>2
    <2>11. CASE Inflate
      <3>1. /\ phase = "inflate" /\ phase' = "inflate" /\ Pglz!Step /\ Inflation!Inv
            /\ IsCompressed(ptr) /\ Inflation!Decoding(Wanted.items)
        BY <2>3, <2>11 DEF Inflate, fetchVars, FetchedRight, MapReady, FetchTyped
      <3>2. PICK l \in StreamLists : l = Wanted.items
        BY <2>3, <3>1, WantedTyped DEF Serving, MapReady, FetchTyped
      <3>3. Inflation!Decoding(l)'
        BY <3>1, <3>2, KeepsDecoding
      <3>4. Inflation!Decoding(Wanted.items)'
        BY <2>2, <3>2, <3>3
      <3> QED
        BY <2>1, <3>1, <3>4 DEF FetchedRight, IsCompressed
    <2>12. CASE ReturnInflated
      <3>1. phase = "inflate" /\ Inflated /\ phase' = "idle"
            /\ answer' = Value([k \in 1 .. in.rawsize |-> dest[k - 1]])
        BY <2>12 DEF ReturnInflated, Inflated, Leave
      <3>2. answer' = Value(Wanted.text)
        BY <2>3, <3>1, InflatedIsText
      <3> QED
        BY <2>1, <3>1, <3>2 DEF FetchedRight, RightAnswer, Wanted
    <2>13. CASE ThrowCorrupted
      <3>1. phase = "inflate" /\ Inflated /\ LooksCorrupted /\ phase' = "idle"
            /\ answer' = Thrown
        BY <2>13 DEF ThrowCorrupted, Inflated, Leave
      <3>2. IsCompressed(ptr) /\ StartsWithMarks(Wanted.text)
        BY <2>3, <3>1, InflatedIsText
      <3> QED
        BY <2>1, <3>1, <3>2 DEF FetchedRight, RightAnswer, Wanted, IsCompressed
    <2>14. ~ InflateAborts
      BY <2>3, InflatedIsText DEF InflateAborts
    <2> QED
      BY <1>5, <2>4, <2>5, <2>6, <2>7, <2>8, <2>9, <2>10, <2>11, <2>12, <2>13, <2>14 DEF FetchStep
  <1> QED
    BY <1>1, <1>2, <1>3, <1>4, <1>5 DEF FetchNext, Request, Ended

LEMMA InitFetchedRight == FetchInit => FetchedRight
  BY DEF FetchInit, FetchedRight

LEMMA FetchesRight == FetchSpec => [](MapReady /\ FetchedRight)
  <1>1. FetchSpec => [](MapTypeOK /\ ScanComplete)
    <2>1. MapSpec => [](MapTypeOK /\ ScanComplete)
      BY ScanTyped, InitComplete, StepComplete, PTL DEF MapSpec
    <2> QED
      BY <2>1, FetchScans, PTL
  <1>2. FetchSpec => []ChunksAreEntered
    BY FetchScans, NothingLost, PTL
  <1>3. FetchSpec => []MapReady
    <2>1. (MapTypeOK /\ ScanComplete) /\ ChunksAreEntered /\ (MapTypeOK /\ FetchInMap /\ FetchTyped)
            => MapReady
      BY DEF MapReady
    <2> QED
      BY <1>1, <1>2, <2>1, FetchesTyped, PTL
  <1> QED
    BY <1>3, InitFetchedRight, StepFetchedRight, PTL DEF FetchSpec

(* Whatever else is damaged in the file, whatever was fetched before and   *)
(* in whatever order the chunks lie: an intact value is answered by the    *)
(* text that was stored, unless that text begins as the output of a        *)
(* decoder that gave up does.                                              *)
THEOREM IntactIsFetched == FetchSpec => []IntactValueFetched
  <1>1. FetchedRight => IntactValueFetched
    BY DEF FetchedRight, IntactValueFetched, Answered, Serving, RightAnswer
  <1> QED
    BY <1>1, FetchesRight, PTL

-----------------------------------------------------------------------------
(* Filling the map and fetching implement the lookup the dump relies on.   *)

LEMMA IntactIsKnown ==
  ASSUME MapReady, scan = "done", good, NEW p \in Pointers, Intact(p.valueid)
  PROVE  p.valueid \in DOMAIN positions
  <1>1. p.valueid \in DOMAIN Store
    BY DEF Intact, IntactIn
  <1>2. Store[p.valueid].image # << >>
    BY <1>1, StoreAssumption
  <1> QED
    BY <1>2, IntactEntries DEF MapReady, FetchTyped

LEMMA ChunkThere ==
  ASSUME NEW q \in 0 .. Len(file.pages) - 1, NEW i \in 0 .. Len(file.pages[q + 1].linp) - 1,
         i < ItemIdCount(file.pages[q + 1]), Followed(TupleAt(file, <<q, i>>))
  PROVE  <<q, i>> \in ChunksIn(file)
  <1> DEFINE Places(p) == {<<p, k>> : k \in {j \in 0 .. Len(file.pages[p + 1].linp) - 1 :
                                             /\ j < ItemIdCount(file.pages[p + 1])
                                             /\ Followed(TupleAt(file, <<p, j>>))}}
  <1>1. <<q, i>> \in Places(q)
    OBVIOUS
  <1>2. ChunksIn(file) = UNION {Places(p) : p \in 0 .. Len(file.pages) - 1}
    BY DEF ChunksIn
  <1> HIDE DEF Places
  <1> QED
    BY <1>1, <1>2

(* As long as no read has failed every id in the map is one of the file's. *)
LEMMA KnownIsKept ==
  ASSUME MapReady, good, NEW id \in DOMAIN positions
  PROVE  id \in IdsIn(file)
  <1>1. MapTypeOK /\ ScanComplete
    BY DEF MapReady
  <1>2. PICK pi \in ScannedChunks : ChunkAt(pi).id = id
    BY <1>1 DEF ScanComplete
  <1>3. pi \in LiveChunks /\ StoredAt(pi).id = id
    BY <1>1, <1>2, ShownIsStored
  <1> QED
    BY <1>3 DEF IdsIn, LiveChunks, StoredAt

(* What the scan trips over is damage of the file.                         *)
LEMMA TripsOverDamage ==
  ASSUME MapReady, Misfit \/ BadCount \/ OffPage \/ NullAttribute \/ SeqWraps
  PROVE  ~ Undamaged(file)
  <1> SUFFICES ASSUME Undamaged(file)
               PROVE  FALSE
    OBVIOUS
  <1>1. file \in Files /\ MapTypeOK /\ ScanComplete /\ good \in BOOLEAN
    BY DEF MapReady, FetchTyped
  <1>2. Len(file.pages) \in Nat /\ End = Len(file.pages)
        /\ Size = PageSize * Len(file.pages) + file.tail
    BY <1>1, AllPages
  <1>3. ~ Misfit
    <2>1. PageSize \in Nat
      BY PageAssumption
    <2>2. file.opens /\ file.tail = 0
      BY DEF Undamaged
    <2>3. \A m, k \in Nat : m * k + 0 = k * m
      OBVIOUS
    <2>4. PageSize * Len(file.pages) + 0 = Len(file.pages) * PageSize
      BY <1>2, <2>1, <2>3
    <2> QED
      BY <1>2, <2>2, <2>4 DEF Misfit
  <1>4. scan = "items" /\ page_pos < End
    BY <1>1, <1>3 DEF BadCount, OffPage, NullAttribute, SeqWraps, AtChunk, AtItem, MapTypeOK
  <1>5. good
    BY <1>1, <1>4 DEF ScanComplete, Undamaged
  <1> DEFINE page == file.pages[page_pos + 1]
  <1>6. held = page_pos + 1 /\ page_pos \in Nat /\ page_pos \in 0 .. Len(file.pages) - 1
    BY <1>1, <1>2, <1>4, <1>5 DEF MapTypeOK, BufferInStep
  <1>7. Page = page
    BY <1>6 DEF Page, ShownAt
  <1>8. page_pos + 1 \in DOMAIN file.pages /\ page \in ToastPage
    BY <1>1, <1>2, <1>6, FilesAssumption DEF ToastFile
  <1>9. CountIsIntegral(page) /\ ItemIdCount(page) <= Len(page.linp)
    BY <1>8 DEF Undamaged
  <1>10. ~ BadCount
    BY <1>7, <1>9 DEF BadCount
  <1>11. AtItem
    BY <1>3, <1>10 DEF OffPage, NullAttribute, SeqWraps, AtChunk
  <1>12. Len(page.linp) \in Nat /\ ItemIdCount(page) \in Nat /\ item_pos \in Nat
    BY <1>1, <1>8, PagesAreShown, CountIsNat DEF ToastPage, MapTypeOK
  <1>13. item_pos < ItemIdCount(page)
    BY <1>7, <1>11 DEF AtItem
  <1>14. item_pos \in 0 .. Len(page.linp) - 1
    <2> HIDE DEF page
    <2> QED
      BY <1>9, <1>12, <1>13
  <1>15. OnPage(item_pos)
    <2> DEFINE m == Len(page.linp)
    <2>1. PageHeaderSize + m * ItemIdSize <= PageSize
      BY <1>1, <1>8, PagesAssumption
    <2>2. \A a, b, c \in Nat : a <= b => a * c <= b * c /\ a * c \in Nat /\ b * c \in Nat
      OBVIOUS
    <2>3. m \in Nat /\ item_pos + 1 \in Nat /\ item_pos + 1 <= m
      BY <1>12, <1>14
    <2>4. ItemIdSize \in Nat /\ PageHeaderSize \in Nat /\ PageSize \in Nat
      BY PageAssumption
    <2> HIDE DEF m
    <2>5. /\ (item_pos + 1) * ItemIdSize <= m * ItemIdSize
          /\ (item_pos + 1) * ItemIdSize \in Nat /\ m * ItemIdSize \in Nat
      BY <2>2, <2>3, <2>4
    <2> QED
      BY <2>1, <2>4, <2>5 DEF OnPage
  <1>16. AtChunk /\ (Item.nulls # {} \/ Word(Item.seq + 1) = 0)
    BY <1>3, <1>10, <1>15 DEF OffPage, NullAttribute, SeqWraps
  <1> DEFINE here == <<page_pos, item_pos>>
  <1>17. here[1] = page_pos /\ here[2] = item_pos
    OBVIOUS
  <1>18. TupleAt(file, here) = Item
    BY <1>7, <1>14, <1>17 DEF TupleAt, Item, LinePointer
  <1>19. here \in ChunksIn(file)
    <2>1. Followed(TupleAt(file, here))
      BY <1>16, <1>18 DEF AtChunk
    <2> QED
      BY <1>6, <1>13, <1>14, <2>1, ChunkThere
  <1>20. Item.nulls = {} /\ Item.seq + 1 < WordMod
    BY <1>18, <1>19 DEF Undamaged
  <1>21. Item.seq \in Nat
    BY <1>1, <1>16, ItemHere DEF AtChunk, ChunkItem
  <1>22. Word(Item.seq + 1) = Item.seq + 1
    <2>1. \A m \in Nat : m < WordMod => Word(m) = m
      BY PageAssumption DEF Word
    <2> HIDE DEF here
    <2> QED
      BY <1>20, <1>21, <2>1
  <1> QED
    BY <1>16, <1>20, <1>21, <1>22

Stage == IF Halted THEN "ended" ELSE IF scan = "done" THEN "serving" ELSE "loading"
Asking == phase \in {"size", "read", "inflate"}

(* The scan loads the file, or trips over its damage, or goes on; a read   *)
(* that fails is of a page the medium does not deliver.                    *)
LEMMA ScanLoads ==
  ASSUME MapReady, Scan
  PROVE  \/ Lookup!Load
         \/ Lookup!LoseTrust
         \/ UNCHANGED <<file, Stage, good, ptr, Asking, answer>>
  <1>1. /\ scan \in {"open", "next", "items"} /\ phase = "idle" /\ good \in BOOLEAN
        /\ UNCHANGED <<file, phase, ptr, answer>>
    <2>1. MapStep /\ UNCHANGED <<phase, ptr, answer>>
      BY DEF Scan, fetchVars
    <2>2. scan \in {"open", "next", "items"} /\ UNCHANGED file
      BY <2>1 DEF MapStep, Misfit, Open, ReadPage, ReadFails, BadCount, OffPage, SkipItem,
         NullAttribute, AddChunk, SeqWraps, NextPage, ScanDone, AtPage, AtItem, AtChunk, Stop
    <2> QED
      BY <2>1, <2>2 DEF MapReady, FetchInMap, PhaseAfterScan, FetchTyped
  <1>2. Stage = "loading"
    BY <1>1 DEF Stage, Halted
  <1>3. UNCHANGED Asking
    BY <1>1 DEF Asking
  <1>4. CASE Misfit \/ BadCount \/ OffPage \/ NullAttribute \/ SeqWraps
    <2>1. ~ Undamaged(file)
      BY <1>4, TripsOverDamage
    <2>2. scan' \in {"aborted", "undefined"} /\ UNCHANGED good
      BY <1>4 DEF Misfit, BadCount, OffPage, NullAttribute, SeqWraps, Stop
    <2>3. Stage' = "ended"
      BY <2>2 DEF Stage, Halted
    <2>4. Lookup!Load
      BY <1>1, <1>2, <1>3, <2>1, <2>2, <2>3 DEF Lookup!Load, Stage, Asking
    <2> QED
      BY <2>4
  <1>5. CASE ScanDone
    <2>1. scan' = "done" /\ UNCHANGED good
      BY <1>5 DEF ScanDone, Stop
    <2>2. Stage' = "serving"
      BY <1>1, <2>1 DEF Stage, Halted
    <2>3. Lookup!Load
      BY <1>1, <1>2, <1>3, <2>1, <2>2 DEF Lookup!Load, Stage, Asking
    <2> QED
      BY <2>3
  <1>6. CASE ReadFails
    <2>1. scan' = "items" /\ good' = FALSE /\ (~ good \/ page_pos \in file.bad)
      BY <1>6 DEF ReadFails
    <2>2. Stage' = "loading"
      BY <1>1, <2>1 DEF Stage, Halted
    <2>3. CASE good
      <3>1. ~ Undamaged(file)
        BY <2>1, <2>3 DEF Undamaged
      <3>2. Lookup!LoseTrust
        BY <1>1, <1>2, <1>3, <2>1, <2>2, <2>3, <3>1 DEF Lookup!LoseTrust, Stage, Asking
      <3> QED
        BY <3>2
    <2>4. CASE ~ good
      BY <1>1, <1>2, <1>3, <2>1, <2>2, <2>4
    <2> QED
      BY <2>3, <2>4
  <1>7. CASE Open \/ ReadPage \/ SkipItem \/ AddChunk \/ NextPage
    <2>1. scan' \in {"next", "items"} /\ UNCHANGED good
      BY <1>7 DEF Open, ReadPage, SkipItem, AddChunk, NextPage, AtItem, AtChunk
    <2>2. Stage' = "loading"
      BY <1>1, <2>1 DEF Stage, Halted
    <2> QED
      BY <1>1, <1>2, <1>3, <2>1, <2>2
  <1> QED
    BY <1>4, <1>5, <1>6, <1>7 DEF Scan, MapStep

(* A request opens a question about an id the file has something of, or is *)
(* refused when nothing was promised.                                      *)
LEMMA RequestAsks ==
  ASSUME MapReady, Request
  PROVE  Lookup!Ask \/ Lookup!AskUnknown
  <1>1. PICK p \in Pointers : Fetch(p) \/ FetchUnknown(p)
    BY DEF Request
  <1>2. /\ scan = "done" /\ phase = "idle" /\ UNCHANGED <<file, scan, good>> /\ ptr' = p
        /\ phase' \in {"idle", "size"}
    BY <1>1 DEF Fetch, FetchUnknown, mapVars, scanVars
  <1>3. Stage = "serving" /\ Stage' = "serving" /\ ~ Asking
    BY <1>2 DEF Stage, Halted, Asking
  <1>4. CASE Fetch(p)
    <2>1. phase' = "size" /\ answer' = NoAnswer /\ p.valueid \in DOMAIN positions
      BY <1>4 DEF Fetch
    <2>2. good => p.valueid \in IdsIn(file)
      BY <2>1, KnownIsKept
    <2>3. Asking' = TRUE
      BY <2>1 DEF Asking
    <2>4. Lookup!Ask
      BY <1>2, <1>3, <2>1, <2>2, <2>3 DEF Lookup!Ask, Stage, Asking
    <2> QED
      BY <2>4
  <1>5. CASE FetchUnknown(p)
    <2>1. phase' = phase /\ answer' = Thrown /\ p.valueid \notin DOMAIN positions
      BY <1>5 DEF FetchUnknown
    <2>2. ~ (good /\ IntactIn(file, p.valueid))
      BY <1>2, <2>1, IntactIsKnown DEF Intact
    <2>3. Asking' = Asking
      BY <2>1 DEF Asking
    <2>4. Lookup!AskUnknown
      BY <1>2, <1>3, <2>1, <2>2, <2>3 DEF Lookup!AskUnknown, Lookup!Promised, Stage, Asking
    <2> QED
      BY <2>4
  <1> QED
    BY <1>1, <1>4, <1>5

(* A step of a fetch answers the question, ends the program or loses the   *)
(* stream as it may, or goes on.                                           *)
LEMMA FetchAnswers ==
  ASSUME MapReady, UsableMapIsTrue, FetchedRight, FetchedRight', FetchStep
  PROVE  \/ Lookup!LoseTrust \/ Lookup!Answer \/ Lookup!Crash
         \/ UNCHANGED <<file, Stage, good, ptr, Asking, answer>>
  <1>1. /\ UNCHANGED <<file, scan, ptr>> /\ scan = "done" /\ good \in BOOLEAN
        /\ phase \notin {"idle", "aborted", "undefined"} /\ phase \in {"size", "read", "inflate"}
    BY FetchFrame DEF scanVars, MapReady, FetchInMap, PhaseAfterScan, FetchTyped
  <1>2. Stage = "serving" /\ Asking = TRUE
    BY <1>1 DEF Stage, Halted, Asking
  <1>3. Serving' <=> good' /\ IntactIn(file, ptr.valueid)
    BY <1>1 DEF Serving, Intact
  <1>4. CASE ReadChunk
    <2>1. phase' = "read" /\ UNCHANGED answer
      BY <1>4 DEF ReadChunk
    <2>2. Stage' = "serving" /\ Asking' = TRUE
      BY <1>1, <2>1 DEF Stage, Halted, Asking
    <2>3. good' \in BOOLEAN /\ (good' => good)
      BY <1>4, FetchFrame, ReadTyped DEF MapReady
    <2>4. CASE good /\ ~ good'
      <3>1. ~ IntactIn(file, ptr.valueid)
        BY <1>1, <2>4, StepKeepsStream DEF MapReady, FetchNext, Intact
      <3>2. Lookup!LoseTrust
        BY <1>1, <1>2, <2>1, <2>2, <2>3, <2>4, <3>1 DEF Lookup!LoseTrust, Stage, Asking
      <3> QED
        BY <3>2
    <2>5. CASE ~ (good /\ ~ good')
      BY <1>1, <1>2, <2>1, <2>2, <2>3, <2>5
    <2> QED
      BY <2>4, <2>5
  <1>5. CASE AddSize \/ Allocate \/ StartInflate \/ Inflate
    <2>1. phase' \in {"size", "read", "inflate"} /\ UNCHANGED <<good, answer>>
      BY <1>5 DEF AddSize, Allocate, StartInflate, Inflate, mapVars, fetchVars
    <2>2. Stage' = "serving" /\ Asking' = TRUE
      BY <1>1, <2>1 DEF Stage, Halted, Asking
    <2> QED
      BY <1>1, <1>2, <2>1, <2>2
  <1>6. CASE ChunkTooLong \/ NoRawSize \/ InflateAborts
    <2>1. phase' \in {"aborted", "undefined"} /\ UNCHANGED <<good, answer>>
      BY <1>6 DEF ChunkTooLong, NoRawSize, InflateAborts, mapVars
    <2>2. Stage' = "ended" /\ Asking' = FALSE
      BY <2>1 DEF Stage, Halted, Asking
    <2>3. ~ Serving'
      BY <2>1 DEF FetchedRight
    <2>4. ~ (good /\ IntactIn(file, ptr.valueid))
      BY <1>3, <2>1, <2>3
    <2>5. Lookup!Crash
      BY <1>1, <1>2, <2>1, <2>2, <2>4 DEF Lookup!Crash, Lookup!Promised, Stage, Asking
    <2> QED
      BY <2>5
  <1>7. CASE ReturnPlain \/ NegativeRawSize \/ ReturnInflated \/ ThrowCorrupted
    <2>1. /\ phase' = "idle" /\ UNCHANGED good
          /\ answer' # NoAnswer
      BY <1>7 DEF ReturnPlain, NegativeRawSize, ReturnInflated, ThrowCorrupted, Leave, mapVars,
         Value, Thrown, NoAnswer
    <2>2. Stage' = "serving" /\ Asking' = FALSE
      BY <1>1, <2>1 DEF Stage, Halted, Asking
    <2>3. ASSUME good, IntactIn(file, ptr.valueid)
          PROVE  \/ answer' = Value([id \in DOMAIN Store |-> Store[id].text][ptr.valueid])
                 \/ /\ StartsWithMarks([id \in DOMAIN Store |-> Store[id].text][ptr.valueid])
                    /\ answer' = Thrown
      <3>1. RightAnswer(ptr', answer')
        <4>1. Serving'
          BY <1>3, <2>1, <2>3
        <4>2. answer' # NoAnswer'
          BY <2>1 DEF NoAnswer
        <4> QED
          BY <2>1, <4>1, <4>2 DEF FetchedRight, RightAnswer, IsCompressed
      <3>2. ptr.valueid \in DOMAIN Store
        BY <2>3 DEF IntactIn
      <3> QED
        BY <1>1, <3>1, <3>2 DEF RightAnswer
    <2>4. Lookup!Answer
      BY <1>1, <1>2, <2>1, <2>2, <2>3 DEF Lookup!Answer, Lookup!Promised, Stage, Asking
    <2> QED
      BY <2>4
  <1> QED
    BY <1>4, <1>5, <1>6, <1>7 DEF FetchStep

(* From a file in any state, filling the map and fetching from it is a     *)
(* lookup as ToastStore promises it: a sound file is loaded, the damage of *)
(* one value reaches no other before the damaged one is asked for, and an  *)
(* intact value is never answered wrongly nor ends the program.            *)
THEOREM LookupIsImplemented == FetchSpec => ImplementsLookup
  <1>1. FetchInit => Lookup!StoreInit
    BY DEF FetchInit, MapInit, Lookup!StoreInit, Halted
  <1>2. MapReady /\ UsableMapIsTrue /\ FetchedRight /\ FetchedRight' /\ [FetchNext]_vars
          => [Lookup!StoreNext]_(Lookup!storeVars)
    <2> SUFFICES ASSUME MapReady, UsableMapIsTrue, FetchedRight, FetchedRight', [FetchNext]_vars
                 PROVE  [Lookup!StoreNext]_(Lookup!storeVars)
      OBVIOUS
    <2>1. UNCHANGED <<file, Stage, good, ptr, Asking, answer>> => UNCHANGED Lookup!storeVars
      BY DEF Lookup!storeVars, Stage, Asking
    <2>2. UNCHANGED vars => UNCHANGED <<file, Stage, good, ptr, Asking, answer>>
      BY DEF vars, mapVars, scanVars, fetchVars, Stage, Asking, Halted
    <2> QED
      BY <2>1, <2>2, ScanLoads, RequestAsks, FetchAnswers
      DEF FetchNext, Ended, Lookup!StoreNext
  <1>3. FetchSpec => []UsableMapIsTrue
    BY FetchScans, UsableMapTrue, PTL
  <1> QED
    BY <1>1, <1>2, <1>3, FetchesRight, PTL DEF FetchSpec, ImplementsLookup, Lookup!StoreSafety
=============================================================================
