------------------------------ MODULE ToastMap ------------------------------
(***************************************************************************)
(* ToastMap::fill_toast_map: one pass of a PageIterator over the pages and *)
(* line pointers of a TOAST table's file that records, for every value id, *)
(* where in the file each of its chunks lies.                              *)
(*                                                                         *)
(* A chunk tuple is an item with the fields of its line pointer, hoff (the *)
(* tuple's t_hoff), nulls (its null attributes), id and seq (the two       *)
(* leading integers), hdr and size (length of the header of the chunk's    *)
(* varlena and the size that header states) and data (the bytes there).    *)
(***************************************************************************)
EXTENDS HeapPage

CONSTANTS
  Files     (* the files considered: opens (the file can be opened), pages *)
            (* (its pages), tail (bytes after the last whole one), bad (the*)
            (* pages, from 0, that the medium does not deliver whole), left*)
            (* (what the buffer holds when the first of those reads broke  *)
            (* off: see HeapPage!Torn)                                     *)

ChunkItem ==
  [flags: Nat, off: Nat, len: Nat, hoff: Nat, nulls: SUBSET Nat,
   id: Nat, seq: Nat, hdr: Nat, size: Nat, data: Seq(Nat)]
ToastPage == [lower: Nat, linp: Seq(ChunkItem)]
BufferPage == [lower: Nat, linp: Seq(ChunkItem \union {ZeroItem})]
ToastFile ==
  [opens: BOOLEAN, pages: Seq(ToastPage), tail: 0 .. PageSize - 1, bad: SUBSET Nat,
   left: BufferPage]

ASSUME FilesAssumption == Files \subseteq ToastFile

IdSeqSize == 8

VARIABLES
  file,        (* the TOAST file                                           *)
  good,        (* the stream's fail() bit is not set                       *)
  held,        (* pages page_buffer has held whole, one after the other    *)
  page_pos,    (* page being scanned, from 0                               *)
  item_pos,    (* line pointer being looked at, from 0                     *)
  positions,   (* chunk positions found, by value id                       *)
  scan         (* where fill_toast_map is, or how it ended                 *)

scanVars == <<file, held, page_pos, item_pos, positions, scan>>
mapVars == <<good, scanVars>>

(* The size as the iterator computes it, and its number of pages.          *)
Size == Word(PageSize * Len(file.pages) + file.tail)
End == Size \div PageSize

(* What the buffer shows while page q (from 0) is scanned: from the first  *)
(* read that failed on, what that one left there.                          *)
ShownAt(q) == IF q < held THEN file.pages[q + 1] ELSE file.left

Page == ShownAt(page_pos)
Item == LinePointer(Page, item_pos)

(* Mutant: the size of the header is not taken off.                        *)
LocationWithHeader(p, it) ==
  [first  |-> Word(PageSize * p + it.off + it.hoff + IdSeqSize + it.hdr),
   second |-> it.size]

(* Where the data of a chunk tuple starts in the file and how much of it   *)
(* there is, as the code computes them in unsigned arithmetic.             *)
Location(p, it) ==
  [first  |-> Word(PageSize * p + it.off + it.hoff + IdSeqSize + it.hdr),
   second |-> Word(it.size - it.hdr)]

(* What resize() leaves in the places of chunks not seen yet.              *)
Hole == [first |-> 0, second |-> 0]

ChunksOf(id) == IF id \in DOMAIN positions THEN positions[id] ELSE << >>

(* Mutant: the vector is cut to the chunk just seen.                       *)
WithChunkCut(datas, seq, loc) ==
  [k \in 1 .. seq + 1 |->
     IF k = seq + 1 THEN loc ELSE IF k <= Len(datas) THEN datas[k] ELSE Hole]

(* Mutant: the new places are filled with the chunk just seen.             *)
WithChunkFilled(datas, seq, loc) ==
  [k \in 1 .. (IF Len(datas) <= seq THEN seq + 1 ELSE Len(datas)) |->
     IF k = seq + 1 THEN loc ELSE IF k <= Len(datas) THEN datas[k] ELSE loc]

(* data.resize(chunk_seq + 1) when the vector is too short, then the entry *)
(* is overwritten.                                                         *)
WithChunk(datas, seq, loc) ==
  [k \in 1 .. (IF Len(datas) <= seq THEN seq + 1 ELSE Len(datas)) |->
     IF k = seq + 1 THEN loc ELSE IF k <= Len(datas) THEN datas[k] ELSE Hole]

-----------------------------------------------------------------------------

MapInit ==
  /\ file \in Files
  /\ good = TRUE /\ held = 0
  /\ page_pos = 0 /\ item_pos = 0
  /\ positions = << >>
  /\ scan = "open"

(* The scan stops, and with it the program.                                *)
Stop(how) ==
  /\ scan' = how
  /\ UNCHANGED <<file, good, held, page_pos, item_pos, positions>>

(* The constructor of PageIterator: assert( stream->good() ), and an       *)
(* exception nobody catches when the size is not a multiple of a page.     *)
Misfit == scan = "open" /\ (~ file.opens \/ Size # End * PageSize) /\ Stop("aborted")

Open ==
  /\ scan = "open" /\ file.opens /\ Size = End * PageSize
  /\ scan' = "next"
  /\ UNCHANGED <<file, good, held, page_pos, item_pos, positions>>

AtPage == scan = "next" /\ page_pos < End

ReadPage ==
  /\ AtPage /\ good /\ page_pos \notin file.bad
  /\ held' = page_pos + 1
  /\ scan' = "items"
  /\ UNCHANGED <<file, good, page_pos, item_pos, positions>>

(* Mutant: the stream is cleared after a read that failed.                 *)
ReadFailsCleared ==
  /\ AtPage /\ page_pos \in file.bad
  /\ scan' = "items"
  /\ UNCHANGED <<file, good, held, page_pos, item_pos, positions>>

(* The read breaks off, or one did before and nothing is delivered any     *)
(* more: nobody looks, and the scan goes on with what the buffer holds.    *)
ReadFails ==
  /\ AtPage /\ (~ good \/ page_pos \in file.bad)
  /\ good' = FALSE
  /\ scan' = "items"
  /\ UNCHANGED <<file, held, page_pos, item_pos, positions>>

(* integral_division asserts that pd_lower is a whole number of pointers.  *)
BadCount == scan = "items" /\ ~ CountIsIntegral(Page) /\ Stop("aborted")

AtItem == scan = "items" /\ CountIsIntegral(Page) /\ item_pos < ItemIdCount(Page)

(* The count reaches past the page: what is read is not the file's.        *)
OffPage == AtItem /\ ~ OnPage(item_pos) /\ Stop("undefined")

SkipItem ==
  /\ AtItem /\ OnPage(item_pos) /\ ~ Followed(Item)
  /\ item_pos' = item_pos + 1
  /\ UNCHANGED <<file, good, held, page_pos, positions, scan>>

AtChunk == AtItem /\ OnPage(item_pos) /\ Followed(Item)

NullAttribute == AtChunk /\ Item.nulls # {} /\ Stop("aborted")

AddChunk ==
  /\ AtChunk /\ Item.nulls = {} /\ Word(Item.seq + 1) # 0
  /\ positions' =
       [id \in DOMAIN positions \union {Item.id} |->
          IF id = Item.id
            THEN WithChunk(ChunksOf(id), Item.seq, Location(page_pos, Item))
            ELSE positions[id]]
  /\ item_pos' = item_pos + 1
  /\ UNCHANGED <<file, good, held, page_pos, scan>>

(* chunk_seq + 1 wraps to 0: the vector is emptied and written past.       *)
SeqWraps ==
  AtChunk /\ Item.nulls = {} /\ Word(Item.seq + 1) = 0 /\ Stop("undefined")

NextPage ==
  /\ scan = "items" /\ CountIsIntegral(Page) /\ item_pos >= ItemIdCount(Page)
  /\ page_pos' = page_pos + 1
  /\ item_pos' = 0
  /\ scan' = "next"
  /\ UNCHANGED <<file, good, held, positions>>

(* next() returns NULL.                                                    *)
ScanDone == scan = "next" /\ page_pos >= End /\ Stop("done")

MapStep ==
  \/ Misfit \/ Open \/ ReadPage \/ ReadFails
  \/ BadCount \/ OffPage \/ SkipItem \/ NullAttribute
  \/ AddChunk \/ SeqWraps \/ NextPage \/ ScanDone

(* Whoever uses the map later may make its stream fail.                    *)
StreamUsed ==
  /\ scan = "done" /\ good' \in {good, FALSE}
  /\ UNCHANGED scanVars

MapNext == MapStep \/ StreamUsed

MapSpec == MapInit /\ [][MapNext]_mapVars

-----------------------------------------------------------------------------

(* The line pointers the scan meets that pd_lower counts, as <<page, line  *)
(* pointer>>, both from 0, and those scanned so far.                       *)
Items ==
  UNION {{<<q, i>> : i \in {j \in 0 .. Len(ShownAt(q).linp) - 1 :
                              j < ItemIdCount(ShownAt(q))}} :
         q \in 0 .. Len(file.pages) - 1}

Scanned(pi) == pi[1] < page_pos \/ (pi[1] = page_pos /\ pi[2] < item_pos)

ChunkAt(pi) == ShownAt(pi[1]).linp[pi[2] + 1]

(* The chunk tuples scanned so far.                                        *)
ScannedChunks == {pi \in Items : Scanned(pi) /\ Followed(ChunkAt(pi))}

(* Nothing is made up: an entry of the map is a hole or the location of a  *)
(* tuple the scan was shown with that value id and chunk number.           *)
EntriesAreChunks ==
  \A id \in DOMAIN positions : \A k \in DOMAIN positions[id] :
    \/ positions[id][k] = Hole
    \/ \E pi \in ScannedChunks :
         /\ ChunkAt(pi).id = id /\ ChunkAt(pi).seq = k - 1
         /\ positions[id][k] = Location(pi[1], ChunkAt(pi))

(* Nothing is lost: whatever order the chunks of a value come in, each one *)
(* scanned is in the map, unless a later tuple has the same id and number. *)
ChunksAreEntered ==
  \A pi \in ScannedChunks :
    LET c == ChunkAt(pi)
    IN  /\ c.id \in DOMAIN positions
        /\ c.seq + 1 \in DOMAIN positions[c.id]
        /\ \/ positions[c.id][c.seq + 1] = Location(pi[1], c)
           \/ \E qj \in ScannedChunks :
                /\ qj[1] > pi[1] \/ (qj[1] = pi[1] /\ qj[2] > pi[2])
                /\ ChunkAt(qj).id = c.id /\ ChunkAt(qj).seq = c.seq
                /\ positions[c.id][c.seq + 1] = Location(qj[1], ChunkAt(qj))

(* The tuples of a file itself, on the pages they lie on.                  *)
TupleAt(f, pi) == f.pages[pi[1] + 1].linp[pi[2] + 1]

ChunksIn(f) ==
  UNION {{<<p, i>> : i \in {j \in 0 .. Len(f.pages[p + 1].linp) - 1 :
                              /\ j < ItemIdCount(f.pages[p + 1])
                              /\ Followed(TupleAt(f, <<p, j>>))}} :
         p \in 0 .. Len(f.pages) - 1}

StoredAt(pi) == TupleAt(file, pi)
LiveChunks == ChunksIn(file)

(* A map that can still be read with is true: as long as the stream has    *)
(* not failed, every entry is a hole or where a chunk with that id and     *)
(* number lies in the file.  (After a failed page read what is left in the *)
(* buffer is entered under the numbers of all pages that follow.)          *)
UsableMapIsTrue ==
  good => \A id \in DOMAIN positions : \A k \in DOMAIN positions[id] :
            \/ positions[id][k] = Hole
            \/ \E pi \in LiveChunks :
                 /\ StoredAt(pi).id = id /\ StoredAt(pi).seq = k - 1
                 /\ positions[id][k] = Location(pi[1], StoredAt(pi))

=============================================================================
