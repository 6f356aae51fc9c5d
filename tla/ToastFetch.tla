----------------------------- MODULE ToastFetch -----------------------------
(***************************************************************************)
(* ToastPointer::fetch_data over the map that fill_toast_map built: the    *)
(* chunks of a value are read one after the other through the shared       *)
(* stream toastmap.file, and the bytes are handed out as they are or       *)
(* decompressed.  Fetches follow one another for as long as the dump asks  *)
(* for values; the map and the state of the stream are what they share.    *)
(*                                                                         *)
(* A TOAST pointer is a record [rawsize, extsize, valueid].                *)
(***************************************************************************)
EXTENDS ToastMap, FiniteSets

CONSTANTS
  Pointers,                      (* the TOAST pointers the table holds     *)
  Store,                         (* what was stored under each value id:   *)
                                 (* its text, the bytes put in chunks and  *)
                                 (* the items of a compressed one          *)
  Nibble, CtrlBits, Slack, Mark  (* see PglzDecompress                     *)

VARHDRSZ == 4        (* bytes of a varlena header                          *)
RawSizeBytes == 4    (* bytes of PGLZ_Header.rawsize                       *)
PGLZ_Header == VARHDRSZ + RawSizeBytes

VARIABLES
  phase,     (* where fetch_data is                                        *)
  ptr,       (* the pointer it was called on                               *)
  result,    (* the buffer the chunks are read into                        *)
  pos,       (* next byte of result to fill, or size while it is summed    *)
  chunk,     (* chunks added up or read so far                             *)
  answer,    (* how the last call ended                                    *)
  in, sp, dp, ctrl, ctrlc, len, off, dest, pc   (* of pglz_decompress      *)

inflateVars == <<in, sp, dp, ctrl, ctrlc, len, off, dest, pc>>
fetchVars == <<phase, ptr, result, pos, chunk, answer>>
vars == <<mapVars, fetchVars, inflateVars>>

Pglz == INSTANCE PglzDecompress WITH Inputs <- {}
Format == INSTANCE PglzFormat

ASSUME PglzAssumption ==
  /\ Nibble \in Nat /\ Nibble >= 2
  /\ CtrlBits \in Nat \ {0} /\ Pglz!Bit[CtrlBits] = Nibble * Nibble
  /\ Slack \in Nat /\ Slack >= 2
  /\ Mark \in Pglz!Byte

ASSUME BytesAssumption ==
  \A f \in Files : \A p \in DOMAIN f.pages : \A k \in DOMAIN f.pages[p].linp :
    f.pages[p].linp[k].data \in Seq(Pglz!Byte)

NoAnswer == [kind |-> "none", bytes |-> << >>]
Thrown == [kind |-> "thrown", bytes |-> << >>]
Value(bytes) == [kind |-> "value", bytes |-> bytes]

-----------------------------------------------------------------------------

Datas == positions[ptr.valueid]

(* Where on its page the data of a chunk tuple starts.                     *)
DataStart(it) == it.off + it.hoff + IdSeqSize + it.hdr

(* The chunk tuples of a page whose data byte b of the page is in.         *)
Covering(page, b) ==
  {k \in DOMAIN page.linp :
     /\ Followed(page.linp[k])
     /\ b - DataStart(page.linp[k]) \in 0 .. Len(page.linp[k].data) - 1}

PageByte(page, b) ==
  IF Covering(page, b) = {} THEN 0
  ELSE LET it == page.linp[CHOOSE k \in Covering(page, b) : TRUE]
       IN  it.data[b - DataStart(it) + 1]

(* The byte at position p of the file, 0 where no chunk's data is.         *)
FileByte(p) == PageByte(file.pages[p \div PageSize + 1], p % PageSize)

(* The server splits a table into files that an unsigned counts, has its   *)
(* line pointers on the page, and a page is bytes: tuples that overlap     *)
(* show the same ones.                                                     *)
ASSUME PagesAssumption ==
  \A f \in Files :
    /\ PageSize * Len(f.pages) + f.tail < WordMod
    /\ \A p \in DOMAIN f.pages :
         /\ PageHeaderSize + Len(f.pages[p].linp) * ItemIdSize <= PageSize
         /\ \A b \in 0 .. PageSize - 1 : \A k \in Covering(f.pages[p], b) :
              LET it == f.pages[p].linp[k]
              IN  it.data[b - DataStart(it) + 1] = PageByte(f.pages[p], b)

FileSize == PageSize * Len(file.pages)

(* How many of n bytes a read at position p delivers.                      *)
Available(p, n) == IF p >= FileSize THEN 0
                   ELSE IF p + n <= FileSize THEN n ELSE FileSize - p

(* is_compressed()                                                         *)
IsCompressed(p) == p.extsize < p.rawsize - VARHDRSZ

(* The server compresses no value too short for the header.                *)
ASSUME PointersAssumption ==
  /\ Pointers \subseteq [rawsize: Nat, extsize: Nat, valueid: Nat]
  /\ \A p \in Pointers : IsCompressed(p) => p.rawsize >= PGLZ_Header

(* "Toss varlen": iteration i moves the four bytes at i + 4 down to i.  It *)
(* is the last one to write byte i, and nothing before it wrote byte i + 4;*)
(* what the last iterations read past the buffer goes to bytes that are    *)
(* cut off.                                                                *)
Toss(bytes) == SubSeq(bytes, VARHDRSZ + 1, Len(bytes))

(* PGLZ_Header.rawsize, the four bytes after the header, a little endian   *)
(* signed number.                                                          *)
RawSize(bytes) ==
  LET b(k) == bytes[VARHDRSZ + k]
      base == Nibble * Nibble
      top  == IF b(4) < base \div 2 THEN b(4) ELSE b(4) - base
  IN  b(1) + base * (b(2) + base * (b(3) + base * top))

(* What the server stored.  No value out of line is empty; the two sizes   *)
(* of a pointer are those of the text and of what is in the chunks: the    *)
(* text itself, or its size in four bytes and what the compressor made of  *)
(* it.                                                                     *)
ASSUME StoreAssumption ==
  \A p \in Pointers : p.valueid \in DOMAIN Store =>
    LET s == Store[p.valueid]
    IN  /\ s.text \in Seq(Pglz!Byte) /\ s.image \in Seq(Pglz!Byte) /\ s.image # << >>
        /\ p.rawsize = VARHDRSZ + Len(s.text) /\ p.extsize = Len(s.image)
        /\ VARHDRSZ + Len(s.image) < WordMod
        /\ IF IsCompressed(p)
             THEN /\ s.items \in Seq(Format!Item) /\ Format!WellFormedItems(s.items)
                  /\ s.text = Format!Expand(s.items)
                  /\ Len(s.image) = RawSizeBytes + Len(Format!Encode(s.items))
                  /\ SubSeq(s.image, RawSizeBytes + 1, Len(s.image)) = Format!Encode(s.items)
                  /\ RawSize(<<0, 0, 0, 0>> \o s.image) = Len(s.text)
             ELSE s.image = s.text

(* The length the header of the compressed datum is given: the raw size of *)
(* the pointer.                                                            *)
HeaderSize(p, bytes) == p.rawsize

(* The call of pglz_decompress on the buffer.                              *)
InflateCall(p, bytes) ==
  [src     |-> SubSeq(bytes, PGLZ_Header + 1, Len(bytes)),
   srcend  |-> HeaderSize(p, bytes) - PGLZ_Header,
   rawsize |-> RawSize(bytes)]

-----------------------------------------------------------------------------

(* Mutant: the output is allocated without its slack.                      *)
BeginInflateTight(call) ==
  /\ in' = call
  /\ sp' = 0 /\ dp' = 0 /\ ctrl' = 0 /\ ctrlc' = 0 /\ len' = 0 /\ off' = 0
  /\ dest' = [k \in 0 .. call.rawsize - 1 |-> 0]
  /\ pc' = "while"

(* The decoder's variables are set for a call (Pglz!Call of the next       *)
(* state).                                                                 *)
BeginInflate(call) ==
  /\ in' = call
  /\ sp' = 0 /\ dp' = 0 /\ ctrl' = 0 /\ ctrlc' = 0 /\ len' = 0 /\ off' = 0
  /\ dest' = [k \in 0 .. call.rawsize + Slack - 1 |-> 0]
  /\ pc' = "while"

NoCall == [src |-> << >>, srcend |-> 0, rawsize |-> 0]

FetchInit ==
  /\ MapInit
  /\ phase = "idle"
  /\ ptr \in Pointers
  /\ result = << >> /\ pos = 0 /\ chunk = 0
  /\ answer = NoAnswer
  /\ Pglz!Call(NoCall)

Scan == MapStep /\ UNCHANGED <<fetchVars, inflateVars>>

(* No chunk with the pointer's value id was in the file.                   *)
FetchUnknown(p) ==
  /\ scan = "done" /\ phase = "idle"
  /\ p.valueid \notin DOMAIN positions
  /\ ptr' = p
  /\ answer' = Thrown
  /\ UNCHANGED <<mapVars, phase, result, pos, chunk, inflateVars>>

Fetch(p) ==
  /\ scan = "done" /\ phase = "idle"
  /\ p.valueid \in DOMAIN positions
  /\ ptr' = p
  /\ phase' = "size"
  /\ pos' = VARHDRSZ /\ chunk' = 0
  /\ answer' = NoAnswer
  /\ UNCHANGED <<mapVars, result, inflateVars>>

(* Mutant: the loop over the chunks does not advance.                      *)
AddSizeStuck ==
  /\ phase = "size" /\ chunk < Len(Datas)
  /\ pos' = Word(pos + Datas[chunk + 1].second)
  /\ UNCHANGED <<mapVars, phase, ptr, result, chunk, answer, inflateVars>>

AddSize ==
  /\ phase = "size" /\ chunk < Len(Datas)
  /\ pos' = Word(pos + Datas[chunk + 1].second)
  /\ chunk' = chunk + 1
  /\ UNCHANGED <<mapVars, phase, ptr, result, answer, inflateVars>>

Allocate ==
  /\ phase = "size" /\ chunk = Len(Datas)
  /\ result' = [k \in 1 .. pos |-> 0]
  /\ pos' = VARHDRSZ /\ chunk' = 0
  /\ phase' = "read"
  /\ UNCHANGED <<mapVars, ptr, answer, inflateVars>>

(* Mutant: the chunk lands one byte too far.                               *)
ReadChunkShifted ==
  /\ phase = "read" /\ chunk < Len(Datas)
  /\ LET d == Datas[chunk + 1]
         n == IF good THEN Available(d.first, d.second) ELSE 0
     IN  /\ pos + d.second <= Len(result)
         /\ result' = [k \in DOMAIN result \union (pos + 1 .. pos + n) |->
                         IF k \in pos + 2 .. pos + n THEN FileByte(d.first + k - pos - 2)
                                                     ELSE result[k]]
         /\ good' = (good /\ n = d.second)
         /\ pos' = pos + d.second
  /\ chunk' = chunk + 1
  /\ UNCHANGED <<scanVars, phase, ptr, answer, inflateVars>>

(* Mutant: nobody asserts that the chunk fits.                             *)
ReadChunkUnasserted ==
  /\ phase = "read" /\ chunk < Len(Datas)
  /\ LET d == Datas[chunk + 1]
         n == IF good THEN Available(d.first, d.second) ELSE 0
     IN  /\ result' = [k \in DOMAIN result \union (pos + 1 .. pos + n) |->
                         IF k \in pos + 1 .. pos + n THEN FileByte(d.first + k - pos - 1)
                                                     ELSE result[k]]
         /\ good' = (good /\ n = d.second)
         /\ pos' = pos + d.second
  /\ chunk' = chunk + 1
  /\ UNCHANGED <<scanVars, phase, ptr, answer, inflateVars>>

(* seekg and read.  A read that meets the end of the file sets failbit,    *)
(* and with it set neither call does anything any more.  The bytes go      *)
(* where pos points: the assertion alone keeps them inside the buffer.     *)
ReadChunk ==
  /\ phase = "read" /\ chunk < Len(Datas)
  /\ LET d == Datas[chunk + 1]
         n == IF good THEN Available(d.first, d.second) ELSE 0
     IN  /\ pos + d.second <= Len(result)
         /\ result' = [k \in DOMAIN result \union (pos + 1 .. pos + n) |->
                         IF k \in pos + 1 .. pos + n THEN FileByte(d.first + k - pos - 1)
                                                     ELSE result[k]]
         /\ good' = (good /\ n = d.second)
         /\ pos' = pos + d.second
  /\ chunk' = chunk + 1
  /\ UNCHANGED <<scanVars, phase, ptr, answer, inflateVars>>

(* assert( pos+datas[i].second <= size )                                   *)
ChunkTooLong ==
  /\ phase = "read" /\ chunk < Len(Datas)
  /\ pos + Datas[chunk + 1].second > Len(result)
  /\ phase' = "aborted"
  /\ UNCHANGED <<mapVars, ptr, result, pos, chunk, answer, inflateVars>>

(* The loop is left; assert( pos == size ) holds here, for the sizes read  *)
(* add up to the one allocated unless that wrapped, and then a chunk was   *)
(* too long.                                                               *)
ChunksRead == phase = "read" /\ chunk = Len(Datas)

(* fetch_data is left and its buffers are destroyed.                       *)
Leave(a) ==
  /\ answer' = a
  /\ phase' = "idle"
  /\ result' = << >> /\ pos' = 0 /\ chunk' = 0
  /\ BeginInflate(NoCall)
  /\ UNCHANGED <<mapVars, ptr>>

ReturnPlain ==
  /\ ChunksRead /\ ~ IsCompressed(ptr)
  /\ Leave(Value(Toss(result)))

Inflatable ==
  ChunksRead /\ IsCompressed(ptr) /\ Len(result) >= PGLZ_Header

StartInflate ==
  /\ Inflatable /\ RawSize(result) >= 0
  /\ BeginInflate(InflateCall(ptr, result))
  /\ phase' = "inflate"
  /\ UNCHANGED <<mapVars, ptr, result, pos, chunk, answer>>

(* std::vector refuses a negative size.                                    *)
NegativeRawSize == Inflatable /\ RawSize(result) < 0 /\ Leave(Thrown)

(* The raw size is read past the end of the buffer.                        *)
NoRawSize ==
  /\ ChunksRead /\ IsCompressed(ptr) /\ Len(result) < PGLZ_Header
  /\ phase' = "undefined"
  /\ UNCHANGED <<mapVars, ptr, result, pos, chunk, answer, inflateVars>>

Inflate == phase = "inflate" /\ Pglz!Step /\ UNCHANGED <<mapVars, fetchVars>>

Inflated == phase = "inflate" /\ pc \in {"returned", "gaveup"}

(* The decoder's way of giving up is recognised by the bytes it leaves.    *)
LooksCorrupted == dest[0] = Mark /\ dest[1] = Mark

ReturnInflated ==
  /\ Inflated /\ ~ LooksCorrupted
  /\ Leave(Value([k \in 1 .. in.rawsize |-> dest[k - 1]]))

ThrowCorrupted == Inflated /\ LooksCorrupted /\ Leave(Thrown)

(* abort() inside the decoder ends the program.                            *)
InflateAborts ==
  /\ phase = "inflate" /\ pc = "aborted"
  /\ phase' = "aborted"
  /\ UNCHANGED <<mapVars, ptr, result, pos, chunk, answer, inflateVars>>

FetchStep ==
  \/ AddSize \/ Allocate \/ ReadChunk \/ ChunkTooLong
  \/ ReturnPlain \/ StartInflate \/ NegativeRawSize \/ NoRawSize
  \/ Inflate \/ ReturnInflated \/ ThrowCorrupted \/ InflateAborts

Request == \E p \in Pointers : Fetch(p) \/ FetchUnknown(p)

(* The program has ended.                                                  *)
Halted == scan \in {"aborted", "undefined"} \/ phase \in {"aborted", "undefined"}

Ended == Halted /\ UNCHANGED vars

FetchNext == Scan \/ Request \/ FetchStep \/ Ended

(* One thread: the scan and a call of fetch_data run to their end, whether *)
(* another value is asked for is the dump's affair.                        *)
FetchSpec ==
  /\ FetchInit /\ [][FetchNext]_vars
  /\ WF_vars(Scan) /\ WF_vars(FetchStep)

-----------------------------------------------------------------------------

(* The chunk tuples of a value in a file, and the bytes of those with the  *)
(* numbers below n, in their order.                                        *)
PiecesIn(f, id) == {c \in {TupleAt(f, pi) : pi \in ChunksIn(f)} : c.id = id}

Piece(pieces, seq) == CHOOSE c \in pieces : c.seq = seq

Gathered(pieces, n) ==
  LET data[k \in 0 .. n] ==
        IF k = 0 THEN << >> ELSE data[k - 1] \o Piece(pieces, k - 1).data
  IN  data[n]

(* The chunk states the size it has and lies on its page.                  *)
Honest(c) == c.size = c.hdr + Len(c.data) /\ DataStart(c) + Len(c.data) <= PageSize

(* The chunks of a value are all in a file, in whatever places: the        *)
(* numbers run from 0 without a gap or two claimants, each chunk lies on   *)
(* its page and states the size it has, and together they carry the bytes  *)
(* that were stored.                                                       *)
IntactIn(f, id) ==
  /\ id \in DOMAIN Store
  /\ LET n == Cardinality(PiecesIn(f, id))
     IN  /\ {c.seq : c \in PiecesIn(f, id)} = 0 .. n - 1
         /\ \A c \in PiecesIn(f, id) : Honest(c)
         /\ Gathered(PiecesIn(f, id), n) = Store[id].image

Intact(id) == IntactIn(file, id)

(* A text that fetch_data cannot tell from a decoder that gave up.         *)
StartsWithMarks(text) == Len(text) >= 2 /\ text[1] = Mark /\ text[2] = Mark

Answered(p) == phase = "idle" /\ ptr = p /\ answer # NoAnswer

FetchTypeOK ==
  /\ scan \in {"open", "next", "items", "done", "aborted", "undefined"}
  /\ phase \in {"idle", "size", "read", "inflate", "aborted", "undefined"}
  /\ good \in BOOLEAN /\ ptr \in Pointers
  /\ \A k \in DOMAIN result : result[k] \in Pglz!Byte
  /\ pos \in Nat /\ chunk \in Nat
  /\ answer.kind \in {"none", "thrown", "value"}
  /\ phase = "inflate" => Pglz!TypeOK

(* Damage elsewhere does not spread: an intact value is answered by its    *)
(* own text, whatever the rest of the file looks like and whatever was     *)
(* fetched before, as long as the stream has not failed.                   *)
IntactValueFetched ==
  \A p \in Pointers :
    Answered(p) /\ Intact(p.valueid) /\ good =>
      \/ answer = Value(Store[p.valueid].text)
      \/ answer = Thrown /\ IsCompressed(p) /\ StartsWithMarks(Store[p.valueid].text)

(* What is left of a value in a file in which chunks of it are missing:    *)
(* the bytes of the others in the order of their numbers.                  *)
Leftovers(f, id) ==
  LET pieces == PiecesIn(f, id)
      numbers == {c.seq : c \in pieces}
      last == CHOOSE n \in numbers : \A m \in numbers : m <= n
      data[k \in 0 .. last + 1] ==
        IF k = 0 THEN << >>
        ELSE IF k - 1 \in numbers THEN data[k - 1] \o Piece(pieces, k - 1).data ELSE data[k - 1]
  IN  data[last + 1]

(* A lost chunk costs its own bytes: as long as the chunks that are left   *)
(* are honest and no two have one number, a plain value is answered by     *)
(* what they carry, in their order, nothing in the place of a missing one  *)
(* and nothing of another value; and it is refused only if none is left.   *)
LeftoversInOrder ==
  \A p \in Pointers :
    LET pieces == PiecesIn(file, p.valueid)
    IN  /\ Answered(p) /\ good /\ ~ IsCompressed(p)
        /\ \A c \in pieces : Honest(c)
        /\ \A c, e \in pieces : c.seq = e.seq => c = e
        => answer = IF pieces = {} THEN Thrown ELSE Value(Leftovers(file, p.valueid))

(* Among the fetches only that of a damaged value makes the stream fail.   *)
OnlyDamageFailsStream ==
  [][scan = "done" /\ good /\ ~ good' => ~ Intact(ptr.valueid)]_vars

(* Whatever is damaged and whatever pages could not be read while the map  *)
(* was filled, each read of a fetch fills the place of its chunk in the    *)
(* buffer and not a byte outside it, and if it succeeds, then from a chunk *)
(* of the value asked for that has the number whose turn it is: an honest  *)
(* chunk arrives with exactly its own bytes, however the others look.  (Of *)
(* one whose header overstates its size also what follows in the file      *)
(* arrives.)                                                               *)
ChunkArrives ==
  phase = "read" /\ chunk' = chunk + 1 =>
    LET d == Datas[chunk + 1]
    IN  /\ DOMAIN result' = DOMAIN result
        /\ \A k \in DOMAIN result : k \notin pos + 1 .. pos + d.second => result'[k] = result[k]
        /\ good' /\ d # Hole =>
             \E pi \in LiveChunks :
               LET c == StoredAt(pi)
               IN  /\ c.id = ptr.valueid /\ c.seq = chunk /\ d = Location(pi[1], c)
                   /\ Honest(c) => \A j \in DOMAIN c.data : result'[pos + j] = c.data[j]
ChunkBytesArrive == [][ChunkArrives]_vars

(* Nothing of a file is damaged in a way that the scan trips over.         *)
Undamaged(f) ==
  /\ f.opens /\ f.tail = 0 /\ f.bad = {}
  /\ \A p \in DOMAIN f.pages :
       CountIsIntegral(f.pages[p]) /\ ItemIdCount(f.pages[p]) <= Len(f.pages[p].linp)
  /\ \A pi \in ChunksIn(f) :
       TupleAt(f, pi).nulls = {} /\ TupleAt(f, pi).seq + 1 < WordMod

IdsIn(f) == {TupleAt(f, pi).id : pi \in ChunksIn(f)}

(* Filling the map and fetching, from a file in any state, is what the     *)
(* dump may rely on: a lookup of texts in which the damage of one value    *)
(* does not reach another before the damaged one is asked for.             *)
Lookup == INSTANCE ToastStore WITH
  NoReply <- NoAnswer, Refusal <- Thrown, Reply <- Value,
  Ambiguous <- StartsWithMarks, Stored <- [id \in DOMAIN Store |-> Store[id].text],
  Kept <- IdsIn, Whole <- IntactIn, Sound <- Undamaged,
  stage <- IF Halted THEN "ended" ELSE IF scan = "done" THEN "serving" ELSE "loading",
  trusted <- good, asked <- ptr.valueid,
  open <- phase \in {"size", "read", "inflate"}, reply <- answer

ImplementsLookup == Lookup!StoreSafety

(* Every file is loaded, or the program ends, and a fetch that was begun   *)
(* is answered, or the program ends, whatever the map holds.               *)
LookupEnds == Lookup!StoreLiveness

(* The README: the project "also can deal with out of table stored values  *)
(* (TOAST) and compressed data": no intact value is refused.               *)
IntactValueNeverRefused ==
  \A p \in Pointers : Answered(p) /\ Intact(p.valueid) => answer # Thrown

(* The same claim, of what is returned: an intact value is never answered  *)
(* by other bytes.                                                         *)
IntactValueNeverFalsified ==
  \A p \in Pointers :
    Answered(p) /\ Intact(p.valueid) =>
      answer \in {Thrown, Value(Store[p.valueid].text)}

=============================================================================
