--------------------------- MODULE RowTextProofs ---------------------------
(***************************************************************************)
(* Theorems about TupleLayout, SqlLiteral and RowText: a complete tuple    *)
(* without misaligned long values is read as it was stored, and of no      *)
(* tuple is anything printed that was not stored there, for every table    *)
(* and every tuple; a literal is its text, for every text; a row is made   *)
(* by the walk of TupleLayout and the literals of SqlLiteral, so what is   *)
(* proved of those holds of it, and every row printed is read back by the  *)
(* session as its tuple was stored.                                        *)
(***************************************************************************)
EXTENDS RowText, SequenceTheorems, TLAPS

(* The tuples the theorem is about.                                        *)
Sound(t) == Stored(t) /\ Complete(t) /\ Tight(t)

TupleTypeOK == tuple \in Tuples

InPlace ==
  Sound(tuple) =>
    /\ \A k \in DOMAIN at : at[k] = PlaceOf(tuple, k - 1)
    /\ pos = tuple.ends[Len(at) + 1]
    /\ pc \notin {"misfit", "offpage"}

WalkTypeOK ==
  /\ col \in 0 .. Len(Columns)
  /\ pos \in 0 .. WordMod - 1
  /\ at \in Seq({NotThere} \union Nat)
  /\ Len(at) <= Len(Columns)
  /\ pc = "columns" => Len(at) = col
  /\ pc = "values" => Len(at) = Len(Columns)
  /\ pc \in {"columns", "values"} \union Outcomes

LayoutInv == TupleTypeOK /\ WalkTypeOK /\ InPlace

EndOf == tuple.ends[tuple.natts + 1]

-----------------------------------------------------------------------------

LEMMA WordIsNat == \A n \in Int : Word(n) \in Nat /\ Word(n) \in 0 .. WordMod - 1
  BY PageAssumption DEF Word

LEMMA WordFits == \A n \in Nat : n < WordMod => Word(n) = n
  BY PageAssumption DEF Word

LEMMA TupleShape ==
  ASSUME TupleTypeOK
  PROVE  /\ tuple.hasnull \in BOOLEAN
         /\ tuple.bits \in Seq(Byte) /\ tuple.mem \in Seq(Byte)
         /\ tuple.len \in Nat /\ tuple.hoff \in Nat /\ tuple.natts \in Nat
         /\ tuple.form \in Seq({"null", "int", "short", "external", "long", "compressed"})
         /\ tuple.size \in Seq(Nat) /\ tuple.ends \in Seq(Nat)
  BY TuplesAssumption DEF TupleTypeOK

LEMMA PadRange == \A n \in Nat : PadAfter(n) \in 0 .. 3 /\ PadAfter(n) = word_padding(n)
  BY DEF PadAfter, word_padding

(* What Stored says of one attribute, with its parts typed.                *)
LEMMA AttributeStored ==
  ASSUME TupleTypeOK, Stored(tuple), NEW a \in Attributes(tuple)
  PROVE  /\ a \in Nat /\ a < tuple.natts /\ a \in Columned
         /\ tuple.form[a + 1] \in {"null", "int", "short", "external", "long", "compressed"}
         /\ tuple.size[a + 1] \in Nat
         /\ tuple.ends[a + 1] \in Nat /\ tuple.ends[a + 2] \in Nat
         /\ tuple.ends[a + 2] <= Len(tuple.mem) /\ Len(tuple.mem) \in Nat
         /\ tuple.ends[a + 2] <= EndOf /\ EndOf \in Nat /\ EndOf <= Len(tuple.mem)
         /\ tuple.form[a + 1] = "null" => tuple.ends[a + 2] = tuple.ends[a + 1]
         /\ tuple.form[a + 1] # "null" =>
              tuple.ends[a + 2] = StartOf(tuple, a) + tuple.size[a + 1]
         /\ tuple.form[a + 1] # "null" => (tuple.form[a + 1] = "int" <=> Kind(a) = "int")
         /\ tuple.form[a + 1] = "null" <=> tuple.hasnull /\ NullBit(tuple, a)
         /\ a \in Required => tuple.form[a + 1] # "null"
         /\ HeaderStored(tuple, a)
         /\ \A k \in tuple.ends[a + 1] .. StartOf(tuple, a) - 1 : tuple.mem[k + 1] = 0
<1> USE DEF EndOf
<1>1. tuple.natts <= Len(Columns) /\ tuple.natts \in Nat /\ a \in 0 .. tuple.natts - 1
  BY TupleShape, ColumnsAssumption DEF Stored, Attributes
<1>2. /\ Len(tuple.form) = tuple.natts /\ Len(tuple.size) = tuple.natts
      /\ Len(tuple.ends) = tuple.natts + 1
      /\ tuple.ends[tuple.natts + 1] <= Len(tuple.mem)
  BY DEF Stored
<1>3. /\ a + 1 \in 1 .. tuple.natts /\ a + 1 \in 1 .. tuple.natts + 1
      /\ a + 2 \in 1 .. tuple.natts + 1 /\ tuple.natts + 1 \in 1 .. tuple.natts + 1
      /\ a \in Columned
  BY <1>1, ColumnsAssumption DEF Columned
<1>4. /\ tuple.form[a + 1] \in {"null", "int", "short", "external", "long", "compressed"}
      /\ tuple.size[a + 1] \in Nat
      /\ tuple.ends[a + 1] \in Nat /\ tuple.ends[a + 2] \in Nat
      /\ tuple.ends[tuple.natts + 1] \in Nat /\ Len(tuple.mem) \in Nat
  <2>1. tuple.form[a + 1] \in {"null", "int", "short", "external", "long", "compressed"}
    BY <1>2, <1>3, TupleShape, ElementOfSeq
  <2>2. tuple.size[a + 1] \in Nat
    BY <1>2, <1>3, TupleShape, ElementOfSeq
  <2>3. /\ tuple.ends[a + 1] \in Nat /\ tuple.ends[a + 2] \in Nat
        /\ tuple.ends[tuple.natts + 1] \in Nat
    BY <1>2, <1>3, TupleShape, ElementOfSeq
  <2>4. Len(tuple.mem) \in Nat
    BY TupleShape
  <2> QED
    BY <2>1, <2>2, <2>3, <2>4
<1>5. /\ tuple.ends[a + 2] = IF tuple.form[a + 1] = "null" THEN tuple.ends[a + 1]
                            ELSE StartOf(tuple, a) + tuple.size[a + 1]
      /\ tuple.ends[a + 2] <= tuple.ends[tuple.natts + 1]
      /\ tuple.form[a + 1] # "null" => (tuple.form[a + 1] = "int" <=> Kind(a) = "int")
      /\ HeaderStored(tuple, a)
      /\ tuple.form[a + 1] = "null" <=> tuple.hasnull /\ NullBit(tuple, a)
      /\ a \in Required => tuple.form[a + 1] # "null"
      /\ \A k \in tuple.ends[a + 1] .. StartOf(tuple, a) - 1 : tuple.mem[k + 1] = 0
  BY <1>1 DEF Stored, Attributes
<1>6. a \in Nat /\ a < tuple.natts /\ tuple.ends[a + 2] <= Len(tuple.mem)
  <2>1. tuple.ends[a + 2] <= tuple.ends[tuple.natts + 1]
    BY ONLY <1>5
  <2>2. tuple.ends[a + 2] <= Len(tuple.mem)
    BY ONLY <1>2, <1>4, <2>1
  <2>3. a \in Nat /\ a < tuple.natts
    BY ONLY <1>1
  <2> QED
    BY <2>2, <2>3
<1>7. /\ tuple.form[a + 1] = "null" => tuple.ends[a + 2] = tuple.ends[a + 1]
      /\ tuple.form[a + 1] # "null" =>
           tuple.ends[a + 2] = StartOf(tuple, a) + tuple.size[a + 1]
  BY ONLY <1>5
<1> HIDE DEF EndOf
<1>8. tuple.ends[a + 2] <= EndOf /\ EndOf \in Nat /\ EndOf <= Len(tuple.mem)
  BY <1>2, <1>4, <1>5 DEF EndOf
<1> QED
  BY ONLY <1>3, <1>4, <1>5, <1>6, <1>7, <1>8, Zenon

(* A sound tuple is stored, and nothing is skipped before a long value.    *)
LEMMA SoundIsStored ==
  ASSUME TupleTypeOK, Sound(tuple), NEW a \in Columned
  PROVE  /\ Stored(tuple) /\ a \in Attributes(tuple)
         /\ tuple.form[a + 1] \in {"long", "compressed"} => tuple.ends[a + 1] % 4 = 0
BY TupleShape, ColumnsAssumption DEF Sound, Complete, Tight, Columned, Attributes

(* The code finds the null bits the server wrote.                          *)
LEMMA PresentIsStored ==
  ASSUME TupleTypeOK, Stored(tuple), NEW a \in Attributes(tuple)
  PROVE  has_attribute(a) <=> tuple.form[a + 1] # "null"
<1>1. tuple.form[a + 1] = "null" <=> tuple.hasnull /\ NullBit(tuple, a)
  BY AttributeStored
<1>2. CASE ~ tuple.hasnull
  BY <1>1, <1>2 DEF has_attribute
<1>3. CASE tuple.hasnull
  <2>1. a \in Nat /\ a < tuple.natts
    BY AttributeStored
  <2>2. tuple.natts <= ByteBits * Len(tuple.bits) /\ tuple.natts \in Nat /\ Len(tuple.bits) \in Nat
    BY <1>3, TupleShape DEF Stored
  <2>3. \A b \in Nat \ {0}, n \in Nat : a < b * n => a \div b < n
    BY <2>1
  <2>4. a \div ByteBits < Len(tuple.bits)
    BY <2>1, <2>2, <2>3, ColumnsAssumption
  <2>5. att_isnull(a) <=> NullBit(tuple, a)
    BY <2>4 DEF att_isnull, BitmapByte, NullBit
  <2> QED
    BY <1>1, <1>3, <2>5 DEF has_attribute
<1> QED
  BY <1>2, <1>3

(* A value that needs no pad bytes begins where the one before it ends.    *)
LEMMA StartIsEnd ==
  ASSUME TupleTypeOK, Stored(tuple), NEW a \in Attributes(tuple),
         tuple.form[a + 1] # "int",
         tuple.form[a + 1] \in {"long", "compressed"} => tuple.ends[a + 1] % 4 = 0
  PROVE  StartOf(tuple, a) = tuple.ends[a + 1]
<1>1. tuple.ends[a + 1] \in Nat
  BY AttributeStored
<1>2. CASE tuple.form[a + 1] \in {"long", "compressed"}
  <2>1. tuple.ends[a + 1] % 4 = 0
    BY <1>2
  <2>2. \A n \in Nat : n % 4 = 0 => n + ((-n) % 4) = n
    OBVIOUS
  <2>3. StartOf(tuple, a) = tuple.ends[a + 1] + ((-tuple.ends[a + 1]) % 4)
    BY <1>2 DEF StartOf, PadAfter, Aligned
  <2> QED
    BY ONLY <1>1, <2>1, <2>2, <2>3
<1>3. CASE tuple.form[a + 1] \notin {"long", "compressed"}
  BY <1>1, <1>3 DEF StartOf, Aligned
<1> QED
  BY <1>2, <1>3

(* A value begins at most three bytes after the end of the one before it.  *)
LEMMA StartsSoon ==
  ASSUME TupleTypeOK, Stored(tuple), NEW a \in Attributes(tuple)
  PROVE  StartOf(tuple, a) - tuple.ends[a + 1] \in 0 .. 3 /\ StartOf(tuple, a) \in Nat
<1>1. tuple.ends[a + 1] \in Nat
  BY AttributeStored
<1>2. PadAfter(tuple.ends[a + 1]) \in 0 .. 3
  BY <1>1, PadRange
<1> QED
  BY <1>1, <1>2 DEF StartOf

(* At the start of a stored value the code finds its size, and its bytes   *)
(* lie in the page.                                                        *)
LEMMA VarlenaDecoded ==
  ASSUME TupleTypeOK, Stored(tuple), NEW a \in Attributes(tuple),
         tuple.form[a + 1] # "null", Kind(a) # "int"
  PROVE  /\ StartOf(tuple, a) \in Nat
         /\ HeaderInPage(StartOf(tuple, a))
         /\ VarSize(StartOf(tuple, a)) = tuple.size[a + 1]
         /\ tuple.size[a + 1] > 0
         /\ len_type(StartOf(tuple, a)) = "NORMAL" => tuple.size[a + 1] > VARHDRSZ
         /\ InPage(StartOf(tuple, a), tuple.size[a + 1])
<1> DEFINE p == StartOf(tuple, a)
<1>1. /\ tuple.form[a + 1] \in {"short", "external", "long", "compressed"}
      /\ tuple.size[a + 1] \in Nat /\ tuple.ends[a + 1] \in Nat
      /\ p + tuple.size[a + 1] <= Len(tuple.mem) /\ Len(tuple.mem) \in Nat
      /\ HeaderStored(tuple, a)
  BY AttributeStored, TupleShape
<1>2. p \in Nat
  BY StartsSoon
<1>3. p \in Nat
  BY <1>2
<1>4. tuple.size[a + 1] > 0
  BY <1>1, ColumnsAssumption DEF HeaderStored, VARHDRSZ
<1>5. ByteAt(p) \in Nat
  <2>1. p + 1 \in 1 .. Len(tuple.mem)
    BY <1>1, <1>3, <1>4
  <2>2. tuple.mem[p + 1] \in Byte
    BY <2>1, TupleShape
  <2> QED
    BY <2>2 DEF ByteAt, Byte
<1>6. CASE tuple.form[a + 1] = "short"
  <2>1. ByteAt(p) = 2 * tuple.size[a + 1] + 1
    BY <1>1, <1>6 DEF HeaderStored, ByteAt
  <2>2. ByteAt(p) % 2 = 1 /\ ByteAt(p) # 1 /\ ByteAt(p) \div 2 = tuple.size[a + 1]
    BY <2>1, <1>1, <1>4
  <2> QED
    BY <1>1, <1>2, <1>3, <1>4, <2>2 DEF HeaderInPage, InPage, VarSize, len_type
<1>7. CASE tuple.form[a + 1] = "external"
  <2>1. ByteAt(p) = 1 /\ tuple.size[a + 1] = ToastSize
    BY <1>1, <1>7 DEF HeaderStored, ByteAt
  <2> QED
    BY <1>1, <1>2, <1>3, <1>4, <2>1 DEF HeaderInPage, InPage, VarSize, len_type
<1>8. CASE tuple.form[a + 1] \in {"long", "compressed"}
  <2>1. ByteAt(p) % 4 \in {0, 2} /\ tuple.size[a + 1] > VARHDRSZ
    BY <1>1, <1>8 DEF HeaderStored, ByteAt
  <2>2. _size(p) \div 4 = tuple.size[a + 1]
    <3>1. /\ p + 1 + 1 = p + 2 /\ p + 1 + 2 = p + 3 /\ p + 1 + 3 = p + 4
          /\ p + 2 + 1 = p + 3 /\ p + 3 + 1 = p + 4
      BY <1>3
    <3> QED
      BY <1>1, <1>8, <3>1 DEF HeaderStored, ByteAt, _size
  <2>3. ByteAt(p) % 2 = 0
    BY <1>5, <2>1
  <2>4. len_type(p) \in {"NORMAL", "COMPRESSED"}
    BY <2>3 DEF len_type
  <2> QED
    BY <1>1, <1>2, <1>3, <2>1, <2>2, <2>3, <2>4 DEF HeaderInPage, InPage, VarSize, VARHDRSZ
<1> QED
  BY <1>1, <1>6, <1>7, <1>8

(* A stored number is found behind the pad bytes the server wrote.         *)
LEMMA IntegerDecoded ==
  ASSUME TupleTypeOK, Stored(tuple), NEW a \in Attributes(tuple),
         tuple.form[a + 1] # "null", Kind(a) = "int"
  PROVE  /\ StartOf(tuple, a) = tuple.ends[a + 1] + word_padding(tuple.ends[a + 1])
         /\ tuple.ends[a + 2] = StartOf(tuple, a) + 4
         /\ word_padding(tuple.ends[a + 1]) \in 0 .. 3
         /\ InPage(StartOf(tuple, a), 4)
<1>1. tuple.form[a + 1] = "int" /\ tuple.size[a + 1] = 4
  BY AttributeStored DEF HeaderStored
<1>2. StartOf(tuple, a) = tuple.ends[a + 1] + PadAfter(tuple.ends[a + 1])
  BY <1>1 DEF StartOf, Aligned
<1> QED
  BY <1>1, <1>2, AttributeStored, PadRange DEF InPage

(* No end of an attribute is beyond an unsigned number.                    *)
LEMMA EndsFit ==
  ASSUME TupleTypeOK, Stored(tuple), NEW k \in 1 .. tuple.natts + 1
  PROVE  /\ tuple.ends[k] \in Nat /\ tuple.ends[k] <= EndOf /\ EndOf \in Nat
         /\ Word(tuple.ends[k]) = tuple.ends[k] /\ Word(EndOf) = EndOf
<1> USE DEF EndOf
<1>1. /\ tuple.natts <= Len(Columns) /\ tuple.natts \in Nat
      /\ Len(tuple.ends) = tuple.natts + 1
      /\ tuple.ends[1] = 0 /\ tuple.ends \in Seq(Nat)
  BY TupleShape DEF Stored
<1>2. tuple.ends[k] \in Nat /\ tuple.ends[tuple.natts + 1] \in Nat
  <2>1. tuple.natts + 1 \in 1 .. Len(tuple.ends) /\ k \in 1 .. Len(tuple.ends)
    BY <1>1
  <2> QED
    BY <1>1, <2>1, ElementOfSeq
<1>3. tuple.ends[tuple.natts + 1] < WordMod
  <2>1. tuple.len < WordMod /\ tuple.len - tuple.hoff = tuple.ends[tuple.natts + 1]
    BY DEF Stored
  <2>2. tuple.len \in Nat /\ tuple.hoff \in Nat /\ WordMod \in Nat
    BY TupleShape, PageAssumption
  <2> QED
    BY <1>2, <2>1, <2>2
<1>4. tuple.ends[k] <= tuple.ends[tuple.natts + 1]
  <2>1. CASE k = 1
    BY <1>1, <1>2, <2>1
  <2>2. CASE k # 1
    <3>1. k - 2 \in Attributes(tuple) /\ (k - 2) + 2 = k
      BY <1>1, <2>2 DEF Attributes
    <3> QED
      BY <3>1 DEF Stored
  <2> QED
    BY <2>1, <2>2
<1>5. WordMod \in Nat
  BY PageAssumption
<1>6. tuple.ends[k] < WordMod
  BY <1>2, <1>3, <1>4, <1>5
<1> QED
  BY <1>2, <1>3, <1>4, <1>6, WordFits

(* The walk goes on: one more column was found, where the server put it.   *)
LEMMA FoundInPlace ==
  ASSUME LayoutInv, AtColumn, NEW p \in {NotThere} \union Nat, NEW next \in 0 .. WordMod - 1, Found(p, next),
         Sound(tuple) => p = PlaceOf(tuple, col) /\ next = tuple.ends[col + 2]
  PROVE  LayoutInv'
<1>1. /\ col \in Nat /\ col + 1 \in 0 .. Len(Columns) /\ Len(Columns) \in Nat
      /\ Len(at) = col /\ at \in Seq({NotThere} \union Nat) /\ pc = "columns"
  BY ColumnsAssumption DEF LayoutInv, WalkTypeOK, AtColumn
<1>2. /\ at' = Append(at, p) /\ col' = col + 1 /\ pos' = next /\ tuple' = tuple /\ pc' = pc
  BY DEF Found
<1>3. /\ at' \in Seq({NotThere} \union Nat) /\ Len(at') = col + 1
      /\ \A k \in 1 .. col : at'[k] = at[k]
      /\ at'[col + 1] = p
  BY <1>1, <1>2
<1>4. WalkTypeOK'
  BY <1>1, <1>2, <1>3 DEF WalkTypeOK
<1>5. InPlace'
  <2>1. SUFFICES ASSUME Sound(tuple)
                 PROVE  /\ \A k \in DOMAIN at' : at'[k] = PlaceOf(tuple, k - 1)
                        /\ pos' = tuple.ends[Len(at') + 1]
    BY <1>1, <1>2 DEF InPlace
  <2>2. \A k \in 1 .. col : at[k] = PlaceOf(tuple, k - 1)
    BY <1>1, <2>1 DEF LayoutInv, InPlace
  <2>3. DOMAIN at' = 1 .. col + 1
    BY <1>3, <1>1
  <2>4. p = PlaceOf(tuple, col) /\ next = tuple.ends[col + 2]
    BY <2>1
  <2>5. (col + 1) - 1 = col /\ Len(at') + 1 = col + 2
    BY <1>1, <1>3
  <2>6. \A k \in DOMAIN at' : at'[k] = PlaceOf(tuple, k - 1)
    <3> TAKE k \in DOMAIN at'
    <3>1. CASE k = col + 1
      BY <3>1, <2>4, <2>5, <1>3
    <3>2. CASE k # col + 1
      BY <3>2, <2>2, <2>3, <1>1, <1>3
    <3> QED
      BY <3>1, <3>2
  <2> QED
    BY <2>4, <2>5, <2>6, <1>2
<1>6. TupleTypeOK'
  BY <1>2 DEF LayoutInv, TupleTypeOK
<1> QED
  BY <1>4, <1>5, <1>6 DEF LayoutInv

(* A size is a natural number, whatever the bytes.                         *)
LEMMA SizeIsNat ==
  ASSUME TupleTypeOK, NEW p \in Nat, HeaderInPage(p)
  PROVE  VarSize(p) \in Nat
<1>1. tuple.mem \in Seq(Byte) /\ Len(tuple.mem) \in Nat /\ p + 1 \in 1 .. Len(tuple.mem)
  BY TupleShape DEF HeaderInPage, InPage
<1>2. ByteMod \in Nat
  BY ColumnsAssumption
<1>3. ByteAt(p) \in Nat
  <2>1. tuple.mem[p + 1] \in Byte
    BY <1>1, ElementOfSeq
  <2> QED
    BY <2>1 DEF ByteAt, Byte
<1>4. CASE ByteAt(p) % 2 = 1
  BY <1>3, <1>4, ColumnsAssumption DEF VarSize, len_type
<1>5. CASE ByteAt(p) % 2 # 1
  <2>1. ByteAt(p) % 2 = 0 /\ len_type(p) \in {"NORMAL", "COMPRESSED"}
    BY <1>3, <1>5 DEF len_type
  <2>2. p + 4 <= Len(tuple.mem)
    BY <2>1 DEF HeaderInPage, InPage
  <2>3. ByteAt(p + 1) \in Nat /\ ByteAt(p + 2) \in Nat /\ ByteAt(p + 3) \in Nat
    <3>1. /\ p + 1 + 1 \in 1 .. Len(tuple.mem) /\ p + 2 + 1 \in 1 .. Len(tuple.mem)
          /\ p + 3 + 1 \in 1 .. Len(tuple.mem)
      BY <1>1, <2>2
    <3>2. /\ tuple.mem[p + 1 + 1] \in Byte /\ tuple.mem[p + 2 + 1] \in Byte
          /\ tuple.mem[p + 3 + 1] \in Byte
      BY <1>1, <3>1, ElementOfSeq
    <3> QED
      BY <3>2 DEF ByteAt, Byte
  <2>4. \A m, n \in Nat : m * n \in Nat
    OBVIOUS
  <2>5. _size(p) \in Nat
    BY <1>2, <1>3, <2>3, <2>4 DEF _size
  <2>6. \A n \in Nat : n \div 4 \in Nat
    OBVIOUS
  <2> QED
    BY <2>1, <2>5, <2>6 DEF VarSize
<1> QED
  BY <1>4, <1>5

(* What the walk has come to, in a sound tuple.                            *)
LEMMA NextColumn ==
  ASSUME LayoutInv, AtColumn
  PROVE  /\ col \in Columned /\ pos \in Nat
         /\ Sound(tuple) => pos = tuple.ends[col + 1]
BY ColumnsAssumption DEF LayoutInv, WalkTypeOK, InPlace, AtColumn, Columned

LEMMA EndKeeps ==
  ASSUME LayoutInv, NEW how \in Outcomes, End(how),
         Sound(tuple) => how \notin {"misfit", "offpage"}
  PROVE  LayoutInv'
BY DEF LayoutInv, TupleTypeOK, WalkTypeOK, InPlace, End, Outcomes

LEMMA WalkStep ==
  ASSUME LayoutInv,
         KeyMissing \/ WalkOffPage \/ NullColumn \/ GetInteger \/ GetVarlena
  PROVE  LayoutInv'
<1> USE NextColumn
<1>0. AtColumn
  BY DEF KeyMissing, WalkOffPage, NullColumn, GetInteger, GetVarlena
<1>1. TupleTypeOK /\ col \in Columned /\ pos \in Nat
  BY <1>0 DEF LayoutInv
<1>a. Sound(tuple) =>
        /\ Stored(tuple) /\ col \in Attributes(tuple) /\ col + 2 \in 1 .. tuple.natts + 1
        /\ tuple.form[col + 1] \in {"long", "compressed"} => tuple.ends[col + 1] % 4 = 0
  <2>1. Sound(tuple) =>
          /\ Stored(tuple) /\ col \in Attributes(tuple)
          /\ tuple.form[col + 1] \in {"long", "compressed"} => tuple.ends[col + 1] % 4 = 0
    BY <1>1, SoundIsStored
  <2>2. tuple.natts \in Nat
    BY <1>1, TupleShape
  <2>3. col \in Attributes(tuple) => col + 2 \in 1 .. tuple.natts + 1
    BY <2>2 DEF Attributes
  <2> QED
    BY <2>1, <2>3
<1>2. Sound(tuple) =>
        /\ pos = tuple.ends[col + 1]
        /\ has_attribute(col) <=> tuple.form[col + 1] # "null"
        /\ PlaceOf(tuple, col) = IF tuple.form[col + 1] # "null" THEN StartOf(tuple, col)
                                 ELSE NotThere
  BY <1>0, <1>1, <1>a, PresentIsStored, AttributeStored DEF PlaceOf
<1>3. CASE KeyMissing
  <2>1. ~ Sound(tuple)
    BY <1>1, <1>a, <1>2, <1>3, AttributeStored DEF KeyMissing
  <2> QED
    BY <1>3, <2>1, EndKeeps DEF KeyMissing, Outcomes
<1>4. CASE WalkOffPage
  <2>1. ~ Sound(tuple)
    <3>1. SUFFICES ASSUME Sound(tuple) PROVE FALSE
      OBVIOUS
    <3>2. CASE Kind(col) = "int"
      BY <1>1, <1>a, <1>2, <1>4, <3>1, <3>2, IntegerDecoded DEF WalkOffPage
    <3>3. CASE Kind(col) # "int"
      <4>1. tuple.form[col + 1] # "null" /\ tuple.form[col + 1] # "int"
        BY <1>1, <1>a, <1>2, <1>4, <3>1, <3>3, AttributeStored DEF WalkOffPage
      <4>2. HeaderInPage(StartOf(tuple, col)) /\ StartOf(tuple, col) = pos
        BY <1>1, <1>a, <1>2, <3>1, <3>3, <4>1, VarlenaDecoded, StartIsEnd
      <4> QED
        BY <1>4, <3>3, <4>2 DEF WalkOffPage
    <3> QED
      BY <3>2, <3>3
  <2> QED
    BY <1>4, <2>1, EndKeeps DEF WalkOffPage, Outcomes
<1>5. CASE NullColumn
  <2>1. Sound(tuple) => NotThere = PlaceOf(tuple, col) /\ pos = tuple.ends[col + 2]
    BY <1>1, <1>a, <1>2, <1>5, AttributeStored DEF NullColumn
  <2>2. pos \in 0 .. WordMod - 1
    BY DEF LayoutInv, WalkTypeOK
  <2> QED
    BY <1>0, <1>1, <1>5, <2>1, <2>2, FoundInPlace DEF NullColumn
<1>6. CASE GetInteger
  <2> DEFINE p == pos + word_padding(pos)
             next == Word(pos + 4 + word_padding(pos))
  <2>1. p \in Nat /\ next \in 0 .. WordMod - 1
    <3>1. word_padding(pos) \in 0 .. 3
      BY <1>1, PadRange
    <3> QED
      BY <1>1, <3>1, WordIsNat
  <2>2. Sound(tuple) => p = PlaceOf(tuple, col) /\ next = tuple.ends[col + 2]
    <3>1. SUFFICES ASSUME Sound(tuple)
                   PROVE  p = PlaceOf(tuple, col) /\ next = tuple.ends[col + 2]
      OBVIOUS
    <3>2. /\ StartOf(tuple, col) = tuple.ends[col + 1] + word_padding(tuple.ends[col + 1])
          /\ tuple.ends[col + 2] = StartOf(tuple, col) + 4
          /\ word_padding(tuple.ends[col + 1]) \in 0 .. 3
      BY <1>1, <1>a, <1>2, <1>6, <3>1, IntegerDecoded DEF GetInteger
    <3>3. Word(tuple.ends[col + 2]) = tuple.ends[col + 2]
      BY <1>1, <1>a, <3>1, EndsFit
    <3>4. pos + 4 + word_padding(pos) = tuple.ends[col + 2]
      BY <1>1, <1>2, <3>1, <3>2
    <3> QED
      BY <1>1, <1>2, <1>6, <3>1, <3>2, <3>3, <3>4 DEF GetInteger
  <2>3. Found(p, next)
    BY <1>6 DEF GetInteger
  <2> QED
    BY <1>0, <2>1, <2>2, <2>3, FoundInPlace
<1>7. CASE GetVarlena
  <2> DEFINE next == Word(pos + VarSize(pos))
  <2>1. Sound(tuple) => pos = PlaceOf(tuple, col) /\ next = tuple.ends[col + 2]
    <3>1. SUFFICES ASSUME Sound(tuple)
                   PROVE  pos = PlaceOf(tuple, col) /\ next = tuple.ends[col + 2]
      OBVIOUS
    <3>2. /\ StartOf(tuple, col) = pos /\ VarSize(pos) = tuple.size[col + 1]
          /\ tuple.ends[col + 2] = StartOf(tuple, col) + tuple.size[col + 1]
      <4>1. tuple.form[col + 1] # "null" /\ tuple.form[col + 1] # "int"
        BY <1>1, <1>a, <1>2, <1>7, <3>1, AttributeStored DEF GetVarlena
      <4>2. StartOf(tuple, col) = pos
        BY <1>1, <1>a, <1>2, <3>1, <4>1, StartIsEnd
      <4> QED
        BY <1>1, <1>a, <1>7, <3>1, <4>1, <4>2, VarlenaDecoded, AttributeStored DEF GetVarlena
    <3>3. Word(tuple.ends[col + 2]) = tuple.ends[col + 2]
      BY <1>1, <1>a, <3>1, EndsFit
    <3> QED
      BY <1>1, <1>2, <1>7, <3>1, <3>2, <3>3 DEF GetVarlena
  <2>2. next \in 0 .. WordMod - 1
    <3>1. HeaderInPage(pos) /\ Len(tuple.mem) \in Nat /\ tuple.mem \in Seq(Byte)
      BY <1>1, <1>7, TupleShape DEF GetVarlena
    <3>2. VarSize(pos) \in Nat
      BY <1>1, <3>1, SizeIsNat
    <3> QED
      BY <1>1, <3>2, WordIsNat
  <2>3. Found(pos, next)
    BY <1>7 DEF GetVarlena
  <2> QED
    BY <1>0, <1>1, <2>1, <2>2, <2>3, FoundInPlace
<1> QED
  BY <1>3, <1>4, <1>5, <1>6, <1>7

(* Printing a sound tuple's columns reads nothing beyond the page.         *)
LEMMA ValueStep ==
  ASSUME LayoutInv, WalkEnds \/ TextOffPage \/ BuildText \/ FetchFails
  PROVE  LayoutInv'
<1>1. CASE WalkEnds
  BY <1>1, ColumnsAssumption
  DEF WalkEnds, LayoutInv, TupleTypeOK, WalkTypeOK, InPlace, Outcomes
<1>2. CASE TextOffPage
  <2>1. ~ Sound(tuple)
    <3>1. SUFFICES ASSUME Sound(tuple) PROVE FALSE
      OBVIOUS
    <3> DEFINE p == at[col + 1]
    <3>2. /\ TupleTypeOK /\ Built /\ col \in Columned /\ col + 1 \in DOMAIN at
          /\ \A k \in DOMAIN at : at[k] = PlaceOf(tuple, k - 1)
          /\ (col + 1) - 1 = col
      BY <1>2, <3>1, ColumnsAssumption
      DEF TextOffPage, AtValue, WithData, Toasted, LayoutInv, WalkTypeOK, InPlace, Columned
    <3>3. p # NotThere /\ Kind(col) # "int" /\ p = PlaceOf(tuple, col)
      BY <3>2 DEF Built
    <3>4. /\ tuple.form[col + 1] # "null" /\ p = StartOf(tuple, col)
          /\ Stored(tuple) /\ col \in Attributes(tuple)
      BY <3>1, <3>2, <3>3, SoundIsStored DEF PlaceOf
    <3>5. /\ VarSize(p) = tuple.size[col + 1] /\ tuple.size[col + 1] > 0
          /\ len_type(p) = "NORMAL" => tuple.size[col + 1] > VARHDRSZ
          /\ InPage(p, VarSize(p)) /\ HeaderInPage(p)
          /\ tuple.size[col + 1] \in Nat /\ p \in Nat
      BY <3>1, <3>2, <3>3, <3>4, VarlenaDecoded, AttributeStored
    <3>6. Len(tuple.mem) \in Nat /\ Len(tuple.mem) < WordMod
      <4>1. Len(tuple.mem) <= PageSize
        BY <3>1 DEF Sound, Stored
      <4>2. tuple.mem \in Seq(Byte)
        BY <3>2, TupleShape
      <4> QED
        BY <4>1, <4>2, PageAssumption
    <3>7. CASE Toasted /\ ~ InPage(p, ToastSize)
      BY <3>5, <3>7 DEF Toasted, VarSize
    <3>8. CASE WithData /\ ~ DataInPage(p)
      <4>1. DataOffset(p) \in {1, 4} /\ DataOffset(p) <= VarSize(p)
        BY <3>5 DEF DataOffset, VARHDRSZ
      <4>2. p + VarSize(p) <= Len(tuple.mem)
        BY <3>5 DEF InPage
      <4>3. DataLength(p) = VarSize(p) - DataOffset(p)
        BY <3>5, <3>6, <4>1, <4>2, WordFits, PageAssumption DEF DataLength
      <4>4. DataInPage(p)
        BY <3>5, <3>6, <4>1, <4>2, <4>3 DEF DataInPage, InPage
      <4> QED
        BY <3>8, <4>4
    <3> QED
      BY <1>2, <3>7, <3>8 DEF TextOffPage
  <2> QED
    BY <1>2, <2>1, EndKeeps DEF TextOffPage, Outcomes
<1>3. CASE BuildText
  BY <1>3, ColumnsAssumption
  DEF BuildText, AtValue, LayoutInv, TupleTypeOK, WalkTypeOK, InPlace
<1>4. CASE FetchFails
  BY <1>4, EndKeeps DEF FetchFails, Outcomes
<1> QED
  BY <1>1, <1>2, <1>3, <1>4

(* The walk over a sound tuple ends where the tuple ends.                  *)
LEMMA AssertionStep ==
  ASSUME LayoutInv, PrintRow \/ AssertionFails
  PROVE  LayoutInv'
<1>1. CASE PrintRow
  BY <1>1, EndKeeps DEF PrintRow, Outcomes
<1>2. CASE AssertionFails
  <2>1. ~ Sound(tuple)
    <3>1. SUFFICES ASSUME Sound(tuple) PROVE FALSE
      OBVIOUS
    <3>2. /\ TupleTypeOK /\ Len(at) = Len(Columns) /\ Len(Columns) \in Nat
          /\ pos = tuple.ends[Len(Columns) + 1] /\ pos # data_size
      BY <1>2, <3>1, ColumnsAssumption
      DEF AssertionFails, AtAssertion, LayoutInv, WalkTypeOK, InPlace
    <3>3. tuple.len - tuple.hoff = tuple.ends[Len(Columns) + 1]
      BY <3>1 DEF Sound, Stored, Complete
    <3>4. Word(tuple.ends[Len(Columns) + 1]) = tuple.ends[Len(Columns) + 1]
      BY <3>1, <3>2, EndsFit DEF Sound, Complete
    <3> QED
      BY <3>2, <3>3, <3>4 DEF data_size
  <2> QED
    BY <1>2, <2>1, EndKeeps DEF AssertionFails, Outcomes
<1> QED
  BY <1>1, <1>2

LEMMA LayoutInvHolds == Spec => []LayoutInv
<1>1. Init => LayoutInv
  <2>1. SUFFICES ASSUME Init PROVE LayoutInv
    OBVIOUS
  <2>2. TupleTypeOK /\ WalkTypeOK
    BY <2>1, ColumnsAssumption, PageAssumption DEF Init, TupleTypeOK, WalkTypeOK, Outcomes
  <2>3. InPlace
    BY <2>1 DEF Init, InPlace, Sound, Stored
  <2> QED
    BY <2>2, <2>3 DEF LayoutInv
<1>2. LayoutInv /\ [Next]_vars => LayoutInv'
  <2>1. SUFFICES ASSUME LayoutInv, [Next]_vars PROVE LayoutInv'
    OBVIOUS
  <2>2. CASE KeyMissing \/ WalkOffPage \/ NullColumn \/ GetInteger \/ GetVarlena
    BY <2>1, <2>2, WalkStep
  <2>3. CASE WalkEnds \/ TextOffPage \/ BuildText \/ FetchFails
    BY <2>1, <2>3, ValueStep
  <2>4. CASE PrintRow \/ AssertionFails
    BY <2>1, <2>4, AssertionStep
  <2>5. CASE UNCHANGED vars
    BY <2>1, <2>5 DEF vars, LayoutInv, TupleTypeOK, WalkTypeOK, InPlace
  <2> QED
    BY <2>1, <2>2, <2>3, <2>4, <2>5 DEF Next, Terminated
<1> QED
  BY <1>1, <1>2, PTL DEF Spec

(* Whatever the bytes of a tuple, the walk keeps to its columns and its    *)
(* position is an unsigned number.                                         *)
THEOREM LayoutTypeCorrect == Spec => []LayoutTypeOK
<1>1. LayoutInv => LayoutTypeOK
  BY DEF LayoutInv, WalkTypeOK, LayoutTypeOK
<1> QED
  BY <1>1, LayoutInvHolds, PTL

(* For every table and every tuple the server stored complete and without  *)
(* misaligned long values, user_code finds every column where it was       *)
(* stored, and its assertions and its reads hold.                          *)
THEOREM ReadAsStored == Spec => []ColumnsReadInPlace
<1>1. LayoutInv => ColumnsReadInPlace
  BY DEF LayoutInv, InPlace, Sound, ColumnsReadInPlace
<1> QED
  BY <1>1, LayoutInvHolds, PTL

-----------------------------------------------------------------------------
(* What the walk makes of a value it looks for in the wrong place.         *)

LEMMA Grows ==
  ASSUME NEW m \in Nat, NEW u \in Nat, NEW v \in Nat, u <= v
  PROVE  m * u <= m * v /\ m * u \in Nat /\ m * v \in Nat
  OBVIOUS

LEMMA DigitFits ==
  ASSUME NEW m \in Nat, NEW b \in 0 .. m - 1, NEW n \in Nat, NEW u \in 0 .. n - 1
  PROVE  b + m * u \in 0 .. m * n - 1
<1>1. u <= n - 1 /\ n - 1 \in Nat /\ u \in Nat
  OBVIOUS
<1>2. m * u <= m * (n - 1) /\ m * u \in Nat
  BY <1>1, Grows
<1>3. m * (n - 1) = m * n - m /\ m * n \in Nat
  OBVIOUS
<1> QED
  BY ONLY <1>2, <1>3, m \in Nat, b \in 0 .. m - 1

(* The bytes of a length word that is small against two bytes, looked at   *)
(* from one, two or three bytes further to the left.                       *)
LEMMA ShiftedWord ==
  ASSUME NEW m \in Nat \ {0}, NEW h0 \in 0 .. m - 1, NEW h1 \in 0 .. m - 1,
         NEW h2 \in 0 .. m - 1, NEW h3 \in 0 .. m - 1, NEW size \in Nat,
         (h0 + m * (h1 + m * (h2 + m * h3))) \div 4 = size, 4 * size + 3 < m * m
  PROVE  /\ m * (h0 + m * (h1 + m * h2)) >= 4 * (size * m)
         /\ m * (m * (h0 + m * h1)) >= 4 * (size * m)
         /\ h0 # 0 => m * (m * (m * h0)) >= 4 * (size * m)
<1>1. PICK u \in Nat : u = h2 + m * h3
  OBVIOUS
<1>2. PICK v \in Nat : v = h1 + m * u
  OBVIOUS
<1>3. PICK w \in Nat : w = h0 + m * v
  OBVIOUS
<1>4. w \div 4 = size
  BY <1>1, <1>2, <1>3
<1>5. 4 * size <= w /\ w < m * m
  <2>1. 4 * size <= w /\ w <= 4 * size + 3
    BY ONLY <1>3, <1>4, w \in Nat, size \in Nat
  <2>2. m * m \in Nat
    OBVIOUS
  <2> QED
    BY ONLY <2>1, <2>2, 4 * size + 3 < m * m, size \in Nat, w \in Nat
<1>6. u = 0
  <2>1. SUFFICES ASSUME 1 <= u PROVE FALSE
    BY <1>1
  <2>2. m * 1 <= m * u
    BY <2>1, Grows
  <2>3. m <= v
    BY ONLY <1>2, <2>2, m \in Nat \ {0}, u \in Nat, h1 \in 0 .. m - 1
  <2>4. m * m <= m * v
    BY <2>3, Grows
  <2> QED
    BY ONLY <1>3, <1>5, <2>4, m \in Nat \ {0}, v \in Nat, w \in Nat, h0 \in 0 .. m - 1
<1>7. v = h1 /\ h2 = 0
  <2>1. m * h3 \in Nat
    OBVIOUS
  <2> QED
    BY ONLY <1>1, <1>2, <1>6, <2>1, h2 \in 0 .. m - 1, h1 \in 0 .. m - 1, m \in Nat \ {0}
<1>8. w = h0 + m * h1 /\ w = h0 + m * (h1 + m * h2)
  BY ONLY <1>3, <1>7, m \in Nat \ {0}, h0 \in 0 .. m - 1, h1 \in 0 .. m - 1
<1>9. 4 * (size * m) <= m * w
  <2>1. m * (4 * size) <= m * w
    BY <1>5, Grows
  <2>2. m * (4 * size) = 4 * (size * m)
    OBVIOUS
  <2> QED
    BY <2>1, <2>2
<1>10. m * w <= m * (m * w)
  <2>1. 1 * w <= m * w
    OBVIOUS
  <2>2. w <= m * w /\ m * w \in Nat
    BY <2>1
  <2> QED
    BY <2>2, Grows
<1>11. ASSUME h0 # 0
       PROVE  m * (m * (m * h0)) >= 4 * (size * m)
  <2>1. m * 1 <= m * h0 /\ m * h0 \in Nat
    BY <1>11, Grows
  <2>2. m * m <= m * (m * h0) /\ m * (m * h0) \in Nat
    BY <2>1, Grows
  <2>3. 4 * size <= m * (m * h0)
    BY <1>5, <2>2
  <2>4. m * (4 * size) <= m * (m * (m * h0))
    BY <2>2, <2>3, Grows
  <2>5. m * (4 * size) = 4 * (size * m)
    OBVIOUS
  <2> QED
    BY <2>4, <2>5
<1>12. m * w \in Nat /\ m * (m * w) \in Nat /\ 4 * (size * m) \in Nat
  OBVIOUS
<1>13. 4 * (size * m) <= m * (m * w)
  BY ONLY <1>9, <1>10, <1>12
<1> QED
  BY <1>8, <1>9, <1>11, <1>13

LEMMA ByteModIsNat == ByteMod \in Nat \ {0} /\ ByteMod >= 4
<1>1. ByteMod \in Nat /\ ByteMod % 4 = 0
  BY ColumnsAssumption
<1>2. ByteMod # 0
  <2>1. SUFFICES ASSUME ByteMod = 0 PROVE FALSE
    OBVIOUS
  <2>2. WordMod = 0
    BY <2>1, ColumnsAssumption
  <2> QED
    BY <2>2, PageAssumption
<1> QED
  BY ONLY <1>1, <1>2

LEMMA BytesTyped ==
  ASSUME TupleTypeOK, NEW p \in Nat, NEW n \in Nat, InPage(p, n), NEW k \in 0 .. n - 1
  PROVE  ByteAt(p + k) = tuple.mem[p + k + 1] /\ ByteAt(p + k) \in 0 .. ByteMod - 1
<1>1. tuple.mem \in Seq(Byte) /\ Len(tuple.mem) \in Nat
  BY TupleShape
<1>2. p + k + 1 \in 1 .. Len(tuple.mem)
  BY <1>1 DEF InPage
<1>3. tuple.mem[p + k + 1] \in Byte
  BY <1>1, <1>2, ElementOfSeq
<1> QED
  BY <1>3 DEF ByteAt, Byte

(* The four bytes of a length word.                                        *)
LEMMA FourBytes ==
  ASSUME TupleTypeOK, NEW p \in Nat, InPage(p, 4)
  PROVE  /\ ByteAt(p) = tuple.mem[p + 1] /\ ByteAt(p) \in 0 .. ByteMod - 1
         /\ ByteAt(p + 1) = tuple.mem[p + 2] /\ ByteAt(p + 1) \in 0 .. ByteMod - 1
         /\ ByteAt(p + 2) = tuple.mem[p + 3] /\ ByteAt(p + 2) \in 0 .. ByteMod - 1
         /\ ByteAt(p + 3) = tuple.mem[p + 4] /\ ByteAt(p + 3) \in 0 .. ByteMod - 1
<1>1. ByteAt(p + 0) = tuple.mem[p + 0 + 1] /\ ByteAt(p + 0) \in 0 .. ByteMod - 1
  <2>1. 0 \in 0 .. 4 - 1
    OBVIOUS
  <2> QED
    BY <2>1, BytesTyped
<1>2. ByteAt(p + 1) = tuple.mem[p + 1 + 1] /\ ByteAt(p + 1) \in 0 .. ByteMod - 1
  <2>1. 1 \in 0 .. 4 - 1
    OBVIOUS
  <2> QED
    BY <2>1, BytesTyped
<1>3. ByteAt(p + 2) = tuple.mem[p + 2 + 1] /\ ByteAt(p + 2) \in 0 .. ByteMod - 1
  <2>1. 2 \in 0 .. 4 - 1
    OBVIOUS
  <2> QED
    BY <2>1, BytesTyped
<1>4. ByteAt(p + 3) = tuple.mem[p + 3 + 1] /\ ByteAt(p + 3) \in 0 .. ByteMod - 1
  <2>1. 3 \in 0 .. 4 - 1
    OBVIOUS
  <2> QED
    BY <2>1, BytesTyped
<1>5. p + 0 = p /\ p + 0 + 1 = p + 1 /\ p + 1 + 1 = p + 2 /\ p + 2 + 1 = p + 3 /\ p + 3 + 1 = p + 4
  OBVIOUS
<1> QED
  BY <1>1, <1>2, <1>3, <1>4, <1>5

(* A size found anywhere is at most a quarter of what a word holds.        *)
LEMMA SizeFits ==
  ASSUME TupleTypeOK, NEW p \in Nat, HeaderInPage(p)
  PROVE  VarSize(p) \in 0 .. WordMod \div 4
<1>1. ByteAt(p) \in 0 .. ByteMod - 1
  <2>1. InPage(p, 1) /\ p + 0 = p
    BY DEF HeaderInPage
  <2> QED
    BY <2>1, BytesTyped
<1>2. ByteMod \in Nat \ {0} /\ ByteMod >= 4 /\ WordMod \in Nat
  BY ByteModIsNat, PageAssumption
<1>3. WordMod = ByteMod * (ByteMod * (ByteMod * ByteMod))
  BY <1>2, ColumnsAssumption
<1>4. CASE len_type(p) \in {"NORMAL", "COMPRESSED"}
  <2>1. InPage(p, 4)
    BY <1>1, <1>4 DEF HeaderInPage, len_type
  <2>2. PICK b1, b2, b3 \in 0 .. ByteMod - 1 :
          ByteAt(p + 1) = b1 /\ ByteAt(p + 2) = b2 /\ ByteAt(p + 3) = b3
    BY <2>1, FourBytes
  <2>3. b2 + ByteMod * b3 \in 0 .. ByteMod * ByteMod - 1 /\ ByteMod * ByteMod \in Nat
    BY <1>2, DigitFits
  <2>4. /\ b1 + ByteMod * (b2 + ByteMod * b3) \in 0 .. ByteMod * (ByteMod * ByteMod) - 1
        /\ ByteMod * (ByteMod * ByteMod) \in Nat
    BY <1>2, <2>3, DigitFits
  <2>5. _size(p) \in 0 .. ByteMod * (ByteMod * (ByteMod * ByteMod)) - 1
    BY <1>1, <1>2, <2>2, <2>4, DigitFits DEF _size
  <2>6. _size(p) \in 0 .. WordMod - 1
    BY <1>3, <2>5
  <2>7. VarSize(p) = _size(p) \div 4
    BY <1>4 DEF VarSize
  <2>8. \A s \in 0 .. WordMod - 1 : s \div 4 \in 0 .. WordMod \div 4
    BY ONLY <1>2
  <2> QED
    BY <2>6, <2>7, <2>8
<1>5. CASE len_type(p) = "ONE_BYTE"
  <2>1. VarSize(p) = ByteAt(p) \div 2
    BY <1>5 DEF VarSize
  <2>2. 2 * ByteMod <= WordMod
    <3>1. ByteMod * 1 <= ByteMod * ByteMod /\ ByteMod * ByteMod \in Nat
      BY <1>2, Grows
    <3>2. 2 <= ByteMod * ByteMod
      BY <1>2, <3>1
    <3>3. ByteMod * 2 <= ByteMod * (ByteMod * ByteMod) /\ ByteMod * (ByteMod * ByteMod) \in Nat
      BY <1>2, <3>1, <3>2, Grows
    <3>4. 1 * (ByteMod * (ByteMod * ByteMod)) <= ByteMod * (ByteMod * (ByteMod * ByteMod))
      BY <1>2, <3>3
    <3> QED
      BY <1>2, <1>3, <3>3, <3>4
  <2>3. \A b \in 0 .. ByteMod - 1 : b \div 2 \in 0 .. WordMod \div 4
    BY ONLY <1>2, <2>2
  <2> QED
    BY <1>1, <2>1, <2>3
<1>6. CASE len_type(p) = "TOASTED"
  <2>1. VarSize(p) = ToastSize
    BY <1>6 DEF VarSize
  <2> QED
    BY <1>2, <2>1, ColumnsAssumption, PlacesAssumption, PageAssumption
<1> QED
  BY <1>4, <1>5, <1>6 DEF len_type

(* A long value looked for in the pad bytes before it seems to be empty,   *)
(* or longer than its tuple.                                               *)
LEMMA LongMisread ==
  ASSUME TupleTypeOK, Stored(tuple), NEW a \in Attributes(tuple),
         tuple.form[a + 1] \in {"long", "compressed"}, tuple.ends[a + 1] % 4 # 0,
         HeaderInPage(tuple.ends[a + 1])
  PROVE  /\ len_type(tuple.ends[a + 1]) = "NORMAL"
         /\ \/ VarSize(tuple.ends[a + 1]) = 0
            \/ VarSize(tuple.ends[a + 1]) > EndOf
         /\ tuple.ends[a + 1] < tuple.ends[a + 2]
<1>1. PICK p \in Nat : p = tuple.ends[a + 1]
  BY AttributeStored
<1>2. PICK size \in Nat : size = tuple.size[a + 1]
  BY AttributeStored
<1>3. PICK q \in Nat : q = StartOf(tuple, a) /\ q - p \in 0 .. 3
  BY <1>1, StartsSoon
<1>4. q # p
  <2>1. q = p + ((-p) % 4)
    BY <1>1, <1>3 DEF StartOf, Aligned, PadAfter
  <2>2. \A n \in Nat : n + ((-n) % 4) = n => n % 4 = 0
    OBVIOUS
  <2> QED
    BY <1>1, <2>1, <2>2
<1>5. /\ tuple.ends[a + 2] = q + size /\ q + size <= Len(tuple.mem) /\ Len(tuple.mem) \in Nat
      /\ size > 4 /\ EndOf \in Nat
      /\ \A k \in p .. q - 1 : tuple.mem[k + 1] = 0
  <2>1. size > VARHDRSZ
    BY <1>2, AttributeStored DEF HeaderStored
  <2> QED
    BY <1>1, <1>2, <1>3, <2>1, AttributeStored DEF VARHDRSZ
<1>6. PICK m \in Nat \ {0} : m = ByteMod
  BY ByteModIsNat
<1>7. size * m > EndOf /\ 4 * size + 3 < m * m
  BY <1>1, <1>2, <1>6, LongAssumption DEF TupleTypeOK, EndOf
<1>8. PICK h0, h1, h2, h3 \in 0 .. m - 1 :
        /\ ByteAt(q) = h0 /\ ByteAt(q + 1) = h1 /\ ByteAt(q + 2) = h2 /\ ByteAt(q + 3) = h3
        /\ tuple.mem[q + 1] = h0 /\ tuple.mem[q + 2] = h1
        /\ tuple.mem[q + 3] = h2 /\ tuple.mem[q + 4] = h3
  <2>1. InPage(q, 4)
    BY <1>5 DEF InPage
  <2> QED
    BY <1>6, <2>1, FourBytes
<1>9. (h0 + m * (h1 + m * (h2 + m * h3))) \div 4 = size
  <2>1. HeaderStored(tuple, a)
    BY AttributeStored
  <2>2. q + 1 + 1 = q + 2 /\ q + 1 + 2 = q + 3 /\ q + 1 + 3 = q + 4
    OBVIOUS
  <2> QED
    BY <1>2, <1>3, <1>6, <1>8, <2>1, <2>2 DEF HeaderStored
<1>10. /\ m * (h0 + m * (h1 + m * h2)) >= 4 * (size * m)
       /\ m * (m * (h0 + m * h1)) >= 4 * (size * m)
       /\ h0 # 0 => m * (m * (m * h0)) >= 4 * (size * m)
  BY <1>7, <1>9, ShiftedWord
<1>11. \A k \in 0 .. 3 : p + k < q => ByteAt(p + k) = 0
  <2>1. SUFFICES ASSUME NEW k \in 0 .. 3, p + k < q PROVE ByteAt(p + k) = 0
    OBVIOUS
  <2>2. p + k \in p .. q - 1
    BY <2>1
  <2> QED
    BY <1>5, <2>2 DEF ByteAt
<1>12. ByteAt(p) = 0
  BY <1>3, <1>4, <1>11
<1>13. len_type(p) = "NORMAL" /\ VarSize(p) = _size(p) \div 4
  BY <1>12 DEF len_type, VarSize
<1>14. _size(p) = 0 \/ _size(p) >= 4 * (size * m)
  <2>0. _size(p) = m * (ByteAt(p + 1) + m * (ByteAt(p + 2) + m * ByteAt(p + 3)))
    <3>1. ByteAt(p + 1) \in Int /\ ByteAt(p + 2) \in Int /\ ByteAt(p + 3) \in Int
      <4>1. InPage(p, 4)
        BY <1>3, <1>5 DEF InPage
      <4> QED
        BY <1>6, <4>1, FourBytes
    <3> QED
      BY <1>6, <1>12, <3>1 DEF _size
  <2>1. CASE q = p + 1
    <3>1. ByteAt(p + 1) = h0 /\ ByteAt(p + 2) = h1 /\ ByteAt(p + 3) = h2
      <4>1. q + 1 = p + 2 /\ q + 2 = p + 3
        BY <2>1
      <4> QED
        BY <1>8, <2>1, <4>1
    <3> QED
      BY <1>10, <2>0, <3>1
  <2>2. CASE q = p + 2
    <3>1. ByteAt(p + 1) = 0 /\ ByteAt(p + 2) = h0 /\ ByteAt(p + 3) = h1
      <4>1. q + 1 = p + 3 /\ p + 1 < q
        BY <2>2
      <4> QED
        BY <1>8, <1>11, <2>2, <4>1
    <3>2. 0 + m * (h0 + m * h1) = m * (h0 + m * h1)
      OBVIOUS
    <3> QED
      BY <1>10, <2>0, <3>1, <3>2
  <2>3. CASE q = p + 3
    <3>1. ByteAt(p + 1) = 0 /\ ByteAt(p + 2) = 0 /\ ByteAt(p + 3) = h0
      BY <1>8, <1>11, <2>3
    <3>2. 0 + m * h0 = m * h0 /\ 0 + m * (m * h0) = m * (m * h0)
      OBVIOUS
    <3>3. _size(p) = m * (m * (m * h0))
      BY <2>0, <3>1, <3>2
    <3>4. h0 = 0 => m * (m * (m * h0)) = 0
      OBVIOUS
    <3> QED
      BY <1>10, <3>3, <3>4
  <2> QED
    BY <1>3, <1>4, <2>1, <2>2, <2>3
<1>15. PICK s \in Nat : s = _size(p)
  <2>1. InPage(p, 4)
    BY <1>3, <1>5 DEF InPage
  <2>2. PICK b0, b1, b2, b3 \in 0 .. m - 1 :
          ByteAt(p) = b0 /\ ByteAt(p + 1) = b1 /\ ByteAt(p + 2) = b2 /\ ByteAt(p + 3) = b3
    BY <1>6, <2>1, FourBytes
  <2>3. b0 + m * (b1 + m * (b2 + m * b3)) \in Nat
    OBVIOUS
  <2> QED
    BY <1>6, <2>2, <2>3 DEF _size
<1>16. PICK n \in Nat : n = size * m
  OBVIOUS
<1>17. s = 0 \/ s >= 4 * n
  BY <1>14, <1>15, <1>16
<1>18. s \div 4 = 0 \/ s \div 4 >= n
  BY ONLY <1>17, s \in Nat, n \in Nat
<1>19. n > EndOf
  BY <1>7, <1>16
<1>20. s \div 4 = 0 \/ s \div 4 > EndOf
  <2>1. s \div 4 \in Nat
    BY ONLY s \in Nat
  <2> QED
    BY <1>5, <1>18, <1>19, <2>1
<1>21. p < q + size
  BY <1>3, <1>5
<1> QED
  BY <1>1, <1>5, <1>13, <1>15, <1>20, <1>21

-----------------------------------------------------------------------------
(* What is printed is stored.  A walk that goes wrong cannot end where the *)
(* tuple ends with every text built: it is beyond the tuple for good, or   *)
(* found an empty text, whose length wraps, or stopped short of the end.   *)

EmptyPlaces == {p \in Nat : len_type(p) = "NORMAL" /\ VarSize(p) = 0}

EndsWith(t, p) == NextIsFrozen(t) /\ p = Word(t.len - t.hoff)

PlacedAt(t, c, p) ==
  \/ Kind(c) = "geometric"
  \/ p = PlaceOf(t, c)
  \/ c >= t.natts /\ EndsWith(t, p)

Passed(t, n) == IF n < t.natts THEN n ELSE t.natts

FoundEmpty ==
  \E k \in DOMAIN at :
    Kind(k - 1) = "varlena" /\ at[k] \in EmptyPlaces /\ (pc = "values" => col < k)

Derailed ==
  \/ pos > EndOf
  \/ FoundEmpty
  \/ Len(at) = Len(Columns) /\ pos # EndOf

OnTrack ==
  /\ \A k \in DOMAIN at : PlacedAt(tuple, k - 1, at[k])
  /\ pos = tuple.ends[Passed(tuple, Len(at)) + 1]

TrackInv ==
  /\ pos <= PageSize + WordMod \div 4
  /\ pc \in {"columns", "values"} /\ Stored(tuple) => Derailed \/ OnTrack
  /\ PrintedRowIsStored

(* What finding the next column at p, and going on at next, makes of a     *)
(* walk that is on its track.                                              *)
Leads(p, next) ==
  \/ next > EndOf
  \/ Kind(col) = "varlena" /\ p \in EmptyPlaces
  \/ col + 1 = Len(Columns) /\ next # EndOf
  \/ /\ PlacedAt(tuple, col, p)
     /\ next = tuple.ends[Passed(tuple, col + 1) + 1]

LEMMA EmptyKept ==
  ASSUME tuple' = tuple
  PROVE  EmptyPlaces' = EmptyPlaces
BY DEF EmptyPlaces, VarSize, _size, len_type, ByteAt

LEMMA TrackFound ==
  ASSUME LayoutInv, TrackInv, AtColumn, NEW p \in {NotThere} \union Nat, NEW next \in Nat,
         Found(p, next), pos <= next, next <= PageSize + WordMod \div 4,
         Stored(tuple) /\ OnTrack => Leads(p, next)
  PROVE  TrackInv'
<1>1. /\ col \in Nat /\ col + 1 \in 0 .. Len(Columns) /\ Len(Columns) \in Nat
      /\ Len(at) = col /\ at \in Seq({NotThere} \union Nat) /\ pc = "columns"
      /\ TupleTypeOK
  BY ColumnsAssumption DEF LayoutInv, WalkTypeOK, AtColumn
<1>2. /\ at' = Append(at, p) /\ col' = col + 1 /\ pos' = next /\ tuple' = tuple /\ pc' = pc
  BY DEF Found
<1>3. /\ Len(at') = col + 1 /\ DOMAIN at' = 1 .. col + 1 /\ DOMAIN at = 1 .. col
      /\ \A k \in 1 .. col : at'[k] = at[k]
      /\ at'[col + 1] = p
      /\ (col + 1) - 1 = col /\ col + 1 \in 1 .. col + 1 /\ col # Len(Columns)
  BY <1>1, <1>2 DEF AtColumn
<1>4. EmptyPlaces' = EmptyPlaces
  BY <1>2, EmptyKept
<1>5. PrintedRowIsStored'
  BY <1>1, <1>2 DEF PrintedRowIsStored
<1>6. ASSUME Stored(tuple)
      PROVE  Derailed' \/ OnTrack'
  <2>1. EndOf' = EndOf /\ EndOf \in Nat /\ pos \in Nat
    <3>0. tuple.natts \in Nat
      BY <1>1, TupleShape
    <3>1. tuple.natts + 1 \in 1 .. tuple.natts + 1
      BY <3>0
    <3>2. EndOf \in Nat
      BY <1>1, <1>6, <3>1, EndsFit
    <3>3. EndOf' = EndOf
      BY <1>2 DEF EndOf
    <3>4. pos \in Nat
      BY DEF LayoutInv, WalkTypeOK
    <3> QED
      BY <3>2, <3>3, <3>4
  <2>2. CASE pos > EndOf
    <3>1. next > EndOf
      BY ONLY <2>1, <2>2, next \in Nat, pos <= next
    <3> QED
      BY <1>2, <2>1, <3>1 DEF Derailed
  <2>3. CASE FoundEmpty
    <3>1. PICK k \in 1 .. col : Kind(k - 1) = "varlena" /\ at[k] \in EmptyPlaces
      BY <1>3, <2>3 DEF FoundEmpty
    <3>2. k \in DOMAIN at' /\ at'[k] \in EmptyPlaces'
      BY <1>1, <1>3, <1>4, <3>1
    <3>3. FoundEmpty'
      BY <1>1, <1>2, <3>1, <3>2 DEF FoundEmpty, Kind
    <3> QED
      BY <3>3 DEF Derailed
  <2>4. CASE OnTrack
    <3>1. Leads(p, next)
      BY <1>6, <2>4
    <3>2. CASE next > EndOf
      BY <1>2, <2>1, <3>2 DEF Derailed
    <3>3. CASE Kind(col) = "varlena" /\ p \in EmptyPlaces
      <4>1. FoundEmpty'
        BY <1>1, <1>2, <1>3, <1>4, <3>3 DEF FoundEmpty, Kind
      <4> QED
        BY <4>1 DEF Derailed
    <3>4. CASE col + 1 = Len(Columns) /\ next # EndOf
      BY <1>2, <1>3, <2>1, <3>4 DEF Derailed
    <3>5. CASE /\ PlacedAt(tuple, col, p)
               /\ next = tuple.ends[Passed(tuple, col + 1) + 1]
      <4>1. \A k \in DOMAIN at' : PlacedAt(tuple, k - 1, at'[k])
        <5> TAKE k \in DOMAIN at'
        <5>1. CASE k = col + 1
          BY <1>3, <3>5, <5>1
        <5>2. CASE k # col + 1
          <6>1. k \in DOMAIN at /\ at'[k] = at[k]
            BY <1>1, <1>3, <5>2
          <6> QED
            BY <2>4, <6>1 DEF OnTrack
        <5> QED
          BY <5>1, <5>2
      <4> QED
        BY <1>2, <1>3, <3>5, <4>1 DEF OnTrack
    <3> QED
      BY <3>1, <3>2, <3>3, <3>4, <3>5 DEF Leads
  <2> QED
    BY <1>1, <1>3, <1>6, <2>2, <2>3, <2>4 DEF TrackInv, Derailed
<1> QED
  BY <1>2, <1>5, <1>6 DEF TrackInv

(* Ending the walk without printing anything.                              *)
LEMMA TrackEnds ==
  ASSUME TrackInv, NEW how \in Outcomes \ {"printed"}, End(how)
  PROVE  TrackInv'
BY DEF TrackInv, End, Outcomes, PrintedRowIsStored

(* A walk on its track has come to the end of the attributes it passed.    *)
LEMMA TrackIsAt ==
  ASSUME LayoutInv, AtColumn, Stored(tuple), OnTrack
  PROVE  /\ col \in Columned /\ col \in Nat /\ tuple.natts \in Nat /\ EndOf \in Nat
         /\ col < tuple.natts => /\ col \in Attributes(tuple)
                                 /\ pos = tuple.ends[col + 1]
                                 /\ Passed(tuple, col + 1) + 1 = col + 2
         /\ col >= tuple.natts => /\ pos = EndOf
                                  /\ tuple.ends[Passed(tuple, col + 1) + 1] = EndOf
<1>1. /\ col \in Columned /\ Len(at) = col /\ TupleTypeOK /\ col \in Nat
  BY ColumnsAssumption DEF LayoutInv, WalkTypeOK, AtColumn, Columned
<1>2. tuple.natts \in Nat /\ tuple.natts + 1 \in 1 .. tuple.natts + 1
  BY <1>1, TupleShape
<1>3. EndOf \in Nat
  BY <1>1, <1>2, EndsFit
<1>4. pos = tuple.ends[Passed(tuple, col) + 1]
  BY <1>1 DEF OnTrack
<1>5. CASE col < tuple.natts
  <2>1. Passed(tuple, col) = col /\ Passed(tuple, col + 1) = col + 1 /\ (col + 1) + 1 = col + 2
    BY <1>1, <1>2, <1>5 DEF Passed
  <2> QED
    BY <1>1, <1>2, <1>3, <1>4, <1>5, <2>1 DEF Attributes
<1>6. CASE col >= tuple.natts
  <2>1. Passed(tuple, col) = tuple.natts /\ Passed(tuple, col + 1) = tuple.natts
    BY <1>1, <1>2, <1>6 DEF Passed
  <2> QED
    BY <1>1, <1>2, <1>3, <1>4, <1>6, <2>1 DEF EndOf
<1> QED
  BY <1>1, <1>2, <1>5, <1>6

LEMMA NullTrack ==
  ASSUME LayoutInv, NullColumn, Stored(tuple), OnTrack
  PROVE  Leads(NotThere, pos)
<1>1. AtColumn /\ TupleTypeOK /\ ~ has_attribute(col)
  BY DEF NullColumn, LayoutInv
<1>2. CASE col < tuple.natts
  <2>1. tuple.form[col + 1] = "null" /\ col \in Attributes(tuple)
    BY <1>1, <1>2, TrackIsAt, PresentIsStored
  <2>2. PlaceOf(tuple, col) = NotThere
    BY <2>1 DEF PlaceOf
  <2>3. tuple.ends[col + 2] = tuple.ends[col + 1]
    BY <1>1, <2>1, AttributeStored
  <2> QED
    BY <1>1, <1>2, <2>2, <2>3, TrackIsAt DEF Leads, PlacedAt
<1>3. CASE col >= tuple.natts
  <2>1. ~ (col < tuple.natts)
    BY <1>1, <1>3, TrackIsAt
  <2>2. PlaceOf(tuple, col) = NotThere
    BY <2>1 DEF PlaceOf
  <2> QED
    BY <1>1, <1>3, <2>2, TrackIsAt DEF Leads, PlacedAt
<1> QED
  BY <1>1, <1>2, <1>3, TrackIsAt

LEMMA IntegerTrack ==
  ASSUME LayoutInv, GetInteger, Stored(tuple), OnTrack
  PROVE  Leads(pos + word_padding(pos), pos + word_padding(pos) + 4)
<1>1. AtColumn /\ TupleTypeOK /\ has_attribute(col) /\ Kind(col) = "int"
  BY DEF GetInteger, LayoutInv
<1>2. CASE col < tuple.natts
  <2>1. tuple.form[col + 1] # "null" /\ col \in Attributes(tuple) /\ pos = tuple.ends[col + 1]
    BY <1>1, <1>2, TrackIsAt, PresentIsStored
  <2>2. /\ StartOf(tuple, col) = pos + word_padding(pos)
        /\ tuple.ends[col + 2] = StartOf(tuple, col) + 4
    BY <1>1, <2>1, IntegerDecoded
  <2>3. PlaceOf(tuple, col) = StartOf(tuple, col)
    BY <1>2, <2>1 DEF PlaceOf
  <2>4. Passed(tuple, col + 1) + 1 = col + 2
    BY <1>1, <1>2, TrackIsAt
  <2> QED
    BY <2>2, <2>3, <2>4 DEF Leads, PlacedAt
<1>3. CASE col >= tuple.natts
  <2>1. pos = EndOf /\ EndOf \in Nat
    BY <1>1, <1>3, TrackIsAt
  <2>2. word_padding(pos) \in 0 .. 3
    BY <2>1, PadRange
  <2>3. pos + word_padding(pos) + 4 > EndOf
    BY ONLY <2>1, <2>2
  <2> QED
    BY <2>3 DEF Leads
<1> QED
  BY <1>1, <1>2, <1>3, TrackIsAt

LEMMA FourAre ==
  ASSUME NEW S, NEW s \in Seq(S), NEW p \in Nat, p + 4 <= Len(s)
  PROVE  SubSeq(s, p + 1, p + 4) = <<s[p + 1], s[p + 2], s[p + 3], s[p + 4]>>
<1>1. SubSeq(s, p + 1, p + 4) = [k \in 1 .. 4 |-> s[p + k]]
  OBVIOUS
<1>2. <<s[p + 1], s[p + 2], s[p + 3], s[p + 4]>> = [k \in 1 .. 4 |-> s[p + k]]
  OBVIOUS
<1> QED
  BY <1>1, <1>2

(* A value that takes no room is a long one of no bytes, or a compressed   *)
(* one whose bytes are those of a frozen t_xmin.                           *)
LEMMA RoomlessValue ==
  ASSUME TupleTypeOK, NEW p \in Nat, HeaderInPage(p), VarSize(p) = 0
  PROVE  \/ len_type(p) = "NORMAL"
         \/ /\ len_type(p) = "COMPRESSED" /\ p + 4 <= Len(tuple.mem)
            /\ SubSeq(tuple.mem, p + 1, p + 4) = FrozenXmin
<1>1. ByteAt(p) \in 0 .. ByteMod - 1 /\ ByteMod \in Nat \ {0} /\ ByteMod >= 4
  <2>1. InPage(p, 1) /\ p + 0 = p
    BY DEF HeaderInPage
  <2> QED
    BY <2>1, BytesTyped, ByteModIsNat
<1>2. CASE len_type(p) = "TOASTED"
  BY <1>2, ColumnsAssumption DEF VarSize
<1>3. CASE len_type(p) = "ONE_BYTE"
  <2>1. ByteAt(p) \div 2 = 0 /\ ByteAt(p) % 2 = 1 /\ ByteAt(p) # 1
    BY <1>3 DEF VarSize, len_type
  <2> QED
    BY ONLY <1>1, <2>1
<1>4. CASE len_type(p) = "COMPRESSED"
  <2>1. InPage(p, 4) /\ ByteAt(p) % 2 = 0 /\ (ByteAt(p) \div 2) % 2 # 0
    BY <1>1, <1>4 DEF HeaderInPage, len_type
  <2>2. PICK b0, b1, b2, b3 \in 0 .. ByteMod - 1 :
          /\ ByteAt(p) = b0 /\ ByteAt(p + 1) = b1 /\ ByteAt(p + 2) = b2 /\ ByteAt(p + 3) = b3
          /\ tuple.mem[p + 1] = b0 /\ tuple.mem[p + 2] = b1
          /\ tuple.mem[p + 3] = b2 /\ tuple.mem[p + 4] = b3
    BY <2>1, FourBytes
  <2>3. PICK m \in Nat \ {0} : m = ByteMod /\ m >= 4
    BY <1>1
  <2>4. PICK u \in Nat : u = b2 + m * b3
    BY <2>3
  <2>5. PICK v \in Nat : v = b1 + m * u
    OBVIOUS
  <2>6. PICK w \in Nat : w = b0 + m * v
    OBVIOUS
  <2>7. w \div 4 = 0
    BY <1>4, <2>2, <2>3, <2>4, <2>5, <2>6 DEF VarSize, _size
  <2>8. w < 4
    BY ONLY <2>7, w \in Nat
  <2>9. v = 0 /\ w = b0
    <3>1. v >= 1 => m * 1 <= m * v
      BY Grows
    <3>2. m * v \in Nat /\ (v = 0 => m * v = 0)
      OBVIOUS
    <3> QED
      BY <2>3, <2>6, <2>8, <3>1, <3>2
  <2>10. u = 0 /\ b1 = 0
    <3>1. u >= 1 => m * 1 <= m * u
      BY Grows
    <3>2. m * u \in Nat
      OBVIOUS
    <3> QED
      BY <2>3, <2>5, <2>9, <3>1, <3>2
  <2>11. b3 = 0 /\ b2 = 0
    <3>1. b3 >= 1 => m * 1 <= m * b3
      BY <2>3, Grows
    <3>2. m * b3 \in Nat
      BY <2>3
    <3> QED
      BY <2>3, <2>4, <2>10, <3>1, <3>2
  <2>12. b0 = 2
    BY ONLY <2>1, <2>2, <2>8, <2>9, w \in Nat
  <2>13. p + 4 <= Len(tuple.mem) /\ tuple.mem \in Seq(Byte)
    BY <2>1, TupleShape DEF InPage
  <2>14. SubSeq(tuple.mem, p + 1, p + 4) = <<2, 0, 0, 0>>
    <3>1. /\ tuple.mem[p + 1] = 2 /\ tuple.mem[p + 2] = 0
          /\ tuple.mem[p + 3] = 0 /\ tuple.mem[p + 4] = 0
      BY <2>2, <2>10, <2>11, <2>12
    <3>2. SubSeq(tuple.mem, p + 1, p + 4)
            = <<tuple.mem[p + 1], tuple.mem[p + 2], tuple.mem[p + 3], tuple.mem[p + 4]>>
      BY ONLY <2>13, FourAre, p \in Nat
    <3> QED
      BY ONLY <3>1, <3>2
  <2> QED
    BY <1>4, <2>13, <2>14 DEF FrozenXmin
<1> QED
  BY <1>2, <1>3, <1>4 DEF len_type

LEMMA VarlenaTrack ==
  ASSUME LayoutInv, GetVarlena, Stored(tuple), OnTrack
  PROVE  Leads(pos, pos + VarSize(pos))
<1>1. AtColumn /\ TupleTypeOK /\ has_attribute(col) /\ Kind(col) # "int" /\ HeaderInPage(pos)
  BY DEF GetVarlena, LayoutInv
<1>2. pos \in Nat /\ VarSize(pos) \in Nat
  BY <1>1, SizeFits, PageAssumption DEF LayoutInv, WalkTypeOK
<1>3. Kind(col) \in {"varlena", "geometric"}
  BY <1>1, TrackIsAt, ColumnsAssumption DEF Kind, Columned
<1>4. CASE col < tuple.natts
  <2>1. /\ tuple.form[col + 1] # "null" /\ col \in Attributes(tuple)
        /\ pos = tuple.ends[col + 1] /\ Passed(tuple, col + 1) + 1 = col + 2
        /\ PlaceOf(tuple, col) = StartOf(tuple, col)
    BY <1>1, <1>4, TrackIsAt, PresentIsStored DEF PlaceOf
  <2>2. tuple.form[col + 1] # "int" /\ tuple.ends[col + 2] <= EndOf /\ EndOf \in Nat
    BY <1>1, <2>1, AttributeStored
  <2>3. CASE tuple.form[col + 1] \in {"long", "compressed"} => tuple.ends[col + 1] % 4 = 0
    <3>1. StartOf(tuple, col) = pos
      BY <1>1, <2>1, <2>2, <2>3, StartIsEnd
    <3>2. VarSize(pos) = tuple.size[col + 1]
      BY <1>1, <2>1, <3>1, VarlenaDecoded
    <3>3. tuple.ends[col + 2] = pos + VarSize(pos)
      BY <1>1, <2>1, <3>1, <3>2, AttributeStored
    <3> QED
      BY <2>1, <3>1, <3>3 DEF Leads, PlacedAt
  <2>4. CASE tuple.form[col + 1] \in {"long", "compressed"} /\ tuple.ends[col + 1] % 4 # 0
    <3>1. /\ len_type(pos) = "NORMAL" /\ pos < tuple.ends[col + 2]
          /\ (VarSize(pos) = 0 \/ VarSize(pos) > EndOf)
      BY <1>1, <2>1, <2>4, LongMisread
    <3>2. CASE VarSize(pos) > EndOf
      <4>1. pos + VarSize(pos) > EndOf
        BY <1>2, <2>2, <3>2
      <4> QED
        BY <4>1 DEF Leads
    <3>3. CASE VarSize(pos) = 0 /\ Kind(col) = "varlena"
      BY <1>2, <3>1, <3>3 DEF Leads, EmptyPlaces
    <3>4. CASE VarSize(pos) = 0 /\ Kind(col) = "geometric"
      <4>1. col + 1 = Len(Columns)
        BY <1>1, <3>4, TrackIsAt, PlacesAssumption
      <4>2. pos + VarSize(pos) # EndOf
        <5>1. tuple.ends[col + 2] \in Nat
          BY <1>1, <2>1, AttributeStored
        <5> QED
          BY <1>2, <2>2, <3>1, <3>4, <5>1
      <4> QED
        BY <4>1, <4>2 DEF Leads
    <3> QED
      BY <1>3, <3>1, <3>2, <3>3, <3>4
  <2> QED
    BY <2>3, <2>4
<1>5. CASE col >= tuple.natts
  <2>1. /\ pos = EndOf /\ EndOf \in Nat
        /\ tuple.ends[Passed(tuple, col + 1) + 1] = EndOf
    BY <1>1, <1>5, TrackIsAt
  <2>2. CASE VarSize(pos) # 0
    <3>1. pos + VarSize(pos) > EndOf
      BY ONLY <1>2, <2>1, <2>2
    <3> QED
      BY <3>1 DEF Leads
  <2>3. CASE VarSize(pos) = 0
    <3>1. pos + VarSize(pos) = tuple.ends[Passed(tuple, col + 1) + 1]
      BY <1>2, <2>1, <2>3
    <3>2. CASE Kind(col) = "geometric"
      BY <3>1, <3>2 DEF Leads, PlacedAt
    <3>3. CASE Kind(col) = "varlena" /\ len_type(pos) = "NORMAL"
      BY <1>2, <2>3, <3>3 DEF Leads, EmptyPlaces
    <3>4. CASE /\ pos + 4 <= Len(tuple.mem)
               /\ SubSeq(tuple.mem, pos + 1, pos + 4) = FrozenXmin
      <4>1. NextIsFrozen(tuple)
        BY <2>1, <3>4 DEF NextIsFrozen, EndOf
      <4>2. pos = Word(tuple.len - tuple.hoff)
        <5>1. tuple.natts + 1 \in 1 .. tuple.natts + 1
          BY <1>1, TupleShape
        <5>2. Word(EndOf) = EndOf
          BY <1>1, <5>1, EndsFit
        <5>3. tuple.len - tuple.hoff = EndOf
          BY DEF Stored, EndOf
        <5> QED
          BY <2>1, <5>2, <5>3
      <4> QED
        BY <1>5, <3>1, <4>1, <4>2 DEF Leads, PlacedAt, EndsWith
    <3> QED
      BY <1>1, <1>2, <1>3, <2>3, <3>2, <3>3, <3>4, RoomlessValue
  <2> QED
    BY <2>2, <2>3
<1> QED
  BY <1>1, <1>4, <1>5, TrackIsAt

LEMMA TrackColumn ==
  ASSUME LayoutInv, TrackInv,
         KeyMissing \/ WalkOffPage \/ NullColumn \/ GetInteger \/ GetVarlena
  PROVE  TrackInv'
<1>1. /\ AtColumn /\ TupleTypeOK /\ pos \in Nat /\ pos <= PageSize + WordMod \div 4
  BY DEF LayoutInv, WalkTypeOK, TrackInv,
         KeyMissing, WalkOffPage, NullColumn, GetInteger, GetVarlena
<1>2. /\ PageSize \in Nat /\ WordMod \in Nat /\ WordMod \div 4 \in Nat
      /\ 4 * PageSize <= WordMod
      /\ Len(tuple.mem) \in Nat /\ Len(tuple.mem) <= PageSize
  BY <1>1, PageAssumption, PlacesAssumption, TupleShape DEF TupleTypeOK
<1>3. CASE KeyMissing
  BY <1>3, TrackEnds DEF KeyMissing, Outcomes
<1>4. CASE WalkOffPage
  BY <1>4, TrackEnds DEF WalkOffPage, Outcomes
<1>5. CASE NullColumn
  BY <1>1, <1>5, NullTrack, TrackFound DEF NullColumn
<1>6. CASE GetInteger
  <2> DEFINE next == pos + word_padding(pos) + 4
  <2>1. word_padding(pos) \in 0 .. 3 /\ pos + word_padding(pos) + 4 <= Len(tuple.mem)
    BY <1>1, <1>6, PadRange DEF GetInteger, InPage
  <2>2. next \in Nat /\ pos <= next /\ next <= PageSize /\ pos + 4 + word_padding(pos) = next
    BY <1>1, <1>2, <2>1
  <2>3. next <= PageSize + WordMod \div 4 /\ next < WordMod
    <3>1. PageSize # 0
      BY PageAssumption
    <3> QED
      BY ONLY <1>2, <2>2, <3>1
  <2>4. Word(pos + 4 + word_padding(pos)) = next
    BY <2>2, <2>3, WordFits
  <2>5. Found(pos + word_padding(pos), next)
    BY <1>6, <2>4 DEF GetInteger
  <2>6. pos + word_padding(pos) \in Nat
    BY <1>1, <2>1
  <2> QED
    BY <1>1, <1>6, <2>2, <2>3, <2>5, <2>6, IntegerTrack, TrackFound
<1>7. CASE GetVarlena
  <2> DEFINE next == pos + VarSize(pos)
  <2>1. HeaderInPage(pos)
    BY <1>7 DEF GetVarlena
  <2>2. VarSize(pos) \in 0 .. WordMod \div 4 /\ pos < Len(tuple.mem)
    BY <1>1, <1>2, <2>1, SizeFits DEF HeaderInPage, InPage
  <2>3. next \in Nat /\ pos <= next /\ next <= PageSize + WordMod \div 4 /\ next < WordMod
    <3>1. PICK s \in Nat : s = VarSize(pos)
      BY <1>2, <2>2
    <3>2. s <= WordMod \div 4
      BY <1>2, <2>2, <3>1
    <3>3. pos < PageSize
      BY <1>1, <1>2, <2>2
    <3>4. pos + s \in Nat /\ pos <= pos + s /\ pos + s < PageSize + WordMod \div 4
      BY ONLY <1>1, <1>2, <3>2, <3>3, s \in Nat
    <3>5. pos + s < WordMod
      BY ONLY <1>1, <1>2, <3>2, <3>3, s \in Nat
    <3> QED
      BY <1>2, <3>1, <3>4, <3>5
  <2>4. Found(pos, next)
    BY <1>7, <2>3, WordFits DEF GetVarlena
  <2> QED
    BY <1>1, <1>7, <2>3, <2>4, VarlenaTrack, TrackFound
<1> QED
  BY <1>3, <1>4, <1>5, <1>6, <1>7

(* No text is built of an empty place: its length has wrapped.             *)
LEMMA TrackValue ==
  ASSUME LayoutInv, TrackInv, WalkEnds \/ TextOffPage \/ BuildText \/ FetchFails
  PROVE  TrackInv'
<1>1. /\ TupleTypeOK /\ Len(Columns) \in Nat /\ col \in Nat
      /\ at \in Seq({NotThere} \union Nat) /\ Len(at) \in Nat
  BY ColumnsAssumption DEF LayoutInv, WalkTypeOK
<1>2. CASE WalkEnds
  <2>1. /\ pc = "columns" /\ col' = 0 /\ pc' = "values"
        /\ tuple' = tuple /\ pos' = pos /\ at' = at
    BY <1>2 DEF WalkEnds
  <2>2. EmptyPlaces' = EmptyPlaces
    BY <2>1, EmptyKept
  <2>3. FoundEmpty => FoundEmpty'
    BY <1>1, <2>1, <2>2 DEF FoundEmpty, Kind
  <2>4. Derailed => Derailed'
    BY <2>1, <2>3 DEF Derailed, EndOf
  <2>5. OnTrack => OnTrack'
    BY <2>1 DEF OnTrack
  <2>6. PrintedRowIsStored'
    BY <2>1 DEF PrintedRowIsStored
  <2> QED
    BY <2>1, <2>4, <2>5, <2>6 DEF TrackInv
<1>3. CASE TextOffPage
  BY <1>3, TrackEnds DEF TextOffPage, Outcomes
<1>4. CASE BuildText
  <2>1. /\ pc = "values" /\ col' = col + 1 /\ pc' = pc /\ col < Len(Columns)
        /\ tuple' = tuple /\ pos' = pos /\ at' = at
    BY <1>4 DEF BuildText, AtValue
  <2>2. EmptyPlaces' = EmptyPlaces
    BY <2>1, EmptyKept
  <2>3. col + 1 \in DOMAIN at /\ DOMAIN at \subseteq Nat
    BY <1>1, <2>1 DEF LayoutInv, WalkTypeOK
  <2>4. ~ (Kind(col) = "varlena" /\ at[col + 1] \in EmptyPlaces)
    <3>1. SUFFICES ASSUME Kind(col) = "varlena", at[col + 1] \in EmptyPlaces PROVE FALSE
      OBVIOUS
    <3>2. PICK p \in Nat : p = at[col + 1]
      BY <3>1 DEF EmptyPlaces
    <3>3. len_type(p) = "NORMAL" /\ VarSize(p) = 0
      BY <3>1, <3>2 DEF EmptyPlaces
    <3>4. DataInPage(p)
      <4>1. p # NotThere
        BY DEF NotThere
      <4> QED
        BY <1>4, <3>1, <3>2, <3>3, <4>1 DEF BuildText, WithData, Built
    <3>5. DataOffset(p) = 4 /\ DataLength(p) = Word(0 - 4)
      BY <3>3 DEF DataOffset, DataLength, VARHDRSZ
    <3>6. /\ WordMod \in Nat /\ 4 * PageSize <= WordMod /\ PageSize \in Nat /\ PageSize > 0
          /\ Len(tuple.mem) \in Nat /\ Len(tuple.mem) <= PageSize
      BY <1>1, PageAssumption, PlacesAssumption, TupleShape DEF TupleTypeOK
    <3>7. Word(0 - 4) = WordMod - 4
      <4>1. WordMod >= 4
        BY ONLY <3>6
      <4>2. \A w \in Nat : w >= 4 => (0 - 4) % w = w - 4
        OBVIOUS
      <4> QED
        BY <3>6, <4>1, <4>2 DEF Word
    <3>8. p + 4 + (WordMod - 4) <= Len(tuple.mem)
      BY <3>4, <3>5, <3>7 DEF DataInPage, InPage
    <3> QED
      BY ONLY <3>6, <3>8, p \in Nat
  <2>5. ASSUME FoundEmpty
        PROVE  FoundEmpty'
    <3>1. PICK k \in DOMAIN at :
            Kind(k - 1) = "varlena" /\ at[k] \in EmptyPlaces /\ col < k
      BY <2>1, <2>5 DEF FoundEmpty
    <3>2. k # col + 1
      <4>1. (col + 1) - 1 = col
        BY <1>1
      <4> QED
        BY <2>4, <3>1, <4>1
    <3>3. col + 1 < k
      BY <1>1, <2>3, <3>1, <3>2
    <3> QED
      BY <2>1, <2>2, <3>1, <3>3 DEF FoundEmpty, Kind
  <2>6. Derailed => Derailed'
    BY <2>1, <2>5 DEF Derailed, EndOf
  <2>7. OnTrack => OnTrack'
    BY <2>1 DEF OnTrack
  <2>8. PrintedRowIsStored'
    BY <2>1 DEF PrintedRowIsStored
  <2> QED
    BY <2>1, <2>6, <2>7, <2>8 DEF TrackInv
<1>5. CASE FetchFails
  BY <1>5, TrackEnds DEF FetchFails, Outcomes
<1> QED
  BY <1>2, <1>3, <1>4, <1>5

(* The assertion lets only a walk on its track pass.                       *)
LEMMA TrackAssertion ==
  ASSUME LayoutInv, TrackInv, PrintRow \/ AssertionFails
  PROVE  TrackInv'
<1>1. CASE AssertionFails
  BY <1>1, TrackEnds DEF AssertionFails, Outcomes
<1>2. CASE PrintRow
  <2>1. /\ pc = "values" /\ col = Len(Columns) /\ pos = data_size /\ pc' = "printed"
        /\ UNCHANGED <<tuple, col, pos, at>>
        /\ TupleTypeOK /\ Len(at) = Len(Columns) /\ Len(Columns) \in Nat
    BY <1>2, ColumnsAssumption DEF PrintRow, AtAssertion, End, LayoutInv, WalkTypeOK
  <2>2. tuple.hoff <= tuple.len
    <3>1. /\ WordMod \in Nat /\ PageSize \in Nat /\ 4 * PageSize <= WordMod /\ PageSize > 0
          /\ tuple.hoff \in Nat /\ tuple.len \in Nat /\ tuple.hoff <= PageSize
      BY <2>1, PageAssumption, PlacesAssumption, TupleShape DEF TupleTypeOK
    <3>2. SUFFICES ASSUME tuple.len < tuple.hoff PROVE FALSE
      BY <3>1
    <3>3. PICK d \in Nat : d = tuple.hoff - tuple.len /\ 1 <= d /\ d <= PageSize
      BY <3>1, <3>2
    <3>4. data_size = WordMod - d
      <4>1. tuple.len - tuple.hoff = -d
        BY <3>1, <3>3
      <4>2. \A w \in Nat, n \in Nat : 1 <= n /\ n <= w => (-n) % w = w - n
        OBVIOUS
      <4>3. d <= WordMod
        BY ONLY <3>1, <3>3
      <4> QED
        BY <3>1, <3>3, <4>1, <4>2, <4>3 DEF data_size, Word
    <3>5. pos <= PageSize + WordMod \div 4
      BY DEF TrackInv
    <3> QED
      BY ONLY <2>1, <3>1, <3>3, <3>4, <3>5
  <2>3. ASSUME Stored(tuple), NEW c \in Columned
        PROVE  PlacedAt(tuple, c, at[c + 1])
    <3>1. data_size = EndOf /\ EndOf \in Nat
      <4>1. tuple.natts + 1 \in 1 .. tuple.natts + 1
        BY <2>1, TupleShape
      <4>2. Word(EndOf) = EndOf /\ EndOf \in Nat
        BY <2>1, <2>3, <4>1, EndsFit
      <4>3. tuple.len - tuple.hoff = EndOf
        BY <2>3 DEF Stored, EndOf
      <4> QED
        BY <4>2, <4>3 DEF data_size
    <3>2. ~ FoundEmpty
      <4>1. DOMAIN at = 1 .. Len(Columns)
        BY <2>1 DEF LayoutInv, WalkTypeOK
      <4> QED
        BY <2>1, <4>1 DEF FoundEmpty
    <3>3. ~ Derailed
      BY <2>1, <3>1, <3>2 DEF Derailed
    <3>4. OnTrack
      BY <2>1, <2>3, <3>3 DEF TrackInv
    <3>5. c + 1 \in DOMAIN at /\ (c + 1) - 1 = c
      BY <2>1 DEF Columned, LayoutInv, WalkTypeOK
    <3> QED
      BY <3>4, <3>5 DEF OnTrack
  <2>4. PrintedRowIsStored'
    <3>1. /\ tuple' = tuple /\ at' = at /\ data_size' = data_size
          /\ data_size = Word(tuple.len - tuple.hoff)
      BY <2>1 DEF data_size
    <3>2. Stored(tuple) =>
            \A c \in Columned :
              \/ Kind(c) = "geometric"
              \/ at[c + 1] = PlaceOf(tuple, c)
              \/ c >= tuple.natts /\ NextIsFrozen(tuple) /\ at[c + 1] = data_size
      BY <2>3, <3>1 DEF PlacedAt, EndsWith
    <3> QED
      BY <2>2, <3>1, <3>2 DEF PrintedRowIsStored, Kind, Columned
  <2> QED
    BY <2>1, <2>4 DEF TrackInv
<1> QED
  BY <1>1, <1>2

LEMMA TrackInvHolds == Spec => []TrackInv
<1>1. Init => TrackInv
  <2>1. SUFFICES ASSUME Init PROVE TrackInv
    OBVIOUS
  <2>2. /\ tuple \in Tuples /\ pos = 0 /\ at = << >> /\ pc = "columns"
        /\ DOMAIN at = {} /\ Len(at) = 0
    BY <2>1 DEF Init
  <2>3. PageSize + WordMod \div 4 >= 0
    BY PageAssumption
  <2>4. ASSUME Stored(tuple) PROVE OnTrack
    <3>1. tuple.natts \in Nat
      BY <2>2, TupleShape DEF TupleTypeOK
    <3>2. Passed(tuple, 0) = 0
      BY <3>1 DEF Passed
    <3> QED
      BY <2>2, <2>4, <3>2 DEF OnTrack, Stored
  <2> QED
    BY <2>2, <2>3, <2>4 DEF TrackInv, PrintedRowIsStored
<1>2. LayoutInv /\ TrackInv /\ [Next]_vars => TrackInv'
  <2>1. SUFFICES ASSUME LayoutInv, TrackInv, [Next]_vars PROVE TrackInv'
    OBVIOUS
  <2>2. CASE KeyMissing \/ WalkOffPage \/ NullColumn \/ GetInteger \/ GetVarlena
    BY <2>1, <2>2, TrackColumn
  <2>3. CASE WalkEnds \/ TextOffPage \/ BuildText \/ FetchFails
    BY <2>1, <2>3, TrackValue
  <2>4. CASE PrintRow \/ AssertionFails
    BY <2>1, <2>4, TrackAssertion
  <2>5. CASE UNCHANGED vars
    <3>1. tuple' = tuple /\ col' = col /\ pos' = pos /\ at' = at /\ pc' = pc
      BY <2>5 DEF vars
    <3>2. EmptyPlaces' = EmptyPlaces
      BY <3>1, EmptyKept
    <3>3. FoundEmpty' = FoundEmpty
      BY <3>1, <3>2 DEF FoundEmpty, Kind
    <3>4. Derailed' = Derailed /\ OnTrack' = OnTrack
      BY <3>1, <3>3 DEF Derailed, OnTrack, EndOf
    <3>5. PrintedRowIsStored'
      <4>1. data_size' = data_size
        BY <3>1 DEF data_size
      <4> QED
        BY <2>1, <3>1, <4>1 DEF TrackInv, PrintedRowIsStored, Kind, Columned
    <3> QED
      BY <2>1, <3>1, <3>4, <3>5 DEF TrackInv
  <2> QED
    BY <2>1, <2>2, <2>3, <2>4, <2>5 DEF Next, Terminated
<1> QED
  BY <1>1, <1>2, LayoutInvHolds, PTL DEF Spec

(* For every table and every tuple: no row is printed in which a number or *)
(* a text was taken from a place where the server did not store it, but    *)
(* for an added column of a tuple before a frozen one.                     *)
THEOREM PrintedIsStored == Spec => []PrintedRowIsStored
<1>1. TrackInv => PrintedRowIsStored
  BY DEF TrackInv
<1> QED
  BY <1>1, TrackInvHolds, PTL

-----------------------------------------------------------------------------

(* The text and how much of it is written.                                 *)
TextTypeOK ==
  /\ text \in Seq(Chars) \union {NullText}
  /\ lit \in {"idle", "begin", "loop", "end"}
  /\ lit = "loop" => text \in Seq(Chars) /\ each \in 0 .. Len(text)
  /\ lit = "begin" => each = 0

LiteralInv == TextTypeOK /\ LiteralIsText

LEMMA NextPrefix ==
  ASSUME NEW s \in Seq(Chars), NEW n \in 0 .. Len(s), n < Len(s)
  PROVE  SubSeq(s, 1, n + 1) = Append(SubSeq(s, 1, n), s[n + 1])
  OBVIOUS

LEMMA WholePrefix ==
  ASSUME NEW s \in Seq(Chars)
  PROVE  SubSeq(s, 1, Len(s)) = s /\ SubSeq(s, 1, 0) = << >>
  OBVIOUS

(* Writing a character makes the lexer read that character.                *)
LEMMA CharStep ==
  ASSUME LiteralInv, Escape \/ Double \/ Copy
  PROVE  LiteralInv'
<1> DEFINE read == [mode |-> "in", value |-> Append(SubSeq(text, 1, each), Current)]
<1>1. /\ lit = "loop" /\ text \in Seq(Chars) /\ each \in 0 .. Len(text) /\ each < Len(text)
      /\ lexer = [mode |-> "in", value |-> SubSeq(text, 1, each)]
      /\ each' = each + 1 /\ text' = text /\ lit' = lit
  BY DEF LiteralInv, TextTypeOK, LiteralIsText, Escape, Double, Copy, AtChar
<1>2. lexer' = read
  <2>1. CASE Escape
    <3>1. Feed(lexer, Backslash) = [mode |-> "escaped", value |-> SubSeq(text, 1, each)]
      BY <1>1, CharsAssumption DEF Feed
    <3>2. Feed([mode |-> "escaped", value |-> SubSeq(text, 1, each)], Backslash)
          = [mode |-> "in", value |-> Append(SubSeq(text, 1, each), Backslash)]
      BY CharsAssumption DEF Feed
    <3> QED
      BY <2>1, <3>1, <3>2 DEF Escape
  <2>2. CASE Double
    <3>1. Feed(lexer, Quote) = [mode |-> "quoted", value |-> SubSeq(text, 1, each)]
      BY <1>1, CharsAssumption DEF Feed
    <3>2. Feed([mode |-> "quoted", value |-> SubSeq(text, 1, each)], Quote)
          = [mode |-> "in", value |-> Append(SubSeq(text, 1, each), Quote)]
      BY CharsAssumption DEF Feed
    <3> QED
      BY <2>2, <3>1, <3>2 DEF Double
  <2>3. CASE Copy
    BY <1>1, <2>3, CharsAssumption DEF Feed, Copy
  <2> QED
    BY <2>1, <2>2, <2>3
<1>3. lexer' = [mode |-> "in", value |-> SubSeq(text, 1, each + 1)]
  BY <1>1, <1>2, NextPrefix DEF Current
<1> QED
  BY <1>1, <1>3 DEF LiteralInv, TextTypeOK, LiteralIsText

LEMMA OtherStep ==
  ASSUME LiteralInv, StartLiteral \/ EndLiteral \/ WriteNull \/ Open \/ Close
  PROVE  LiteralInv'
<1>1. CASE StartLiteral
  BY <1>1 DEF StartLiteral, LiteralInv, TextTypeOK, LiteralIsText
<1>2. CASE EndLiteral
  BY <1>2 DEF EndLiteral, LiteralInv, TextTypeOK, LiteralIsText
<1>3. CASE WriteNull
  BY <1>3 DEF WriteNull, LiteralInv, TextTypeOK, LiteralIsText, ReadAs, NotRead
<1>4. CASE Open
  BY <1>4, WholePrefix DEF Open, LiteralInv, TextTypeOK, LiteralIsText, NotRead
<1>5. CASE Close
  <2>1. /\ text \in Seq(Chars) /\ each = Len(text) /\ text # NullText
        /\ lexer = [mode |-> "in", value |-> text]
    BY <1>5, WholePrefix, CharsAssumption DEF Close, LiteralInv, TextTypeOK, LiteralIsText
  <2>2. Feed(lexer, Quote) = [mode |-> "quoted", value |-> text]
    BY <2>1, CharsAssumption DEF Feed
  <2>3. lexer' = [mode |-> "ended", value |-> text]
    <3>1. lexer' = Feed([mode |-> "quoted", value |-> text], Separator)
      BY <1>5, <2>2 DEF Close
    <3>2. QED  BY <3>1, CharsAssumption DEF Feed
  <2> QED
    BY <1>5, <2>1, <2>3 DEF Close, LiteralInv, TextTypeOK, LiteralIsText, ReadAs
<1> QED
  BY <1>1, <1>2, <1>3, <1>4, <1>5

LEMMA LiteralInvariant == LiteralSpec => []LiteralInv
<1>1. LiteralInit => LiteralInv
  BY CharsAssumption DEF LiteralInit, LiteralInv, TextTypeOK, LiteralIsText
<1>2. LiteralInv /\ [LiteralNext]_literalVars => LiteralInv'
  <2>1. SUFFICES ASSUME LiteralInv, [LiteralNext]_literalVars PROVE LiteralInv'
    OBVIOUS
  <2>2. CASE UNCHANGED literalVars
    BY <2>1, <2>2 DEF literalVars, LiteralInv, TextTypeOK, LiteralIsText, NotRead, ReadAs
  <2> QED
    BY <2>1, <2>2, CharStep, OtherStep DEF LiteralNext, LiteralStep
<1> QED
  BY <1>1, <1>2, PTL DEF LiteralSpec

(* For every text and every set of characters, sql_varlena writes a        *)
(* literal that the session reads back as the text.                        *)
THEOREM TextSurvivesQuoting == LiteralSpec => []LiteralIsText
<1>1. LiteralInv => LiteralIsText
  BY DEF LiteralInv
<1> QED
  BY <1>1, LiteralInvariant, PTL

-----------------------------------------------------------------------------

(* A step of the row is one of the walk, or leaves it alone.               *)
LEMMA RowStepIsWalkStep ==
  ASSUME [RowNext]_rowVars
  PROVE  [Next]_vars
<1>1. CASE Walk
  BY <1>1 DEF Walk, Next
<1>2. CASE TextFails
  BY <1>2 DEF TextFails, Next
<1>3. CASE BuildBytes
  BY <1>3 DEF BuildBytes
<1>4. CASE WriteText
  BY <1>4 DEF WriteText
<1>5. CASE TextWritten
  BY <1>5 DEF TextWritten, Next
<1>6. CASE WriteOther
  BY <1>6 DEF WriteOther, Next
<1>7. CASE Finish
  BY <1>7 DEF Finish, Next
<1>8. CASE UNCHANGED rowVars
  BY <1>8 DEF rowVars
<1> QED
  BY <1>1, <1>2, <1>3, <1>4, <1>5, <1>6, <1>7, <1>8 DEF RowNext

LEMMA RowStepIsLiteralStep ==
  ASSUME [RowNext]_rowVars
  PROVE  [LiteralNext]_literalVars
<1>1. CASE Walk \/ TextFails \/ Finish
  BY <1>1 DEF Walk, TextFails, Finish, Reading
<1>2. CASE BuildBytes
  BY <1>2 DEF BuildBytes, LiteralNext
<1>3. CASE WriteText
  BY <1>3 DEF WriteText, LiteralNext
<1>4. CASE TextWritten
  BY <1>4 DEF TextWritten, LiteralNext
<1>5. CASE WriteOther
  BY <1>5 DEF WriteOther
<1>6. CASE UNCHANGED rowVars
  BY <1>6 DEF rowVars
<1> QED
  BY <1>1, <1>2, <1>3, <1>4, <1>5, <1>6 DEF RowNext

(* user_code on a tuple implements the walk, and its calls of sql_varlena  *)
(* the writing of literals.                                                *)
THEOREM RowImplementsParts == RowSpec => Spec /\ LiteralSpec
<1>1. RowInit => Init /\ LiteralInit
  BY DEF RowInit
<1>2. [RowNext]_rowVars => [Next]_vars /\ [LiteralNext]_literalVars
  BY RowStepIsWalkStep, RowStepIsLiteralStep
<1> QED
  BY <1>1, <1>2, PTL DEF RowSpec, Spec, LiteralSpec

-----------------------------------------------------------------------------

Readings == [mode: {"before", "null", "ended"}, value: Seq(Chars)]

(* What was written for the columns done, and what is being written.       *)
ColumnWritten(k) == \E t \in TextsOf(at[k]) : row[k] = ReadAs(t)

RowInv ==
  /\ row \in Seq(Readings)
  /\ pc = "columns" => row = << >> /\ lit = "idle"
  /\ pc = "values" => Len(row) = col
  /\ pc = "printed" => Len(row) = Len(Columns) /\ Len(at) = Len(Columns)
  /\ lit # "idle" => AtText /\ text \in TextsOf(at[col + 1])
  /\ \A k \in DOMAIN row : Kind(k - 1) = "varlena" => ColumnWritten(k)

RowParts == LayoutInv /\ LiteralInv /\ RowInv

(* The bytes of a tuple do not change.                                     *)
LEMMA TextsKept ==
  ASSUME UNCHANGED <<tuple, at>>, NEW k \in Nat
  PROVE  TextsOf(at[k])' = TextsOf(at[k])
BY DEF TextsOf, Bytes, DataLength, DataOffset, VarSize, _size, len_type, ByteAt

LEMMA RowKept ==
  ASSUME UNCHANGED <<tuple, at, row>>, RowInv
  PROVE  /\ row' \in Seq(Readings)
         /\ (\A k \in DOMAIN row : Kind(k - 1) = "varlena" => ColumnWritten(k))'
<1>1. \A k \in Nat : TextsOf(at[k])' = TextsOf(at[k])
  BY TextsKept
<1>2. DOMAIN row \subseteq Nat
  BY DEF RowInv
<1> QED
  BY <1>1, <1>2 DEF RowInv, ColumnWritten

LEMMA ReadAsIsReading ==
  ASSUME NEW t \in Seq(Chars) \union {NullText}
  PROVE  ReadAs(t) \in Readings /\ NotRead \in Readings
BY DEF ReadAs, Readings, NotRead

(* Steps that write nothing.                                               *)
LEMMA SilentStep ==
  ASSUME RowParts, Walk \/ TextFails \/ Finish \/ UNCHANGED rowVars
  PROVE  RowInv'
<1>1. CASE Walk
  <2>1. pc = "columns" /\ lit = "idle" /\ row = << >>
    BY <1>1 DEF Walk, Reading, KeyMissing, WalkOffPage, NullColumn, GetInteger, GetVarlena,
                WalkEnds, AtColumn, RowParts, RowInv
  <2>2. lit' = "idle" /\ row' = << >>
    BY <1>1, <2>1 DEF Walk, Reading, literalVars
  <2>3. /\ pc' \in {"columns", "values", "misfit", "offpage"}
        /\ pc' = "values" => col' = 0
    BY <1>1, <2>1 DEF Walk, KeyMissing, WalkOffPage, NullColumn, GetInteger, GetVarlena,
                      WalkEnds, Found, End
  <2> QED
    BY <2>2, <2>3 DEF RowInv
<1>2. CASE TextFails
  <2>1. lit = "idle" /\ lit' = "idle" /\ UNCHANGED <<tuple, at, row>>
    BY <1>2 DEF TextFails, Reading, literalVars, TextOffPage, FetchFails, End
  <2>2. pc' \in {"offpage", "skipped", "undefined", "aborted"}
    BY <1>2 DEF TextFails, TextOffPage, FetchFails, End
  <2> QED
    BY <2>1, <2>2, RowKept DEF RowParts, RowInv
<1>3. CASE Finish
  <2>1. lit = "idle" /\ lit' = "idle" /\ UNCHANGED <<tuple, at, row>>
    BY <1>3 DEF Finish, Reading, literalVars, PrintRow, AssertionFails, Terminated, vars, End
  <2>2. CASE PrintRow
    <3>1. pc = "values" /\ col = Len(Columns) /\ pc' = "printed"
      BY <2>2 DEF PrintRow, AtAssertion, End
    <3>2. Len(row) = Len(Columns) /\ Len(at) = Len(Columns)
      BY <3>1 DEF RowParts, RowInv, LayoutInv, WalkTypeOK
    <3> QED
      BY <2>1, <3>1, <3>2, RowKept DEF RowParts, RowInv
  <2>3. CASE AssertionFails
    <3>1. pc' = "misfit"
      BY <2>3 DEF AssertionFails, End
    <3> QED
      BY <2>1, <3>1, RowKept DEF RowParts, RowInv
  <2>4. CASE Terminated
    <3>1. pc \in Outcomes /\ pc' = pc
      BY <2>4 DEF Terminated, vars
    <3> QED
      BY <2>1, <3>1, RowKept DEF RowParts, RowInv, Outcomes
  <2> QED
    BY <1>3, <2>2, <2>3, <2>4 DEF Finish
<1>4. CASE UNCHANGED rowVars
  <2>1. UNCHANGED <<tuple, at, row>> /\ UNCHANGED <<pc, col, lit, text>>
    BY <1>4 DEF rowVars, vars, literalVars
  <2>2. col + 1 \in Nat
    BY DEF RowParts, LayoutInv, WalkTypeOK
  <2>3. TextsOf(at[col + 1])' = TextsOf(at[col + 1])
    <3> DEFINE k == col + 1
    <3>1. TextsOf(at[k])' = TextsOf(at[k])
      BY <2>1, <2>2 DEF TextsOf, Bytes, DataLength, DataOffset, VarSize, _size, len_type, ByteAt
    <3> QED
      BY <3>1
  <2> QED
    BY <2>1, <2>3, RowKept DEF RowParts, RowInv, AtText, AtValue
<1> QED
  BY <1>1, <1>2, <1>3, <1>4

(* Steps inside a call of sql_varlena.                                     *)
LEMMA TextStep ==
  ASSUME RowParts, BuildBytes \/ WriteText
  PROVE  RowInv'
<1>1. UNCHANGED <<tuple, at, row>> /\ UNCHANGED <<pc, col>>
  BY DEF BuildBytes, WriteText, vars
<1>2. TextsOf(at[col + 1])' = TextsOf(at[col + 1])
  BY <1>1 DEF TextsOf, Bytes, DataLength, DataOffset, VarSize, _size, len_type, ByteAt
<1>3. AtText /\ AtText' /\ pc = "values"
  BY <1>1 DEF BuildBytes, WriteText, LiteralStep, WriteNull, Open, Escape, Double, Copy,
              Close, AtChar, RowParts, RowInv, AtText, AtValue
<1>4. text' \in TextsOf(at[col + 1])
  <2>1. CASE BuildBytes
    BY <2>1 DEF BuildBytes
  <2>2. CASE WriteText
    BY <2>2 DEF WriteText, LiteralStep, WriteNull, Open, Escape, Double, Copy, Close,
                AtChar, RowParts, RowInv
  <2> QED
    BY <2>1, <2>2
<1> QED
  BY <1>1, <1>2, <1>3, <1>4, RowKept DEF RowParts, RowInv

(* Steps that add a column to the row.                                     *)
LEMMA ColumnStep ==
  ASSUME RowParts, TextWritten \/ WriteOther
  PROVE  RowInv'
<1> DEFINE read == IF Kind(col) = "varlena" THEN lexer ELSE NotRead
<1>1. /\ pc = "values" /\ pc' = "values" /\ col' = col + 1 /\ UNCHANGED <<tuple, at>>
      /\ row' = Append(row, read)
  BY DEF TextWritten, WriteOther, BuildText, AtText, AtValue
<1>2. lit' = "idle"
  BY <1>1 DEF TextWritten, WriteOther, EndLiteral, literalVars, RowParts, RowInv, AtText
<1>3. Kind(col) = "varlena" => text \in TextsOf(at[col + 1]) /\ read = ReadAs(text)
  BY DEF TextWritten, WriteOther, EndLiteral, RowParts, RowInv, LiteralInv, LiteralIsText
<1>4. read \in Readings
  BY <1>3, ReadAsIsReading DEF RowParts, LiteralInv, TextTypeOK
<1>5. col \in Nat /\ Len(row) = col /\ row \in Seq(Readings)
  BY <1>1 DEF RowParts, RowInv, LayoutInv, WalkTypeOK
<1> HIDE DEF read
<1>6. /\ row' \in Seq(Readings) /\ Len(row') = col + 1
      /\ \A k \in 1 .. col : row'[k] = row[k]
      /\ row'[col + 1] = read
  BY <1>1, <1>4, <1>5
<1>7. \A k \in Nat : TextsOf(at[k])' = TextsOf(at[k])
  BY <1>1, TextsKept
<1>8. (\A k \in DOMAIN row : Kind(k - 1) = "varlena" => ColumnWritten(k))'
  <2> SUFFICES ASSUME NEW k \in DOMAIN row', Kind(k - 1) = "varlena"
               PROVE  ColumnWritten(k)'
    OBVIOUS
  <2>1. k \in 1 .. col + 1 /\ k \in Nat
    BY <1>5, <1>6
  <2>2. CASE k = col + 1
    <3>1. k - 1 = col
      BY <1>5, <2>2
    <3>2. text \in TextsOf(at[k])' /\ row'[k] = ReadAs(text)
      BY <1>3, <1>6, <1>7, <2>1, <2>2, <3>1
    <3> QED
      BY <3>2 DEF ColumnWritten
  <2>3. CASE k # col + 1
    <3>1. k \in DOMAIN row /\ row'[k] = row[k]
      BY <1>5, <1>6, <2>1, <2>3
    <3>2. PICK t \in TextsOf(at[k]) : row[k] = ReadAs(t)
      BY <3>1 DEF RowParts, RowInv, ColumnWritten
    <3> QED
      BY <1>7, <2>1, <3>1, <3>2 DEF ColumnWritten
  <2> QED
    BY <2>2, <2>3
<1> QED
  BY <1>1, <1>2, <1>5, <1>6, <1>8 DEF RowInv

LEMMA RowPartsHold == RowSpec => []RowParts
<1>1. RowInit => RowInv
  BY DEF RowInit, Init, LiteralInit, RowInv
<1>2. RowParts /\ [RowNext]_rowVars => RowInv'
  BY SilentStep, TextStep, ColumnStep DEF RowNext
<1>3. RowSpec => []LayoutInv /\ []LiteralInv
  BY RowImplementsParts, LayoutInvHolds, LiteralInvariant, PTL
<1> QED
  BY <1>1, <1>2, <1>3, PTL DEF RowSpec, RowParts

-----------------------------------------------------------------------------

(* A header is read as what the server stored.                             *)
LEMMA HeaderDecoded ==
  ASSUME TupleTypeOK, Stored(tuple), NEW c \in Attributes(tuple),
         tuple.form[c + 1] # "null", Kind(c) # "int"
  PROVE  len_type(StartOf(tuple, c)) =
           CASE tuple.form[c + 1] = "short" -> "ONE_BYTE"
             [] tuple.form[c + 1] = "external" -> "TOASTED"
             [] tuple.form[c + 1] = "long" -> "NORMAL"
             [] tuple.form[c + 1] = "compressed" -> "COMPRESSED"
<1> DEFINE p == StartOf(tuple, c)
<1>1. /\ tuple.form[c + 1] \in {"short", "external", "long", "compressed"}
      /\ HeaderStored(tuple, c) /\ tuple.size[c + 1] \in Nat
  BY AttributeStored
<1>2. p \in Nat /\ InPage(p, 1)
  BY VarlenaDecoded, AttributeStored DEF HeaderInPage
<1>3. ByteAt(p) \in Nat
  <2>1. p + 1 \in 1 .. Len(tuple.mem) /\ tuple.mem \in Seq(Byte)
    BY <1>2, TupleShape DEF InPage
  <2>2. tuple.mem[p + 1] \in Byte
    BY <2>1
  <2> QED
    BY <2>2 DEF ByteAt, Byte
<1>4. CASE tuple.form[c + 1] = "short"
  <2>1. ByteAt(p) = 2 * tuple.size[c + 1] + 1 /\ tuple.size[c + 1] > 0
    BY <1>1, <1>4 DEF HeaderStored, ByteAt
  <2>2. ByteAt(p) % 2 = 1 /\ ByteAt(p) # 1
    BY <1>1, <2>1
  <2> QED
    BY <1>4, <2>2 DEF len_type
<1>5. CASE tuple.form[c + 1] = "external"
  <2>1. ByteAt(p) = 1
    BY <1>1, <1>5 DEF HeaderStored, ByteAt
  <2> QED
    BY <1>5, <2>1 DEF len_type
<1>6. CASE tuple.form[c + 1] = "long"
  <2>1. ByteAt(p) % 4 = 0
    BY <1>1, <1>6 DEF HeaderStored, ByteAt
  <2>2. ByteAt(p) % 2 = 0 /\ (ByteAt(p) \div 2) % 2 = 0
    BY <1>3, <2>1
  <2> QED
    BY <1>6, <2>2 DEF len_type
<1>7. CASE tuple.form[c + 1] = "compressed"
  <2>1. ByteAt(p) % 4 = 2
    BY <1>1, <1>7 DEF HeaderStored, ByteAt
  <2>2. ByteAt(p) % 2 = 0 /\ (ByteAt(p) \div 2) % 2 = 1
    BY <1>3, <2>1
  <2> QED
    BY <1>7, <2>2 DEF len_type
<1> QED
  BY <1>1, <1>4, <1>5, <1>6, <1>7

(* The bytes taken from a stored value are the bytes stored.               *)
LEMMA BytesAreStored ==
  ASSUME TupleTypeOK, Stored(tuple), NEW c \in Attributes(tuple), Kind(c) = "varlena",
         tuple.form[c + 1] \in {"short", "long"}
  PROVE  Bytes(StartOf(tuple, c)) = StoredBytes(tuple, c)
<1> DEFINE p == StartOf(tuple, c)
           n == tuple.size[c + 1]
           h == IF tuple.form[c + 1] = "short" THEN 1 ELSE VARHDRSZ
<1>1. /\ p \in Nat /\ n \in Nat /\ n > 0
      /\ VarSize(p) = n
      /\ len_type(p) = "NORMAL" => n > VARHDRSZ
      /\ p + n = tuple.ends[c + 2] /\ p + n <= Len(tuple.mem)
  BY VarlenaDecoded, AttributeStored
<1>2. len_type(p) = IF tuple.form[c + 1] = "short" THEN "ONE_BYTE" ELSE "NORMAL"
  BY HeaderDecoded
<1>3. DataOffset(p) = h /\ h \in Nat /\ h <= n
  BY <1>1, <1>2 DEF DataOffset, VARHDRSZ
<1>4. DataLength(p) = n - h
  <2>1. c + 2 \in 1 .. tuple.natts + 1
    BY AttributeStored, TupleShape
  <2>2. Word(tuple.ends[c + 2]) = tuple.ends[c + 2] /\ tuple.ends[c + 2] \in Nat
    BY <2>1, EndsFit
  <2>3. WordMod \in Nat \ {0}
    BY PageAssumption
  <2>4. \A m \in Nat, w \in Nat \ {0} : m % w < w
    OBVIOUS
  <2>5. tuple.ends[c + 2] < WordMod
    BY <2>2, <2>3, <2>4 DEF Word
  <2> HIDE DEF p, n, h
  <2>6. n - h \in Nat /\ n - h < WordMod
    BY <1>1, <1>3, <2>3, <2>5
  <2> QED
    BY <1>1, <1>3, <2>6, WordFits DEF DataLength
<1>5. tuple.mem \in Seq(Byte)
  BY TupleShape
<1>6. StoredBytes(tuple, c) = SubSeq(tuple.mem, p + h + 1, p + n)
  BY DEF StoredBytes
<1>7. Bytes(p) = [k \in 1 .. n - h |-> tuple.mem[p + h + k - 1 + 1]]
  BY <1>3, <1>4 DEF Bytes, ByteAt
<1> HIDE DEF p, n, h
<1>8. SubSeq(tuple.mem, p + h + 1, p + n) = [k \in 1 .. n - h |-> tuple.mem[p + h + k - 1 + 1]]
  <2>1. \A k \in 1 .. n - h : p + h + k - 1 + 1 = (p + h + 1) + k - 1
    BY <1>1, <1>3
  <2>2. (p + n) - (p + h + 1) + 1 = n - h
    BY <1>1, <1>3
  <2> QED
    BY <1>1, <1>3, <1>5, <2>1, <2>2
<1> QED
  BY <1>6, <1>7, <1>8 DEF p

(* What looks like a frozen t_xmin is read as a compressed value.          *)
LEMMA FrozenIsCompressed ==
  ASSUME TupleTypeOK, Stored(tuple), EndsWith(tuple, EndOf)
  PROVE  EndOf # NotThere /\ len_type(EndOf) = "COMPRESSED"
<1>1. EndOf \in Nat
  <2>1. tuple.natts + 1 \in 1 .. tuple.natts + 1
    BY TupleShape
  <2> QED
    BY <2>1, EndsFit
<1>2. EndOf + 4 <= Len(tuple.mem) /\ SubSeq(tuple.mem, EndOf + 1, EndOf + 4) = FrozenXmin
  BY DEF EndsWith, NextIsFrozen, EndOf
<1>3. tuple.mem \in Seq(Byte)
  BY TupleShape
<1>4. <<tuple.mem[EndOf + 1], tuple.mem[EndOf + 2], tuple.mem[EndOf + 3], tuple.mem[EndOf + 4]>>
        = FrozenXmin
  BY <1>1, <1>2, <1>3, FourAre
<1>5. tuple.mem[EndOf + 1] = 2
  BY <1>4 DEF FrozenXmin
<1> QED
  BY <1>1, <1>5 DEF len_type, ByteAt, NotThere

(* If a row is printed for a tuple the server stored then the session      *)
(* reads back what is in the tuple, for every table, every tuple and every *)
(* text in it: added columns, misaligned values and lying sizes included.  *)
THEOREM StoredIsReadBack == RowSpec => []RowReadsBack
<1>1. ASSUME RowParts, PrintedRowIsStored, Stored(tuple), pc = "printed",
             NEW c \in Columned, Kind(c) = "varlena"
      PROVE  row[c + 1] \in Loads(tuple, c)
  <2>1. TupleTypeOK /\ tuple.natts \in Nat
    BY <1>1, TupleShape DEF RowParts, LayoutInv
  <2>2. c + 1 \in DOMAIN row /\ c + 1 \in DOMAIN at /\ c \in Nat /\ (c + 1) - 1 = c
    BY <1>1, ColumnsAssumption DEF RowParts, RowInv, LayoutInv, WalkTypeOK, Columned
  <2>3. PICK t \in TextsOf(at[c + 1]) : row[c + 1] = ReadAs(t)
    BY <1>1, <2>2 DEF RowParts, RowInv, ColumnWritten
  <2>4. \/ at[c + 1] = PlaceOf(tuple, c)
        \/ c >= tuple.natts /\ NextIsFrozen(tuple) /\ at[c + 1] = data_size
    BY <1>1 DEF PrintedRowIsStored
  <2>5. CASE at[c + 1] = NotThere
    <3>1. row[c + 1] = ReadAs(NullText)
      BY <2>3, <2>5 DEF TextsOf
    <3>2. data_size # NotThere
      <4>1. tuple.len - tuple.hoff \in Int
        BY <2>1, TupleShape
      <4>2. data_size \in Nat
        BY <4>1, WordIsNat DEF data_size
      <4> QED
        BY <4>2 DEF NotThere
    <3>3. CASE c < tuple.natts
      <4>1. c \in Attributes(tuple) /\ at[c + 1] = PlaceOf(tuple, c)
        BY <2>1, <2>2, <2>4, <2>5, <3>2, <3>3 DEF Attributes
      <4>2. tuple.form[c + 1] = "null"
        <5>1. SUFFICES ASSUME tuple.form[c + 1] # "null" PROVE FALSE
          OBVIOUS
        <5>2. PlaceOf(tuple, c) = StartOf(tuple, c)
          BY <3>3, <5>1 DEF PlaceOf
        <5>3. StartOf(tuple, c) \in Nat
          BY <1>1, <2>1, <4>1, StartsSoon
        <5> QED
          BY <2>5, <4>1, <5>2, <5>3 DEF NotThere
      <4> QED
        BY <2>1, <2>2, <3>1, <3>3, <4>2 DEF Loads
    <3>4. CASE ~ (c < tuple.natts)
      BY <2>1, <2>2, <3>1, <3>4 DEF Loads
    <3> QED
      BY <3>3, <3>4
  <2>6. CASE at[c + 1] # NotThere /\ at[c + 1] = PlaceOf(tuple, c)
    <3>1. /\ c < tuple.natts /\ tuple.form[c + 1] # "null"
          /\ at[c + 1] = StartOf(tuple, c) /\ StartOf(tuple, c) # NotThere
      BY <2>6 DEF PlaceOf
    <3>2. c \in Attributes(tuple) /\ Kind(c) # "int" /\ ~ (c >= tuple.natts)
      BY <1>1, <2>1, <2>2, <3>1 DEF Attributes
    <3>3. tuple.form[c + 1] \in {"short", "external", "long", "compressed"}
      BY <1>1, <2>1, <3>1, <3>2, AttributeStored
    <3>4. CASE tuple.form[c + 1] \in {"short", "long"}
      <4>1. len_type(StartOf(tuple, c)) \in {"ONE_BYTE", "NORMAL"}
        BY <1>1, <2>1, <3>2, <3>4, HeaderDecoded
      <4>2. t = StoredBytes(tuple, c)
        BY <1>1, <2>1, <2>3, <3>1, <3>2, <3>4, <4>1, BytesAreStored DEF TextsOf
      <4> QED
        BY <2>2, <2>3, <3>2, <3>4, <4>2 DEF Loads
    <3>5. CASE tuple.form[c + 1] = "external"
      <4>1. len_type(StartOf(tuple, c)) = "TOASTED"
        BY <1>1, <2>1, <3>2, <3>5, HeaderDecoded
      <4>2. t \in Fetched
        BY <2>3, <3>1, <4>1 DEF TextsOf
      <4> QED
        BY <2>2, <2>3, <3>2, <3>5, <4>2 DEF Loads
    <3>6. CASE tuple.form[c + 1] = "compressed"
      <4>1. len_type(StartOf(tuple, c)) = "COMPRESSED"
        BY <1>1, <2>1, <3>2, <3>6, HeaderDecoded
      <4>2. t = Placeholder
        BY <2>3, <3>1, <4>1 DEF TextsOf
      <4> QED
        BY <2>2, <2>3, <3>2, <3>6, <4>2 DEF Loads
    <3> QED
      BY <3>3, <3>4, <3>5, <3>6
  <2>7. CASE /\ at[c + 1] # NotThere
             /\ c >= tuple.natts /\ NextIsFrozen(tuple) /\ at[c + 1] = data_size
    <3>1. data_size = EndOf
      <4>1. tuple.natts + 1 \in 1 .. tuple.natts + 1
        BY <2>1
      <4>2. Word(EndOf) = EndOf
        BY <1>1, <2>1, <4>1, EndsFit
      <4>3. tuple.len - tuple.hoff = EndOf
        BY <1>1 DEF Stored, EndOf
      <4> QED
        BY <4>2, <4>3 DEF data_size
    <3>2. EndsWith(tuple, EndOf)
      BY <2>7, <3>1 DEF EndsWith, data_size
    <3>3. EndOf # NotThere /\ len_type(EndOf) = "COMPRESSED"
      BY <1>1, <2>1, <3>2, FrozenIsCompressed
    <3>4. t = Placeholder
      BY <2>3, <2>7, <3>1, <3>3 DEF TextsOf
    <3> QED
      BY <2>3, <2>7, <3>4 DEF Loads
  <2> QED
    BY <2>4, <2>5, <2>6, <2>7
<1>2. RowParts /\ PrintedRowIsStored => RowReadsBack
  BY <1>1 DEF RowReadsBack
<1>3. RowSpec => []PrintedRowIsStored
  BY RowImplementsParts, PrintedIsStored, PTL
<1> QED
  BY <1>2, <1>3, RowPartsHold, PTL

(* In the composition, too, the columns of such a tuple are read in place. *)
THEOREM RowReadsInPlace == RowSpec => []ColumnsReadInPlace
BY RowImplementsParts, ReadAsStored, PTL

(* Nothing misread is in a row that is printed.                            *)
THEOREM RowPrintsStored == RowSpec => []PrintedRowIsStored
BY RowImplementsParts, PrintedIsStored, PTL

(* And every literal of the row is its column's text.                      *)
THEOREM RowLiteralsAreTexts == RowSpec => []LiteralIsText
BY RowImplementsParts, TextSurvivesQuoting, PTL

=============================================================================
