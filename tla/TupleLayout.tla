---------------------------- MODULE TupleLayout ----------------------------
(***************************************************************************)
(* How user_code finds the columns of a tuple: it walks from the start of  *)
(* the tuple's data, column after column, by the size of what it finds,    *)
(* then turns the columns into text and asserts that the walk ended where  *)
(* the tuple ends.                                                         *)
(*                                                                         *)
(* A tuple is a record: hasnull, bits (the bytes from t_bits to t_hoff),   *)
(* mem (the bytes from t_hoff to the end of the page buffer), off and hoff *)
(* (t_hoff) and len (lp_len).  natts, form, size and ends say what the     *)
(* server stored in it; the code never looks at them.                      *)
(***************************************************************************)
EXTENDS HeapPage

CONSTANTS
  Columns,      (* their kinds: "int", "varlena", "geometric"              *)
  Required,     (* the NOT NULL columns user_code asserts, {0, 1}          *)
  ByteBits,     (* 8                                                       *)
  ToastSize,    (* size of a TOAST pointer in the tuple, 18                *)
  Tuples        (* the tuples looked at                                    *)

ByteMod == 2 ^ ByteBits
Byte == 0 .. ByteMod - 1
VARHDRSZ == 4

ASSUME ColumnsAssumption ==
  /\ Columns \in Seq({"int", "varlena", "geometric"})
  /\ Required \subseteq Nat
  /\ ToastSize \in Nat \ {0}
  /\ ByteBits \in Nat \ {0} /\ ByteMod \in Nat /\ ByteMod % 4 = 0
  /\ WordMod = ByteMod * ByteMod * ByteMod * ByteMod

ASSUME TuplesAssumption ==
  Tuples \subseteq
    [hasnull: BOOLEAN, bits: Seq(Byte), mem: Seq(Byte), len: Nat, hoff: Nat,
     natts: Nat, form: Seq({"null", "int", "short", "external", "long", "compressed"}),
     size: Seq(Nat), ends: Seq(Nat)]

VARIABLES
  tuple,        (* the tuple                                               *)
  col,          (* the column the walk, or the printing, has come to       *)
  pos,          (* pos                                                     *)
  at,           (* where the columns passed were found, NotThere for null  *)
  pc

vars == <<tuple, col, pos, at, pc>>

NotThere == -1
Columned == 0 .. Len(Columns) - 1
Kind(c) == Columns[c + 1]

(* The bytes of the tuple's data, and of its bitmap and what follows it.   *)
InPage(p, n) == p + n <= Len(tuple.mem)
ByteAt(p) == tuple.mem[p + 1]
BitmapByte(k) ==
  IF k < Len(tuple.bits) THEN tuple.bits[k + 1] ELSE ByteAt(k - Len(tuple.bits))

att_isnull(c) == (BitmapByte(c \div ByteBits) \div 2 ^ (c % ByteBits)) % 2 = 0

has_attribute(c) == ~ tuple.hasnull \/ ~ att_isnull(c)

(* Mutant: numbers are read where the column before them ends.             *)
word_paddingNone(p) == 0

word_padding(p) == (4 - (p % 4)) % 4

len_type(p) ==
  IF ByteAt(p) % 2 = 1
    THEN IF ByteAt(p) = 1 THEN "TOASTED" ELSE "ONE_BYTE"
    ELSE IF (ByteAt(p) \div 2) % 2 = 0 THEN "NORMAL" ELSE "COMPRESSED"

(* The four bytes of a length word, or the one of a short value: those     *)
(* beyond it are masked away.                                              *)
HeaderInPage(p) == InPage(p, 1) /\ InPage(p, IF ByteAt(p) % 2 = 0 THEN 4 ELSE 1)
_size(p) == ByteAt(p) + ByteMod * (ByteAt(p + 1)
              + ByteMod * (ByteAt(p + 2) + ByteMod * ByteAt(p + 3)))

VarSize(p) ==
  CASE len_type(p) \in {"NORMAL", "COMPRESSED"} -> _size(p) \div 4
    [] len_type(p) = "TOASTED" -> ToastSize
    [] len_type(p) = "ONE_BYTE" -> ByteAt(p) \div 2

(* The data of a value with a header: the header's size is subtracted from *)
(* an unsigned number.                                                     *)
DataOffset(p) == IF len_type(p) = "NORMAL" THEN VARHDRSZ ELSE 1
DataLength(p) == Word(VarSize(p) - DataOffset(p))

data_size == Word(tuple.len - tuple.hoff)

-----------------------------------------------------------------------------

Init ==
  /\ tuple \in Tuples
  /\ col = 0 /\ pos = 0 /\ at = << >>
  /\ pc = "columns"

AtColumn == pc = "columns" /\ col < Len(Columns)

End(how) == pc' = how /\ UNCHANGED <<tuple, col, pos, at>>

KeyMissing == AtColumn /\ col \in Required /\ ~ has_attribute(col) /\ End("misfit")

(* The walk has left the page buffer: what it finds there is anything.     *)
WalkOffPage ==
  /\ AtColumn /\ has_attribute(col)
  /\ IF Kind(col) = "int" THEN ~ InPage(pos + word_padding(pos), 4)
     ELSE ~ HeaderInPage(pos)
  /\ End("offpage")

(* Mutant: the next value is taken for the same column again.              *)
FoundTwice(p, next) ==
  /\ at' = Append(at, p) /\ pos' = next
  /\ UNCHANGED <<tuple, col, pc>>

Found(p, next) ==
  /\ col' = col + 1 /\ at' = Append(at, p) /\ pos' = next
  /\ UNCHANGED <<tuple, pc>>

NullColumn ==
  /\ AtColumn /\ col \notin Required /\ ~ has_attribute(col)
  /\ Found(NotThere, pos)

GetInteger ==
  /\ AtColumn /\ has_attribute(col) /\ Kind(col) = "int"
  /\ InPage(pos + word_padding(pos), 4)
  /\ Found(pos + word_padding(pos), Word(pos + 4 + word_padding(pos)))

GetVarlena ==
  /\ AtColumn /\ has_attribute(col) /\ Kind(col) # "int"
  /\ HeaderInPage(pos)
  /\ Found(pos, Word(pos + VarSize(pos)))

WalkEnds ==
  /\ pc = "columns" /\ col = Len(Columns)
  /\ col' = 0 /\ pc' = "values"
  /\ UNCHANGED <<tuple, pos, at>>

(* The texts are made in the order of the columns, before anything is      *)
(* compared; numbers have been copied, sql_geometric looks at nothing.     *)
AtValue == pc = "values" /\ col < Len(Columns)
Built == Kind(col) = "varlena" /\ at[col + 1] # NotThere
Toasted == Built /\ len_type(at[col + 1]) = "TOASTED"
WithData == Built /\ len_type(at[col + 1]) \in {"NORMAL", "ONE_BYTE"}
DataInPage(p) == InPage(p + DataOffset(p), DataLength(p))

TextOffPage ==
  /\ AtValue
  /\ \/ WithData /\ ~ DataInPage(at[col + 1])
     \/ Toasted /\ ~ InPage(at[col + 1], ToastSize)
  /\ End("offpage")

BuildText ==
  /\ AtValue
  /\ WithData => DataInPage(at[col + 1])
  /\ Toasted => InPage(at[col + 1], ToastSize)
  /\ col' = col + 1
  /\ UNCHANGED <<tuple, pos, at, pc>>

(* What may become of a fetch, see ToastFetch.                             *)
FetchFails ==
  /\ AtValue /\ Toasted /\ InPage(at[col + 1], ToastSize)
  /\ \/ End("skipped") \/ End("undefined") \/ End("aborted")

AtAssertion == pc = "values" /\ col = Len(Columns)

(* Mutant: the row is printed wherever the walk ended.                     *)
PrintRowUnchecked == AtAssertion /\ End("printed")

PrintRow == AtAssertion /\ pos = data_size /\ End("printed")

AssertionFails == AtAssertion /\ pos # data_size /\ End("misfit")

Outcomes == {"printed", "skipped", "misfit", "offpage", "aborted", "undefined"}

Terminated == pc \in Outcomes /\ UNCHANGED vars

Next ==
  \/ KeyMissing \/ WalkOffPage \/ NullColumn \/ GetInteger \/ GetVarlena \/ WalkEnds
  \/ TextOffPage \/ BuildText \/ FetchFails \/ PrintRow \/ AssertionFails \/ Terminated

Spec == Init /\ [][Next]_vars

-----------------------------------------------------------------------------
(* What the server stored in a tuple.  Attribute a begins at a multiple of *)
(* four if it is a number or has a four-byte header, and right after the   *)
(* attribute before it otherwise; the bytes skipped are zero.              *)

Attributes(t) == 0 .. t.natts - 1
Aligned(form) == form \in {"int", "long", "compressed"}
PadAfter(n) == (-n) % 4
StartOf(t, a) ==
  t.ends[a + 1] + IF Aligned(t.form[a + 1]) THEN PadAfter(t.ends[a + 1]) ELSE 0

(* The bytes of attribute a are those of its form.                         *)
HeaderStored(t, a) ==
  LET p == StartOf(t, a) + 1
      size == t.size[a + 1]
      word == t.mem[p] + ByteMod * (t.mem[p + 1]
                + ByteMod * (t.mem[p + 2] + ByteMod * t.mem[p + 3]))
  IN  CASE t.form[a + 1] = "int" -> size = 4
        [] t.form[a + 1] = "short" -> size > 0 /\ t.mem[p] = 2 * size + 1
        [] t.form[a + 1] = "external" -> size = ToastSize /\ t.mem[p] = 1
        [] t.form[a + 1] = "long" -> size > VARHDRSZ /\ t.mem[p] % 4 = 0 /\ word \div 4 = size
        [] t.form[a + 1] = "compressed" ->
             size > VARHDRSZ /\ t.mem[p] % 4 = 2 /\ word \div 4 = size
        [] OTHER -> size = 0

NullBit(t, a) == (t.bits[a \div ByteBits + 1] \div 2 ^ (a % ByteBits)) % 2 = 0

Stored(t) ==
  /\ t.natts <= Len(Columns)
  /\ Len(t.form) = t.natts /\ Len(t.size) = t.natts /\ Len(t.ends) = t.natts + 1
  /\ t.hasnull => t.natts <= ByteBits * Len(t.bits)
  /\ t.ends[1] = 0 /\ t.ends[t.natts + 1] <= Len(t.mem) /\ Len(t.mem) <= PageSize
  /\ t.len < WordMod /\ t.len - t.hoff = t.ends[t.natts + 1]
  /\ \A a \in Attributes(t) :
       /\ t.ends[a + 2] = IF t.form[a + 1] = "null" THEN t.ends[a + 1]
                          ELSE StartOf(t, a) + t.size[a + 1]
       /\ t.ends[a + 2] <= t.ends[t.natts + 1]
       /\ \A k \in t.ends[a + 1] .. StartOf(t, a) - 1 : t.mem[k + 1] = 0
       /\ t.form[a + 1] # "null" => (t.form[a + 1] = "int" <=> Kind(a) = "int")
       /\ HeaderStored(t, a)
       /\ t.form[a + 1] = "null" <=> t.hasnull /\ NullBit(t, a)
       /\ a \in Required => t.form[a + 1] # "null"

-----------------------------------------------------------------------------

(* A page is small against a word, the point is the last column, and a     *)
(* tuple's data ends with the page buffer.                                 *)
ASSUME PlacesAssumption ==
  /\ 4 * PageSize <= WordMod /\ ToastSize <= PageSize
  /\ \A c \in Columned : Kind(c) = "geometric" => c + 1 = Len(Columns)
  /\ \A t \in Tuples : t.hoff <= PageSize /\ Len(t.mem) <= PageSize

(* A four-byte header is left only to values too long for a short one      *)
(* (VARATT_CAN_MAKE_SHORT), and values are compressed only in tuples that  *)
(* then shrink to TOAST_TUPLE_TARGET, a quarter of a page: shifted by a    *)
(* byte, the size of such a value leads out of its tuple.                  *)
ASSUME LongAssumption ==
  \A t \in Tuples : Stored(t) =>
    \A a \in Attributes(t) :
      t.form[a + 1] \in {"long", "compressed"} /\ t.ends[a + 1] % 4 # 0 =>
        /\ t.size[a + 1] * ByteMod > t.ends[t.natts + 1]
        /\ 4 * t.size[a + 1] + 3 < ByteMod * ByteMod

Complete(t) == t.natts = Len(Columns)

(* No value with a four-byte header needs to be aligned.                   *)
Tight(t) ==
  \A a \in Attributes(t) :
    t.form[a + 1] \in {"long", "compressed"} => t.ends[a + 1] % 4 = 0

PlaceOf(t, a) ==
  IF a < t.natts /\ t.form[a + 1] # "null" THEN StartOf(t, a) ELSE NotThere

LayoutTypeOK ==
  /\ col \in 0 .. Len(Columns)
  /\ pos \in 0 .. WordMod - 1
  /\ at \in Seq({NotThere} \union Nat)
  /\ pc = "columns" => Len(at) = col
  /\ pc \in {"columns", "values"} \union Outcomes

(* A complete tuple without a misaligned long value is read as it was      *)
(* stored: every column, null or not, where the server put it, and the     *)
(* walk ends where the tuple ends, whatever the forms of the values.       *)
ColumnsReadInPlace ==
  Stored(tuple) /\ Complete(tuple) /\ Tight(tuple) =>
    /\ \A k \in DOMAIN at : at[k] = PlaceOf(tuple, k - 1)
    /\ pos = tuple.ends[Len(at) + 1]
    /\ pc \notin {"misfit", "offpage"}

(* The memory after the tuple begins with the length word of a compressed *)
(* value of no bytes: that is what the frozen t_xmin of the tuple there    *)
(* looks like.                                                             *)
FrozenXmin == <<2, 0, 0, 0>>
NextIsFrozen(t) ==
  LET p == t.ends[t.natts + 1]
  IN  p + 4 <= Len(t.mem) /\ SubSeq(t.mem, p + 1, p + 4) = FrozenXmin

(* Nothing misread is printed.  A tuple of fewer attributes than columns,  *)
(* or with values behind pad bytes the walk does not skip, may crash the   *)
(* dump, but if its row is printed then every number and text of it is     *)
(* what the server stored; nor is a tuple ever printed whose lp_len is     *)
(* less than its t_hoff, so that its data_size has wrapped.  The one       *)
(* exception is a column the tuple lacks: at the t_xmin of a frozen tuple  *)
(* right behind it the walk finds a value that moves it no further.        *)
PrintedRowIsStored ==
  pc = "printed" =>
    /\ tuple.hoff <= tuple.len
    /\ Stored(tuple) =>
         \A c \in Columned :
           \/ Kind(c) = "geometric"
           \/ at[c + 1] = PlaceOf(tuple, c)
           \/ c >= tuple.natts /\ NextIsFrozen(tuple) /\ at[c + 1] = data_size

(* table_sample_user.cpp:180: "assert( pos == itemdata.data_size )": the   *)
(* walk over a tuple the server stored ends where the tuple ends.          *)
WalkEndsWithTuple == Stored(tuple) => pc # "misfit"

=============================================================================
