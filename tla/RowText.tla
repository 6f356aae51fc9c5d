------------------------------ MODULE RowText ------------------------------
(***************************************************************************)
(* user_code on a tuple from end to end: the walk of TupleLayout, and for  *)
(* every text column the bytes build_bytes takes from the tuple, or from   *)
(* the TOAST file, written by the sql_varlena of SqlLiteral into the row.  *)
(* A text is a sequence of bytes, so the characters are the bytes.         *)
(***************************************************************************)
EXTENDS TupleLayout, SqlLiteral

CONSTANTS
  Placeholder,   (* the word that stands for a value compressed in place   *)
  Fetched        (* the texts a fetch may bring, see ToastFetch            *)

ASSUME RowAssumption ==
  /\ Chars = Byte
  /\ Placeholder \in Seq(Byte) /\ Fetched \subseteq Seq(Byte)

VARIABLE row     (* all_output: what the session reads for each column     *)

rowVars == <<vars, literalVars, row>>

RowInit == Init /\ LiteralInit /\ row = << >>

(* Mutant: the pointer to the data is not moved past the header.           *)
BytesAtHeader(p) == [k \in 1 .. DataLength(p) |-> ByteAt(p + k - 1)]

Bytes(p) == [k \in 1 .. DataLength(p) |-> ByteAt(p + DataOffset(p) + k - 1)]

(* build_bytes of the value at p.                                          *)
TextsOf(p) ==
  CASE p = NotThere -> {NullText}
    [] p # NotThere /\ len_type(p) = "COMPRESSED" -> {Placeholder}
    [] p # NotThere /\ len_type(p) = "TOASTED" -> Fetched
    [] OTHER -> {Bytes(p)}

Reading == lit = "idle" /\ UNCHANGED <<literalVars, row>>

Walk ==
  /\ KeyMissing \/ WalkOffPage \/ NullColumn \/ GetInteger \/ GetVarlena \/ WalkEnds
  /\ Reading

TextFails == (TextOffPage \/ FetchFails) /\ Reading

AtText == AtValue /\ Kind(col) = "varlena"

BuildBytes ==
  /\ AtText
  /\ WithData => DataInPage(at[col + 1])
  /\ Toasted => InPage(at[col + 1], ToastSize)
  /\ \E t \in TextsOf(at[col + 1]) : text' = t /\ StartLiteral
  /\ UNCHANGED <<vars, row>>

WriteText == LiteralStep /\ UNCHANGED <<vars, row>>

TextWritten ==
  /\ AtText /\ EndLiteral /\ BuildText
  /\ row' = Append(row, lexer)

(* sql_integer and sql_geometric.                                          *)
WriteOther ==
  /\ AtValue /\ Kind(col) # "varlena" /\ BuildText
  /\ row' = Append(row, NotRead)
  /\ UNCHANGED literalVars

Finish == (PrintRow \/ AssertionFails \/ Terminated) /\ Reading

RowNext ==
  Walk \/ TextFails \/ BuildBytes \/ WriteText \/ TextWritten \/ WriteOther \/ Finish

RowSpec == RowInit /\ [][RowNext]_rowVars

-----------------------------------------------------------------------------

(* The bytes of a short or a long value that the server stored.            *)
StoredBytes(t, a) ==
  LET header == IF t.form[a + 1] = "short" THEN 1 ELSE VARHDRSZ
  IN  SubSeq(t.mem, StartOf(t, a) + header + 1, StartOf(t, a) + t.size[a + 1])

(* What the session may read for column c of a tuple.                      *)
Loads(t, c) ==
  IF c >= t.natts
    THEN {ReadAs(NullText)} \union IF NextIsFrozen(t) THEN {ReadAs(Placeholder)} ELSE {}
    ELSE CASE t.form[c + 1] = "null" -> {ReadAs(NullText)}
           [] t.form[c + 1] \in {"short", "long"} -> {ReadAs(StoredBytes(t, c))}
           [] t.form[c + 1] = "external" -> {ReadAs(x) : x \in Fetched}
           [] t.form[c + 1] = "compressed" -> {ReadAs(Placeholder)}

(* From the page to the session: if a row is printed then every text the   *)
(* server stored in its tuple, with whatever bytes and whatever header, is *)
(* what the session reads back for that column; a null is a null; only for *)
(* a value compressed in place, and for an added column of a tuple before  *)
(* a frozen one, the session reads the placeholder.                        *)
RowReadsBack ==
  pc = "printed" /\ Stored(tuple) =>
    \A c \in Columned : Kind(c) = "varlena" => row[c + 1] \in Loads(tuple, c)

=============================================================================
