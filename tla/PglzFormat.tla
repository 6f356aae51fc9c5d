----------------------------- MODULE PglzFormat -----------------------------
(***************************************************************************)
(* The compressed format as pg_lzcompress.c writes it: the output macros   *)
(* pglz_out_ctrl, pglz_out_literal and pglz_out_tag over a record that     *)
(* holds the compressor's output state, and the text an item list stands   *)
(* for.                                                                    *)
(*                                                                         *)
(* An item is a literal byte or a run of len bytes copied from off bytes   *)
(* back.                                                                   *)
(***************************************************************************)
EXTENDS Integers, Sequences

CONSTANT Nibble    \* number of values of half a byte, 16 in the code

ByteCount == Nibble * Nibble

ByteValue == 0 .. ByteCount - 1

Item == [kind: {"literal"}, byte: ByteValue] \union [kind: {"run"}, len: Nat, off: Nat]

Lit(b) == [kind |-> "literal", byte |-> b]
Run(n, o) == [kind |-> "run", len |-> n, off |-> o]

(* Output state of pglz_compress: the bytes from bstart to bp, the place   *)
(* reserved for the control byte (0 while it is ctrl_dummy), its value so  *)
(* far and the bit of the next item.                                       *)
NoOutput == [buf |-> << >>, ctrlp |-> 0, ctrlb |-> 0, ctrl |-> 0]

WriteControl(o) ==
  IF o.ctrlp = 0 THEN o.buf ELSE [o.buf EXCEPT ![o.ctrlp] = o.ctrlb]

(* pglz_out_ctrl: the eight bits are used up, so store the control byte    *)
(* and reserve the next one.                                               *)
OutCtrl(o) ==
  IF o.ctrl = 0
    THEN [buf |-> Append(WriteControl(o), 0),
          ctrlp |-> Len(o.buf) + 1, ctrlb |-> 0, ctrl |-> 1]
    ELSE o

Shift(bit) == (bit * 2) % ByteCount

(* Mutant: the control byte is reserved but its first bit is not reset.    *)
OutLiteralStaleBit(o, b) ==
  LET c == OutCtrl(o)
  IN  [c EXCEPT !.buf = Append(@, b), !.ctrl = Shift(o.ctrl)]

OutLiteral(o, b) ==
  LET c == OutCtrl(o)
  IN  [c EXCEPT !.buf = Append(@, b), !.ctrl = Shift(@)]

(* The bytes of a tag: runs longer than 17 use the extension byte.         *)
TagBytes(n, o) ==
  LET high == (o \div ByteCount) * Nibble
      low  == o % ByteCount
  IN  IF n > Nibble + 1
        THEN <<high + (Nibble - 1), low, n - (Nibble + 2)>>
        ELSE <<high + (n - 3), low>>

OutTag(o, n, f) ==
  LET c == OutCtrl(o)
  IN  [c EXCEPT !.ctrlb = @ + c.ctrl,
                !.ctrl = Shift(@),
                !.buf = @ \o TagBytes(n, f)]

Emit(o, item) ==
  IF item.kind = "literal" THEN OutLiteral(o, item.byte)
                           ELSE OutTag(o, item.len, item.off)

(* The output after the items of a list, and its bytes once the last       *)
(* control byte is stored.                                                 *)
Emitted(items) ==
  LET output[k \in 0 .. Len(items)] ==
        IF k = 0 THEN NoOutput ELSE Emit(output[k - 1], items[k])
  IN  output[Len(items)]

Encode(items) == WriteControl(Emitted(items))

-----------------------------------------------------------------------------

(* Reference meaning of an item list: a run repeats the last off bytes of  *)
(* the text before it for as long as it lasts.                             *)
Extend(text, item) ==
  IF item.kind = "literal"
    THEN Append(text, item.byte)
    ELSE text \o [k \in 1 .. item.len |->
                    text[Len(text) - item.off + 1 + ((k - 1) % item.off)]]

Expand(items) ==
  LET text[k \in 0 .. Len(items)] ==
        IF k = 0 THEN << >> ELSE Extend(text[k - 1], items[k])
  IN  text[Len(items)]

(* The runs pglz_find_match may return over a text: at least three bytes,  *)
(* at most PGLZ_MAX_MATCH, from a place inside the text that is less than  *)
(* 0x0fff bytes back.                                                      *)
RunFits(text, item) ==
  /\ item.len \in 3 .. Nibble + 1 + ByteCount
  /\ item.off \in 1 .. Len(text)
  /\ item.off < Nibble * ByteCount - 1

WellFormedItems(items) ==
  \A k \in DOMAIN items :
    items[k].kind = "run" => RunFits(Expand(SubSeq(items, 1, k - 1)), items[k])

=============================================================================
