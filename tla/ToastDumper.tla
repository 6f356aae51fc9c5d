---------------------------- MODULE ToastDumper ----------------------------
(***************************************************************************)
(* The toast_dumper program's own part: the argument it filters by and the *)
(* line it prints for each tuple of a TOAST file that main hands it (see   *)
(* TableDump for main's loop).                                             *)
(*                                                                         *)
(* A tuple is a record: atts (its three attributes are not null), id and   *)
(* seq, rest (the bytes from chunk_data to the end of the page buffer, the *)
(* first two attributes taking ChunkPos bytes), len and hoff.              *)
(***************************************************************************)
EXTENDS Integers, Sequences

CONSTANTS
  Calls,        (* the ways the program is called: arg, a record [kind,    *)
                (* number], and tuples, in the order main follows them     *)
  MaxUnsigned,  (* 2^32 - 1                                                *)
  ChunkPos,     (* where chunk_data begins in a tuple's data, 8            *)
  ShownBytes    (* bytes of a chunk shown, 30                              *)

ChunkTuple == [atts: BOOLEAN, id: 0 .. MaxUnsigned, seq: 0 .. MaxUnsigned,
               rest: Seq(Nat), len: 0 .. MaxUnsigned, hoff: 0 .. MaxUnsigned]

Arg == [kind: {"none", "text", "number"}, number: Int]

ASSUME DumperAssumption ==
  /\ MaxUnsigned \in Nat /\ ChunkPos \in Nat /\ ShownBytes \in Nat
  /\ ChunkPos + ShownBytes <= MaxUnsigned
  /\ Calls \subseteq [arg: Arg, tuples: Seq(ChunkTuple)]

VARIABLES
  call,     (* how the program was called                                  *)
  filter,   (* filter                                                      *)
  n,        (* tuples handed to user_code                                  *)
  out,      (* the lines printed: id, seq and the bytes shown              *)
  pc

vars == <<call, filter, n, out, pc>>

Word(i) == i % (MaxUnsigned + 1)

Init ==
  /\ call \in Calls
  /\ filter = 0 /\ n = 0 /\ out = << >>
  /\ pc = "setup"

(* Mutant: a number too large for an unsigned is cut to its low bits.      *)
ReadNumberWrapped(arg) == IF arg.kind = "number" THEN Word(arg.number) ELSE 0

(* operator>> of an unsigned: zero if there is no number, the largest one  *)
(* if the number is too large, and a negative number modulo 2^32.          *)
ReadNumber(arg) ==
  IF arg.kind # "number" THEN 0
  ELSE IF arg.number > MaxUnsigned \/ arg.number < - MaxUnsigned THEN MaxUnsigned
  ELSE Word(arg.number)

user_code_setup ==
  /\ pc = "setup"
  /\ filter' = ReadNumber(call.arg)
  /\ pc' = "tuples"
  /\ UNCHANGED <<call, n, out>>

AtTuple == pc = "tuples" /\ n < Len(call.tuples)
Tuple == call.tuples[n + 1]

AttributeMissing ==
  /\ AtTuple /\ ~ Tuple.atts
  /\ pc' = "aborted"
  /\ UNCHANGED <<call, filter, n, out>>

(* Mutant: the end of the tuple is not looked at.                          *)
HexEndBeyond(t) == ChunkPos + ShownBytes

(* hexadecimate_all(pos, pos + 30), data_size being an unsigned difference.*)
HexEnd(t) ==
  LET data_size == Word(t.len - t.hoff)
  IN  IF data_size > ChunkPos + ShownBytes THEN ChunkPos + ShownBytes ELSE data_size

HexLength(t) == IF HexEnd(t) < ChunkPos THEN 0 ELSE HexEnd(t) - ChunkPos

(* The size is read from chunk_data even if no line is printed.            *)
HexOffPage ==
  /\ AtTuple /\ Tuple.atts
  /\ Len(Tuple.rest) = 0 \/ HexLength(Tuple) > Len(Tuple.rest)
  /\ pc' = "undefined"
  /\ UNCHANGED <<call, filter, n, out>>

Readable == AtTuple /\ Tuple.atts /\ Len(Tuple.rest) > 0 /\ HexLength(Tuple) <= Len(Tuple.rest)

Line(t) == [id |-> t.id, seq |-> t.seq, hex |-> SubSeq(t.rest, 1, HexLength(t))]

PrintChunk ==
  /\ Readable /\ filter \in {0, Tuple.id}
  /\ out' = Append(out, Line(Tuple))
  /\ n' = n + 1
  /\ UNCHANGED <<call, filter, pc>>

PassChunk ==
  /\ Readable /\ filter \notin {0, Tuple.id}
  /\ n' = n + 1
  /\ UNCHANGED <<call, filter, out, pc>>

user_code_finish ==
  /\ pc = "tuples" /\ n >= Len(call.tuples)
  /\ pc' = "returned"
  /\ UNCHANGED <<call, filter, n, out>>

Terminated == pc \in {"returned", "aborted", "undefined"} /\ UNCHANGED vars

Next ==
  \/ user_code_setup \/ AttributeMissing \/ HexOffPage
  \/ PrintChunk \/ PassChunk \/ user_code_finish \/ Terminated

Spec == Init /\ [][Next]_vars

-----------------------------------------------------------------------------

(* Only the chunks of the value asked for are listed, and all of those     *)
(* passed, in the file's order, as often as they are stored there.  Every  *)
(* argument asks for something: no number, or zero, for all chunks, a      *)
(* number below zero for the id that many below 2^32, and a number whose   *)
(* magnitude no chunk_id has for the largest id.                           *)
AskedFor(t) ==
  LET a == call.arg.number
  IN  \/ call.arg.kind # "number" \/ a = 0
      \/ t.id = a
      \/ a \in - MaxUnsigned .. -1 /\ t.id + (- a) = MaxUnsigned + 1
      \/ a \notin - MaxUnsigned .. MaxUnsigned /\ t.id = MaxUnsigned
ChunksAskedFor(m) ==
  LET asked[k \in 0 .. m] ==
        IF k = 0 THEN << >>
        ELSE IF AskedFor(call.tuples[k]) THEN Append(asked[k - 1], call.tuples[k])
        ELSE asked[k - 1]
  IN  asked[m]
OnlyAskedFor ==
  LET wanted == ChunksAskedFor(n)
  IN  /\ Len(out) = Len(wanted)
      /\ \A k \in DOMAIN out : out[k].id = wanted[k].id /\ out[k].seq = wanted[k].seq

(* A line shows the first bytes of its chunk, none of them beyond the end  *)
(* of the tuple or of the page, and no more than fit.  When the header     *)
(* claims to end behind the tuple, data_size wraps: then the line goes on  *)
(* with what follows the tuple, but never past ShownBytes bytes.           *)
BytesShown(t, m) ==
  /\ m \in 0 .. Len(t.rest) /\ m <= ShownBytes
  /\ t.hoff <= t.len =>
       IF t.len - t.hoff <= ChunkPos THEN m = 0
       ELSE m = t.len - t.hoff - ChunkPos \/ (m = ShownBytes /\ m <= t.len - t.hoff - ChunkPos)
ShowsItsBytes ==
  \A k \in DOMAIN out : \E j \in 1 .. n :
    LET t == call.tuples[j]
    IN  /\ out[k].id = t.id /\ out[k].seq = t.seq
        /\ BytesShown(t, Len(out[k].hex))
        /\ out[k].hex = SubSeq(t.rest, 1, Len(out[k].hex))

=============================================================================
