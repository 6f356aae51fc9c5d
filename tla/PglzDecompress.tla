--------------------------- MODULE PglzDecompress ---------------------------
(***************************************************************************)
(* pglz_decompress() of pgsql_src/pg_lzcompress.c, one action per branch   *)
(* of its two nested loops, over byte values.                              *)
(*                                                                         *)
(* Half a byte has Nibble values (16 in the code) and a control byte       *)
(* carries CtrlBits flags (8 in the code); the tag layout scales with      *)
(* them, so a small Nibble exercises the same branches.  Positions count   *)
(* from 0 as the C pointers do, sp from the byte after PGLZ_Header and dp  *)
(* from dest.                                                              *)
(***************************************************************************)
EXTENDS Integers, Sequences

CONSTANTS
  Nibble,    (* number of values of half a byte                            *)
  CtrlBits,  (* items announced by one control byte                        *)
  Slack,     (* bytes the caller allocates after the rawsize ones          *)
  Mark,      (* the byte 'c' that giveup_assertion writes twice            *)
  Inputs     (* the calls considered                                       *)

Byte == 0 .. Nibble * Nibble - 1

(* src is the memory the buffer holds after the header, srcend the length  *)
(* its header claims for it, rawsize the decompressed size it announces.   *)
Input == [src: Seq(Byte), srcend: Nat, rawsize: Nat]

ASSUME ConstantsAssumption ==
  /\ Nibble \in Nat /\ Nibble >= 2
  /\ CtrlBits \in Nat \ {0}
  /\ Slack \in Nat /\ Slack >= 2
  /\ Mark \in Byte

(* The value of the flag read after k others of a control byte.  The       *)
(* control bytes are exactly as wide as the flags they carry.              *)
Bit[k \in 0 .. CtrlBits] == IF k = 0 THEN 1 ELSE 2 * Bit[k - 1]

ASSUME ControlAssumption == Bit[CtrlBits] = Nibble * Nibble

ASSUME InputsAssumption == Inputs \subseteq Input

VARIABLES
  in,        (* the arguments of the call                                  *)
  sp, dp,    (* read and write positions                                   *)
  ctrl,      (* control bits not consumed yet                              *)
  ctrlc,     (* items processed under this control byte                    *)
  len, off,  (* the back reference being copied                            *)
  dest,      (* the output buffer                                          *)
  pc

vars == <<in, sp, dp, ctrl, ctrlc, len, off, dest, pc>>

Final == {"returned", "gaveup", "aborted"}

(* What a read at position i may yield: past the end of the buffer, any    *)
(* byte the heap happens to hold there.                                    *)
ByteAt(i) == IF i < Len(in.src) THEN {in.src[i + 1]} ELSE Byte

(* A tag: length and offset share the first byte, the second byte is the   *)
(* low part of the offset, and the largest short length announces a third  *)
(* byte that extends it.                                                   *)
Tag(b0, b1, b2) ==
  LET extended == b0 % Nibble = Nibble - 1
  IN  [len  |-> (b0 % Nibble) + 3 + (IF extended THEN b2 ELSE 0),
       off  |-> (b0 \div Nibble) * (Nibble * Nibble) + b1,
       size |-> IF extended THEN 3 ELSE 2]

TagsAt(i) ==
  {Tag(b0, b1, b2) : b0 \in ByteAt(i), b1 \in ByteAt(i + 1), b2 \in ByteAt(i + 2)}

(* Memory d after byte b was put at position k.  Nothing in the code keeps  *)
(* a write inside the buffer, so one outside it shows as a larger domain.  *)
Written(d, k, b) == [j \in DOMAIN d \union {k} |-> IF j = k THEN b ELSE d[j]]

(* What is read at position k of memory d; outside it, any byte.           *)
Held(d, k) == IF k \in DOMAIN d THEN {d[k]} ELSE Byte

-----------------------------------------------------------------------------

(* The state in which the loops of a call with argument i are entered; the *)
(* caller hands over a zero-filled buffer.                                 *)
Call(i) ==
  /\ in = i
  /\ sp = 0 /\ dp = 0
  /\ ctrl = 0 /\ ctrlc = 0
  /\ len = 0 /\ off = 0
  /\ dest = [k \in 0 .. i.rawsize + Slack - 1 |-> 0]
  /\ pc = "while"

Init == \E i \in Inputs : Call(i)

ReadControl ==
  /\ pc = "while" /\ sp < in.srcend /\ dp < in.rawsize
  /\ ctrl' \in ByteAt(sp)
  /\ sp' = sp + 1
  /\ ctrlc' = 0
  /\ pc' = "for"
  /\ UNCHANGED <<in, dp, len, off, dest>>

(* Mutant: the end of the input is not looked at.                          *)
MoreItemsUnbounded == pc = "for" /\ ctrlc < CtrlBits

MoreItems == pc = "for" /\ ctrlc < CtrlBits /\ sp < in.srcend

ControlDone ==
  /\ pc = "for" /\ ~ MoreItems
  /\ pc' = "while"
  /\ UNCHANGED <<in, sp, dp, ctrl, ctrlc, len, off, dest>>

NextItem == ctrl' = ctrl \div 2 /\ ctrlc' = ctrlc + 1

(* Mutant: the room is not checked.                                        *)
LiteralUnchecked ==
  /\ MoreItems /\ ctrl % 2 = 0
  /\ \E b \in ByteAt(sp) : dest' = Written(dest, dp, b)
  /\ sp' = sp + 1
  /\ dp' = dp + 1
  /\ NextItem
  /\ UNCHANGED <<in, len, off, pc>>

Literal ==
  /\ MoreItems /\ ctrl % 2 = 0 /\ dp < in.rawsize
  /\ \E b \in ByteAt(sp) : dest' = Written(dest, dp, b)
  /\ sp' = sp + 1
  /\ dp' = dp + 1
  /\ NextItem
  /\ UNCHANGED <<in, len, off, pc>>

(* No room for the literal: leave the inner loop, nothing consumed.        *)
LiteralOverrun ==
  /\ MoreItems /\ ctrl % 2 = 0 /\ dp >= in.rawsize
  /\ pc' = "while"
  /\ UNCHANGED <<in, sp, dp, ctrl, ctrlc, len, off, dest>>

(* Mutant: the run is copied whether it fits or not.                       *)
BeginCopyUnchecked ==
  /\ MoreItems /\ ctrl % 2 = 1
  /\ \E t \in TagsAt(sp) : sp' = sp + t.size /\ len' = t.len /\ off' = t.off
  /\ pc' = "copy"
  /\ UNCHANGED <<in, dp, ctrl, ctrlc, dest>>

BeginCopy ==
  /\ MoreItems /\ ctrl % 2 = 1
  /\ \E t \in TagsAt(sp) :
       /\ dp + t.len <= in.rawsize
       /\ sp' = sp + t.size
       /\ len' = t.len
       /\ off' = t.off
  /\ pc' = "copy"
  /\ UNCHANGED <<in, dp, ctrl, ctrlc, dest>>

(* Mutant: the room is tested when the first byte of the run is out.       *)
TagOverrunLate ==
  /\ MoreItems /\ ctrl % 2 = 1
  /\ \E t \in TagsAt(sp) :
       /\ dp + t.len > in.rawsize
       /\ sp' = sp + t.size
       /\ len' = t.len
       /\ off' = t.off
       /\ dp' = dp + t.len
       /\ dest' = IF t.off <= dp THEN Written(dest, dp, dest[dp - t.off]) ELSE dest
  /\ pc' = "while"
  /\ UNCHANGED <<in, ctrl, ctrlc>>

(* The run does not fit: dp is advanced so that the check after the loops  *)
(* can see it, and the run is not copied.                                  *)
TagOverrun ==
  /\ MoreItems /\ ctrl % 2 = 1
  /\ \E t \in TagsAt(sp) :
       /\ dp + t.len > in.rawsize
       /\ sp' = sp + t.size
       /\ len' = t.len
       /\ off' = t.off
       /\ dp' = dp + t.len
  /\ pc' = "while"
  /\ UNCHANGED <<in, ctrl, ctrlc, dest>>

(* Mutants: source and destination swapped; the run is copied in pieces    *)
(* that do not overlap, each as long as the offset.                        *)
CopyByteReversed ==
  /\ pc = "copy" /\ len > 0 /\ dp - off >= 0
  /\ dest' = Written(dest, dp - off, dest[dp])
  /\ dp' = dp + 1
  /\ len' = len - 1
  /\ UNCHANGED <<in, sp, ctrl, ctrlc, off, pc>>
CopyByteByOffset ==
  /\ pc = "copy" /\ len > 0 /\ dp - off >= 0
  /\ LET n == IF off < len THEN off ELSE len
     IN  /\ dest' = [k \in DOMAIN dest |->
                       IF k \in dp .. dp + n - 1 THEN dest[k - off] ELSE dest[k]]
         /\ dp' = dp + n
         /\ len' = len - n
  /\ UNCHANGED <<in, sp, ctrl, ctrlc, off, pc>>

CopyByte ==
  /\ pc = "copy" /\ len > 0 /\ dp - off >= 0
  /\ \E b \in Held(dest, dp - off) : dest' = Written(dest, dp, b)
  /\ dp' = dp + 1
  /\ len' = len - 1
  /\ UNCHANGED <<in, sp, ctrl, ctrlc, off, pc>>

(* giveup_assertion: the reference reaches before the output.              *)
GiveUp ==
  /\ pc = "copy" /\ len > 0 /\ dp - off < 0
  /\ dest' = Written(Written(dest, 0, Mark), 1, Mark)
  /\ pc' = "gaveup"
  /\ UNCHANGED <<in, sp, dp, ctrl, ctrlc, len, off>>

CopyDone ==
  /\ pc = "copy" /\ len = 0
  /\ NextItem
  /\ pc' = "for"
  /\ UNCHANGED <<in, sp, dp, len, off, dest>>

(* Mutant: PostgreSQL's own check, which asks for all of the input too.    *)
FinishStrict ==
  /\ pc = "while" /\ ~ (sp < in.srcend /\ dp < in.rawsize)
  /\ pc' = IF dp # in.rawsize \/ sp # in.srcend THEN "aborted" ELSE "returned"
  /\ UNCHANGED <<in, sp, dp, ctrl, ctrlc, len, off, dest>>

(* The checks after the loops: only missing output with input left over    *)
(* aborts the program.                                                     *)
Finish ==
  /\ pc = "while" /\ ~ (sp < in.srcend /\ dp < in.rawsize)
  /\ pc' = IF dp < in.rawsize /\ sp # in.srcend THEN "aborted" ELSE "returned"
  /\ UNCHANGED <<in, sp, dp, ctrl, ctrlc, len, off, dest>>

Step ==
  \/ ReadControl \/ ControlDone
  \/ Literal \/ LiteralOverrun
  \/ BeginCopy \/ TagOverrun \/ CopyByte \/ GiveUp \/ CopyDone
  \/ Finish

Terminated == pc \in Final /\ UNCHANGED vars

Next == Step \/ Terminated

Spec == Init /\ [][Next]_vars

(* One thread runs the function to its end.                                *)
FairSpec == Spec /\ WF_vars(Step)

-----------------------------------------------------------------------------

(* The longest run a tag can announce (273 in the code).                   *)
MaxRun == Nibble + 1 + Nibble * Nibble

(* Every variable keeps its range, and the output buffer the bytes it was  *)
(* allocated with: no write of the decoder lies outside it.                *)
TypeOK ==
  /\ in \in Input
  /\ sp \in Nat /\ dp \in Nat
  /\ ctrl \in Byte
  /\ ctrlc \in 0 .. CtrlBits
  /\ len \in 0 .. MaxRun
  /\ off \in Nat
  /\ dest \in [0 .. in.rawsize + Slack - 1 -> Byte]
  /\ pc \in Final \union {"while", "for", "copy"}

(* The caller adds a kilobyte after the output "to guarantee that a buggy  *)
(* decompresser does not write garbage where it shouldnt": whatever the    *)
(* input, the decoder leaves those bytes alone, except for the two marks   *)
(* of a give-up when the output itself is shorter than two bytes.          *)
SlackUntouched ==
  \A k \in DOMAIN dest :
    k >= in.rawsize /\ dest[k] # 0 => pc = "gaveup" /\ k < 2

(* Where the bytes put out end.  Only a run that does not fit takes dp     *)
(* past the output, and none of it is copied.                              *)
OutputEnd == IF dp > in.rawsize THEN dp - len ELSE dp

(* Nothing at or after the end of the output has been written: an output   *)
(* cut short, by the end of the input, by a run that does not fit or by    *)
(* giving up in the middle of one, is zero from there on, but for the two  *)
(* marks of a give-up.                                                     *)
ZeroTail ==
  \A k \in DOMAIN dest : k >= OutputEnd /\ dest[k] # 0 => pc = "gaveup" /\ k < 2

(* Input is checked against srcend once per item, so a tag cut by the end  *)
(* of the input is read past it, but never by more than two bytes.         *)
OverreadBounded == sp <= in.srcend + 2

(* Output bytes are written once: no step but the give-up changes a byte   *)
(* before the write position, so a back reference always reads final       *)
(* bytes.                                                                  *)
OutputStable ==
  [][pc' # "gaveup" => \A k \in 0 .. dp - 1 : k \in DOMAIN dest => dest'[k] = dest[k]]_vars

(* The decoder ends on every input, truncated or corrupt ones included,    *)
(* and so on a back reference of distance zero, which copies each byte     *)
(* onto itself.                                                            *)
Termination == <>(pc \in Final)

(* "Check we decompressed the right amount." (comment before the final     *)
(* checks): a call that returns has produced exactly rawsize bytes.        *)
ReturnedMeansComplete == pc = "returned" => dp = in.rawsize

=============================================================================
