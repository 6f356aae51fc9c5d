------------------------ MODULE PglzDecompressProofs ------------------------
(***************************************************************************)
(* The safety of pglz_decompress for every input: the decoder writes only  *)
(* where it may, reads at most two bytes past the length it was given, and *)
(* never changes a byte it has put out.  And its correctness: a stream the *)
(* compressor's macros wrote is decoded to the text it stands for.         *)
(***************************************************************************)
EXTENDS PglzRoundTrip, Induction, SequenceTheorems, TLAPS

(* The output written is inside the requested size, and everything after   *)
(* the write position, the caller's slack included, is still zero.  What   *)
(* bounds a run being copied is the test made when its tag was read.       *)
RunFits == pc = "copy" => dp + len <= in.rawsize
CopyUnderControl == pc = "copy" => ctrlc < CtrlBits
PositionFits == pc = "for" => dp <= in.rawsize
SlackZero == pc # "gaveup" => \A k \in DOMAIN dest : k >= in.rawsize => dest[k] = 0

Inv ==
  /\ TypeOK
  /\ RunFits /\ CopyUnderControl /\ PositionFits
  /\ SlackZero /\ ZeroTail /\ OverreadBounded

-----------------------------------------------------------------------------

(* Half bytes and control bits of a byte.                                  *)
LEMMA ByteParts ==
  ASSUME NEW b \in Byte
  PROVE  /\ b \in Nat
         /\ b % Nibble \in 0 .. Nibble - 1
         /\ b \div Nibble \in Nat
         /\ b \div 2 \in Byte
  <1>1. Nibble \in Nat /\ Nibble >= 2 /\ Nibble * Nibble \in Nat
    BY ConstantsAssumption
  <1>2. b \in Nat /\ b < Nibble * Nibble
    BY <1>1 DEF Byte
  <1>3. b % Nibble \in 0 .. Nibble - 1
    BY <1>1, <1>2
  <1>4. b \div Nibble \in Nat
    BY <1>1, <1>2
  <1>5. b \div 2 \in Byte
    BY <1>1, <1>2 DEF Byte
  <1>6. QED  BY <1>2, <1>3, <1>4, <1>5

LEMMA ReadsAreBytes ==
  ASSUME in \in Input, NEW j \in Nat
  PROVE  ByteAt(j) \subseteq Byte
  <1>1. in.src \in Seq(Byte)
    BY DEF Input
  <1>2. j < Len(in.src) => in.src[j + 1] \in Byte
    BY <1>1
  <1>3. QED  BY <1>2 DEF ByteAt

(* What a tag may say: a run of 3 to MaxRun bytes, and it has at most      *)
(* three bytes.                                                            *)
LEMMA TagBounds ==
  ASSUME in \in Input, NEW j \in Nat, NEW t \in TagsAt(j)
  PROVE  /\ t.len \in 3 .. MaxRun
         /\ t.off \in Nat
         /\ t.size \in 2 .. 3
  <1>1. PICK b0 \in ByteAt(j), b1 \in ByteAt(j + 1), b2 \in ByteAt(j + 2) :
          t = Tag(b0, b1, b2)
    BY DEF TagsAt
  <1>2. b0 \in Byte /\ b1 \in Byte /\ b2 \in Byte
    <2>1. j + 1 \in Nat /\ j + 2 \in Nat
      OBVIOUS
    <2>2. QED  BY <1>1, <2>1, ReadsAreBytes
  <1>3. Nibble \in Nat /\ Nibble * Nibble \in Nat
    BY ConstantsAssumption
  <1>4. b0 % Nibble \in 0 .. Nibble - 1 /\ b0 \div Nibble \in Nat
    BY <1>2, ByteParts
  <1>5. b1 \in Nat /\ b2 \in 0 .. Nibble * Nibble - 1
    BY <1>2, <1>3 DEF Byte
  <1>6. t.len \in 3 .. MaxRun
    BY <1>1, <1>3, <1>4, <1>5 DEF Tag, MaxRun
  <1>7. (b0 \div Nibble) * (Nibble * Nibble) \in Nat
    BY <1>3, <1>4
  <1>8. t.off \in Nat
    BY <1>1, <1>5, <1>7 DEF Tag
  <1>9. t.size \in 2 .. 3
    BY <1>1 DEF Tag
  <1>10. QED  BY <1>6, <1>8, <1>9

(* A byte put inside a buffer leaves it as large as it was.                *)
LEMMA WrittenInside ==
  ASSUME NEW S, NEW d \in [S -> Byte], NEW k \in S, NEW b \in Byte
  PROVE  Written(d, k, b) = [d EXCEPT ![k] = b] /\ Written(d, k, b) \in [S -> Byte]
  <1>1. DOMAIN d \union {k} = S
    OBVIOUS
  <1>2. Written(d, k, b) = [j \in S |-> IF j = k THEN b ELSE d[j]]
    BY <1>1 DEF Written
  <1>3. QED  BY <1>2

(* An item taken leaves a byte of control bits and a count in range.       *)
LEMMA NextItemTyped ==
  ASSUME ctrl \in Byte, ctrlc \in 0 .. CtrlBits, ctrlc < CtrlBits, NextItem
  PROVE  ctrl' \in Byte /\ ctrlc' \in 0 .. CtrlBits
  BY ByteParts, ConstantsAssumption DEF NextItem

-----------------------------------------------------------------------------

LEMMA CallInv ==
  ASSUME NEW i \in Input, Call(i)
  PROVE  Inv
  <1> USE DEF Call
  <1>1. i \in Input /\ i.rawsize \in Nat /\ i.srcend \in Nat
    BY DEF Input
  <1>2. 0 \in Byte /\ 0 \in 0 .. CtrlBits /\ 0 \in 0 .. MaxRun
    BY ConstantsAssumption DEF Byte, MaxRun
  <1>3. dest \in [0 .. in.rawsize + Slack - 1 -> Byte]
    BY <1>2
  <1>4. TypeOK
    BY <1>1, <1>2, <1>3 DEF TypeOK
  <1>5. RunFits /\ CopyUnderControl /\ PositionFits
    BY DEF RunFits, CopyUnderControl, PositionFits
  <1>6. SlackZero /\ ZeroTail
    BY DEF SlackZero, ZeroTail, OutputEnd
  <1>7. OverreadBounded
    BY <1>1 DEF OverreadBounded
  <1>8. QED  BY <1>4, <1>5, <1>6, <1>7 DEF Inv

LEMMA InitInv == Init => Inv
  BY CallInv, InputsAssumption DEF Init

LEMMA StepInv == Inv /\ [Next]_vars => Inv'
  <1> SUFFICES ASSUME Inv, [Next]_vars
               PROVE  Inv'
    OBVIOUS
  <1> USE DEF Inv
  <1>t. /\ in \in Input /\ in.rawsize \in Nat /\ in.srcend \in Nat
        /\ Slack \in Nat /\ Slack >= 2 /\ CtrlBits \in Nat
    BY ConstantsAssumption DEF TypeOK, Input
  <1>1. CASE ReadControl
    <2> USE <1>1 DEF ReadControl
    <2>1. ctrl' \in Byte
      BY ReadsAreBytes DEF TypeOK
    <2>2. TypeOK'
      BY <1>t, <2>1 DEF TypeOK
    <2>3. (RunFits /\ CopyUnderControl /\ PositionFits)'
      BY <1>t DEF RunFits, CopyUnderControl, PositionFits, TypeOK
    <2>4. (SlackZero /\ ZeroTail)'
      BY DEF SlackZero, ZeroTail, OutputEnd
    <2>5. OverreadBounded'
      BY <1>t DEF OverreadBounded, TypeOK
    <2>6. QED  BY <2>2, <2>3, <2>4, <2>5
  <1>2. CASE ControlDone
    BY <1>2 DEF ControlDone, TypeOK, RunFits, CopyUnderControl, PositionFits,
                SlackZero, ZeroTail, OutputEnd, OverreadBounded
  <1>3. CASE Literal
    <2> USE <1>3 DEF Literal, MoreItems
    <2>p. PICK b \in ByteAt(sp) : dest' = Written(dest, dp, b)
      OBVIOUS
    <2>2. b \in Byte
      BY ReadsAreBytes DEF TypeOK
    <2>1. /\ dest' = [dest EXCEPT ![dp] = b]
          /\ dest' \in [0 .. in.rawsize + Slack - 1 -> Byte]
      <3> DEFINE S == 0 .. in.rawsize + Slack - 1
      <3>1. dp \in S /\ dest \in [S -> Byte]
        BY <1>t DEF TypeOK
      <3> HIDE DEF S
      <3>2. /\ Written(dest, dp, b) = [dest EXCEPT ![dp] = b]
            /\ Written(dest, dp, b) \in [S -> Byte]
        BY ONLY <2>2, <3>1, WrittenInside
      <3>3. dest' = [dest EXCEPT ![dp] = b] /\ dest' \in [S -> Byte]
        BY ONLY <2>p, <3>2
      <3>4. QED  BY <3>3 DEF S
    <2>3. ctrl' \in Byte /\ ctrlc' \in 0 .. CtrlBits
      BY NextItemTyped DEF TypeOK
    <2>4. TypeOK'
      BY <1>t, <2>1, <2>2, <2>3 DEF TypeOK
    <2>5. (RunFits /\ CopyUnderControl /\ PositionFits)'
      BY <1>t DEF RunFits, CopyUnderControl, PositionFits, TypeOK
    <2>6. (SlackZero /\ ZeroTail)'
      BY <1>t, <2>1 DEF SlackZero, ZeroTail, OutputEnd, TypeOK
    <2>7. OverreadBounded'
      BY <1>t DEF OverreadBounded, TypeOK
    <2>8. QED  BY <2>4, <2>5, <2>6, <2>7
  <1>4. CASE LiteralOverrun
    <2> USE <1>4 DEF LiteralOverrun, MoreItems
    <2>1. TypeOK'
      BY DEF TypeOK
    <2>2. (RunFits /\ CopyUnderControl /\ PositionFits)'
      BY DEF RunFits, CopyUnderControl, PositionFits
    <2>3. (SlackZero /\ ZeroTail /\ OverreadBounded)'
      BY DEF SlackZero, ZeroTail, OutputEnd, OverreadBounded
    <2>4. QED  BY <2>1, <2>2, <2>3
  <1>5. CASE BeginCopy
    <2> USE <1>5 DEF BeginCopy, MoreItems
    <2>1. PICK t \in TagsAt(sp) :
            dp + t.len <= in.rawsize /\ sp' = sp + t.size /\ len' = t.len /\ off' = t.off
      OBVIOUS
    <2>2. t.len \in 3 .. MaxRun /\ t.off \in Nat /\ t.size \in 2 .. 3
      BY TagBounds DEF TypeOK
    <2>3. TypeOK'
      <3>1. sp' \in Nat /\ len' \in 0 .. MaxRun /\ off' \in Nat /\ pc' = "copy"
        BY <2>1, <2>2 DEF TypeOK
      <3>2. QED  BY <1>t, <3>1 DEF TypeOK
    <2>4. (RunFits /\ CopyUnderControl /\ PositionFits)'
      BY <2>1 DEF RunFits, CopyUnderControl, PositionFits
    <2>5. (SlackZero /\ ZeroTail)'
      <3>1. dp <= in.rawsize /\ OutputEnd = dp /\ OutputEnd' = dp
        BY <1>t DEF PositionFits, OutputEnd, TypeOK
      <3>2. QED  BY <3>1 DEF SlackZero, ZeroTail
    <2>6. OverreadBounded'
      <3>1. sp \in Nat /\ in.srcend \in Nat /\ sp < in.srcend /\ sp' <= sp + 3 /\ in' = in
        <4>1. sp \in Nat /\ in.srcend \in Nat /\ sp < in.srcend /\ in' = in
          BY <1>t DEF TypeOK
        <4>2. sp' = sp + t.size /\ t.size \in 2 .. 3
          BY <2>1, <2>2
        <4>3. QED  BY ONLY <4>1, <4>2
      <3>2. QED  BY <3>1 DEF OverreadBounded
    <2>7. QED  BY <2>3, <2>4, <2>5, <2>6
  <1>6. CASE TagOverrun
    <2> USE <1>6 DEF TagOverrun, MoreItems
    <2>1. PICK t \in TagsAt(sp) :
            /\ dp + t.len > in.rawsize
            /\ sp' = sp + t.size /\ dp' = dp + t.len /\ len' = t.len /\ off' = t.off
      OBVIOUS
    <2>2. t.len \in 3 .. MaxRun /\ t.off \in Nat /\ t.size \in 2 .. 3
      BY TagBounds DEF TypeOK
    <2>3. t.len \in Nat
      BY <2>2, ConstantsAssumption DEF MaxRun
    <2>p. sp' \in Nat /\ dp' \in Nat
      <3>1. sp \in Nat /\ dp \in Nat
        BY DEF TypeOK
      <3>2. QED  BY ONLY <2>1, <2>2, <2>3, <3>1
    <2>n. /\ pc' \in Final \union {"while", "for", "copy"}
          /\ len' \in 0 .. MaxRun /\ off' \in Nat
      BY <2>1, <2>2, ConstantsAssumption DEF MaxRun
    <2>4. TypeOK'
      BY <2>p, <2>n DEF TypeOK
    <2>5. (RunFits /\ CopyUnderControl /\ PositionFits)'
      BY DEF RunFits, CopyUnderControl, PositionFits
    <2>6. (SlackZero /\ ZeroTail)'
      <3>1. dp \in Nat /\ dp <= in.rawsize
        BY DEF PositionFits, TypeOK
      <3>2. OutputEnd = dp /\ OutputEnd' = dp
        <4>1. \A d, l, r \in Nat : d + l > r => (d + l) - l = d
          OBVIOUS
        <4>2. QED  BY <1>t, <2>1, <2>3, <3>1, <4>1 DEF OutputEnd
      <3>3. QED  BY <3>2 DEF SlackZero, ZeroTail
    <2>7. OverreadBounded'
      <3>1. sp \in Nat /\ in.srcend \in Nat /\ sp < in.srcend /\ sp' <= sp + 3 /\ in' = in
        <4>1. sp \in Nat /\ in.srcend \in Nat /\ sp < in.srcend /\ in' = in
          BY <1>t DEF TypeOK
        <4>2. sp' = sp + t.size /\ t.size \in 2 .. 3
          BY <2>1, <2>2
        <4>3. QED  BY ONLY <4>1, <4>2
      <3>2. QED  BY <3>1 DEF OverreadBounded
    <2>8. QED  BY <2>4, <2>5, <2>6, <2>7
  <1>7. CASE CopyByte
    <2> USE <1>7 DEF CopyByte
    <2>1. dp < in.rawsize /\ dp + 1 + (len - 1) <= in.rawsize
      BY <1>t, ConstantsAssumption DEF RunFits, TypeOK, MaxRun
    <2>2. dest[dp - off] \in Byte
      BY <1>t, <2>1 DEF TypeOK
    <2>3. len' \in 0 .. MaxRun
      BY ConstantsAssumption DEF TypeOK, MaxRun
    <2>a. /\ dest' = [dest EXCEPT ![dp] = dest[dp - off]]
          /\ dest' \in [0 .. in.rawsize + Slack - 1 -> Byte]
      <3> DEFINE S == 0 .. in.rawsize + Slack - 1
      <3>1. dp \in S /\ dest \in [S -> Byte]
        BY <1>t, <2>1 DEF TypeOK
      <3> HIDE DEF S
      <3>2. /\ Written(dest, dp, dest[dp - off]) = [dest EXCEPT ![dp] = dest[dp - off]]
            /\ Written(dest, dp, dest[dp - off]) \in [S -> Byte]
        BY ONLY <2>2, <3>1, WrittenInside
      <3>3. dest' = Written(dest, dp, dest[dp - off])
        <4>1. dp - off \in DOMAIN dest
          BY <1>t, <2>1 DEF TypeOK
        <4>2. Held(dest, dp - off) = {dest[dp - off]}
          BY ONLY <4>1 DEF Held
        <4>3. QED  BY ONLY <1>7, <4>2 DEF CopyByte
      <3>4. dest' = [dest EXCEPT ![dp] = dest[dp - off]] /\ dest' \in [S -> Byte]
        BY ONLY <3>2, <3>3
      <3>5. QED  BY <3>4 DEF S
    <2>b. dp' \in Nat
      BY DEF TypeOK
    <2>4. TypeOK'
      BY <2>3, <2>a, <2>b DEF TypeOK
    <2>5. (RunFits /\ CopyUnderControl /\ PositionFits)'
      BY <2>1 DEF RunFits, CopyUnderControl, PositionFits
    <2>6. (SlackZero /\ ZeroTail)'
      <3>1. OutputEnd = dp /\ OutputEnd' = dp + 1
        BY <1>t, <2>1 DEF OutputEnd, TypeOK
      <3>2. QED  BY <1>t, <2>1, <2>a, <3>1 DEF SlackZero, ZeroTail, TypeOK
    <2>7. OverreadBounded'
      BY DEF OverreadBounded
    <2>8. QED  BY <2>4, <2>5, <2>6, <2>7
  <1>8. CASE GiveUp
    <2> USE <1>8 DEF GiveUp
    <2>0. /\ dest' = [dest EXCEPT ![0] = Mark, ![1] = Mark]
          /\ dest' \in [0 .. in.rawsize + Slack - 1 -> Byte]
      <3> DEFINE S == 0 .. in.rawsize + Slack - 1
                 first == Written(dest, 0, Mark)
      <3>1. 0 \in S /\ 1 \in S /\ dest \in [S -> Byte] /\ Mark \in Byte
        BY <1>t, ConstantsAssumption DEF TypeOK
      <3> HIDE DEF S
      <3>2. first = [dest EXCEPT ![0] = Mark] /\ first \in [S -> Byte]
        BY ONLY <3>1, WrittenInside
      <3>3. dest' = Written(first, 1, Mark)
        OBVIOUS
      <3> HIDE DEF first
      <3>k. first \in [S -> Byte]
        BY <3>2
      <3>4. \A k \in S : /\ Written(first, k, Mark) = [first EXCEPT ![k] = Mark]
                         /\ Written(first, k, Mark) \in [S -> Byte]
        BY ONLY <3>1, <3>k, WrittenInside
      <3>5. dest' = [first EXCEPT ![1] = Mark] /\ dest' \in [S -> Byte]
        BY ONLY <3>1, <3>3, <3>4
      <3>6. QED  BY <3>2, <3>5 DEF S
    <2>1. TypeOK'
      BY <1>t, <2>0, ConstantsAssumption DEF TypeOK, Final
    <2>2. (RunFits /\ CopyUnderControl /\ PositionFits /\ SlackZero)'
      BY DEF RunFits, CopyUnderControl, PositionFits, SlackZero
    <2>z. ZeroTail'
      BY <1>t, <2>0 DEF ZeroTail, OutputEnd, TypeOK
    <2>3. OverreadBounded'
      BY DEF OverreadBounded
    <2>4. QED  BY <2>1, <2>2, <2>3, <2>z
  <1>9. CASE CopyDone
    <2> USE <1>9 DEF CopyDone
    <2>1. ctrl' \in Byte /\ ctrlc' \in 0 .. CtrlBits
      BY NextItemTyped DEF TypeOK, CopyUnderControl
    <2>2. TypeOK'
      BY <1>t, <2>1 DEF TypeOK
    <2>3. (RunFits /\ CopyUnderControl /\ PositionFits)'
      BY <1>t DEF RunFits, CopyUnderControl, PositionFits, TypeOK
    <2>4. (SlackZero /\ ZeroTail /\ OverreadBounded)'
      BY DEF SlackZero, ZeroTail, OutputEnd, OverreadBounded
    <2>5. QED  BY <2>2, <2>3, <2>4
  <1>10. CASE Finish
    <2> USE <1>10 DEF Finish
    <2>1. TypeOK'
      BY DEF Final, TypeOK
    <2>2. (RunFits /\ CopyUnderControl /\ PositionFits /\ OverreadBounded)'
      BY DEF RunFits, CopyUnderControl, PositionFits, OverreadBounded
    <2>3. (SlackZero /\ ZeroTail)'
      BY DEF SlackZero, ZeroTail, OutputEnd
    <2>4. QED  BY <2>1, <2>2, <2>3
  <1>11. CASE Terminated \/ UNCHANGED vars
    <2>1. UNCHANGED vars
      BY <1>11 DEF Terminated
    <2> HIDE DEF Inv
    <2>2. QED  BY <2>1 DEF vars, Inv, TypeOK, RunFits, CopyUnderControl, PositionFits,
                           SlackZero, ZeroTail, OutputEnd, OverreadBounded
  <1>12. QED
    BY <1>1, <1>2, <1>3, <1>4, <1>5, <1>6, <1>7, <1>8, <1>9, <1>10, <1>11
    DEF Next, Step

-----------------------------------------------------------------------------

(* The inductive invariant of the decoder's two loops, from which the      *)
(* theorems below follow.                                                  *)
THEOREM SpecInv == Spec => []Inv
  BY InitInv, StepInv, PTL DEF Spec

(* Every variable keeps its range, and the output buffer its bounds: no    *)
(* input makes the decoder write a byte before or behind it.               *)
THEOREM TypeCorrect == Spec => []TypeOK
  <1>1. Inv => TypeOK
    BY DEF Inv
  <1>2. QED  BY <1>1, SpecInv, PTL

(* The slack after the output is never written, except by the two marks of *)
(* a give-up.                                                              *)
LEMMA InitSlack == Init => SlackUntouched
  <1> SUFFICES ASSUME NEW i \in Inputs, Call(i)
               PROVE  SlackUntouched
    BY DEF Init
  <1>1. QED  BY DEF Call, SlackUntouched

LEMMA StepSlack == Inv /\ SlackUntouched /\ [Next]_vars => SlackUntouched'
  <1> SUFFICES ASSUME Inv, SlackUntouched, [Next]_vars
               PROVE  SlackUntouched'
    OBVIOUS
  <1>1. CASE pc' # "gaveup"
    <2>1. SlackZero'
      BY StepInv DEF Inv
    <2>2. QED  BY <1>1, <2>1 DEF SlackZero, SlackUntouched
  <1>2. CASE GiveUp
    <2>1. in.rawsize \in Nat /\ DOMAIN dest = 0 .. in.rawsize + Slack - 1
      BY DEF Inv, TypeOK, Input
    <2>2. \A k \in DOMAIN dest : k >= in.rawsize => dest[k] = 0
      BY <1>2 DEF GiveUp, Inv, SlackZero
    <2>3. \A k \in DOMAIN dest' : k >= in'.rawsize /\ dest'[k] # 0 => k < 2
      BY <1>2, <2>1, <2>2 DEF GiveUp, Written
    <2>4. QED  BY <1>2, <2>3 DEF GiveUp, SlackUntouched
  <1>3. CASE pc' = "gaveup" /\ ~ GiveUp
    <2>1. UNCHANGED vars
      BY <1>3 DEF Next, Step, ReadControl, ControlDone, Literal, LiteralOverrun,
           BeginCopy, TagOverrun, CopyByte, CopyDone, Finish, MoreItems, Terminated, vars
    <2>2. QED  BY <2>1 DEF vars, SlackUntouched
  <1>4. QED  BY <1>1, <1>2, <1>3

(* Whatever the input, the bytes the caller adds after the output are      *)
(* written by nothing but the marks of a give-up.                          *)
THEOREM SlackIsSafe == Spec => []SlackUntouched
  <1>1. Spec => [](Inv /\ SlackUntouched)
    BY SpecInv, InitInv, InitSlack, StepInv, StepSlack, PTL DEF Spec
  <1>2. QED  BY <1>1, PTL

(* The decoder reads at most two bytes past the length it was given.       *)
THEOREM Overread == Spec => []OverreadBounded
  <1>1. Inv => OverreadBounded
    BY DEF Inv
  <1>2. QED  BY <1>1, SpecInv, PTL

(* An output cut short is zero from where it ends, whatever cut it short:  *)
(* of a run that does not fit no byte is left there, and giving up leaves  *)
(* nothing but its marks.                                                  *)
THEOREM TailIsZero == Spec => []ZeroTail
  <1>1. Inv => ZeroTail
    BY DEF Inv
  <1>2. QED  BY <1>1, SpecInv, PTL

(* No step but the give-up changes a byte already put out.                 *)
LEMMA StepStable ==
  Inv /\ [Next]_vars =>
    [pc' # "gaveup" => \A k \in 0 .. dp - 1 : k \in DOMAIN dest => dest'[k] = dest[k]]_vars
  <1> SUFFICES ASSUME Inv, Next, pc' # "gaveup",
                      NEW k \in 0 .. dp - 1, k \in DOMAIN dest
               PROVE  dest'[k] = dest[k]
    BY DEF vars
  <1>1. dp \in Nat /\ k # dp
    BY DEF Inv, TypeOK
  <1>2. CASE Literal
    BY <1>1, <1>2 DEF Literal, Written, Inv, TypeOK
  <1>3. CASE CopyByte
    BY <1>1, <1>3 DEF CopyByte, Written, Inv, TypeOK
  <1>4. CASE ~ Literal /\ ~ CopyByte
    BY <1>4 DEF Next, Step, ReadControl, ControlDone, LiteralOverrun, BeginCopy,
                TagOverrun, GiveUp, CopyDone, Finish, Terminated, vars
  <1>5. QED  BY <1>2, <1>3, <1>4

(* A byte put out is never changed again, except by the marks of a         *)
(* give-up.                                                                *)
THEOREM OutputIsFinal == Spec => OutputStable
  BY SpecInv, StepStable, PTL DEF Spec, OutputStable

-----------------------------------------------------------------------------
(* The decoder on a stream: what it has read are whole items, and what it  *)
(* has put out is the text they stand for.                                 *)

Facts == INSTANCE PglzFormatProofs

Decoded(text) == dp <= Len(text) /\ \A p \in 0 .. dp - 1 : dest[p] = text[p + 1]

(* The texts of the first k items, and of all of them, put out.            *)
AfterItems(l, k) ==
  dp = Len(Facts!TextOf(l, k)) /\ Decoded(Facts!TextOf(l, k))

BetweenControls(l) ==
  \E k \in 0 .. Len(l) : Facts!Rests(l, k, sp, Bit, CtrlBits) /\ AfterItems(l, k)

UnderControl(l) ==
  \E k \in 0 .. Len(l) :
    Facts!Reads(l, k, ctrlc, sp, ctrl, Bit, CtrlBits) /\ AfterItems(l, k)

(* Within the run l[k + 1], whose tag has been read.                       *)
InRun(l) ==
  \E k \in 0 .. Len(l) - 1 :
    /\ l[k + 1].kind = "run" /\ off = l[k + 1].off
    /\ Facts!Reads(l, k + 1, ctrlc + 1, sp, ctrl \div 2, Bit, CtrlBits)
    /\ Len(Facts!TextOf(l, k)) <= dp /\ dp + len = Len(Facts!TextOf(l, k + 1))
    /\ Decoded(Facts!TextOf(l, k + 1))

Decoding(l) ==
  /\ in.src = Facts!Encode(l) /\ in.srcend >= Len(in.src)
  /\ in.rawsize = Len(Facts!Expand(l))
  /\ sp <= Len(in.src)
  /\ pc \in {"while", "for", "copy", "returned"}
  /\ pc = "while" => BetweenControls(l)
  /\ pc = "for" => UnderControl(l)
  /\ pc = "copy" => InRun(l)
  /\ pc = "returned" => dp = in.rawsize /\ Decoded(Facts!Expand(l))

RTInv == items # << >> => \E l \in ItemLists : items = l /\ Decoding(l)

(* The control bytes of the code have as many bits as flags.               *)
LEMMA BitsFill == Facts!ControlBits(Bit, CtrlBits)
  <1> DEFINE IsBit(f, m) == f = [k \in 0 .. m |-> IF k = 0 THEN 1 ELSE 2 * f[k - 1]]
             S == {m \in 0 .. CtrlBits : \E f : IsBit(f, m)}
  <1>0. CtrlBits \in Nat \ {0} /\ Nibble \in Nat /\ Nibble >= 2
    BY ConstantsAssumption
  <1>1. 0 \in S
    <2>1. IsBit([k \in 0 .. 0 |-> 1], 0)
      OBVIOUS
    <2>2. 0 \in 0 .. CtrlBits
      BY <1>0
    <2> HIDE DEF IsBit
    <2>3. QED  BY <2>1, <2>2
  <1>2. \A m \in 0 .. CtrlBits - 1 : m \in S => m + 1 \in S
    <2> SUFFICES ASSUME NEW m \in 0 .. CtrlBits - 1, NEW f, IsBit(f, m)
                 PROVE  m + 1 \in 0 .. CtrlBits /\ \E g : IsBit(g, m + 1)
      OBVIOUS
    <2>1. IsBit([k \in 0 .. m + 1 |-> IF k = m + 1 THEN 2 * f[m] ELSE f[k]], m + 1)
      OBVIOUS
    <2>2. m + 1 \in 0 .. CtrlBits
      BY <1>0
    <2>3. QED  BY <2>1, <2>2
  <1> HIDE DEF S
  <1>3. CtrlBits \in S
    <2>1. 0 .. CtrlBits \subseteq S
      BY <1>0, <1>1, <1>2, IntervalInduction
    <2>2. QED  BY <1>0, <2>1
  <1>4. IsBit(Bit, CtrlBits)
    <2>1. \E f : IsBit(f, CtrlBits)
      BY <1>3 DEF S
    <2>2. Bit = CHOOSE f : IsBit(f, CtrlBits)
      BY DEF Bit
    <2> HIDE DEF IsBit
    <2>3. QED  BY <2>1, <2>2
  <1>5. Bit[0] = 1 /\ \A k \in 0 .. CtrlBits - 1 : Bit[k + 1] = 2 * Bit[k]
    <2>1. Bit[0] = 1
      BY <1>0, <1>4
    <2>2. ASSUME NEW k \in 0 .. CtrlBits - 1
          PROVE  Bit[k + 1] = 2 * Bit[k]
      <3>1. k + 1 \in 0 .. CtrlBits /\ k + 1 # 0 /\ (k + 1) - 1 = k
        BY <1>0
      <3>2. QED  BY <1>4, <3>1
    <2>3. QED  BY <2>1, <2>2
  <1>6. \A k \in 0 .. CtrlBits : Bit[k] \in Nat \ {0}
    <2> DEFINE P == {k \in 0 .. CtrlBits : Bit[k] \in Nat \ {0}}
    <2>1. 0 \in P
      BY <1>0, <1>5
    <2>2. \A k \in 0 .. CtrlBits - 1 : k \in P => k + 1 \in P
      BY <1>0, <1>5
    <2> HIDE DEF P
    <2>3. 0 .. CtrlBits \subseteq P
      BY <1>0, <2>1, <2>2, IntervalInduction
    <2>4. QED  BY <2>3 DEF P
  <1>7. Bit[CtrlBits] = Facts!ByteCount
    BY ControlAssumption DEF Facts!ByteCount
  <1>8. QED  BY <1>0, <1>5, <1>6, <1>7 DEF Facts!ControlBits

(* The format the compressor writes and the one of the facts about it.     *)
LEMMA FormatIsFacts ==
  ASSUME NEW l
  PROVE  /\ Format!Encode(l) = Facts!Encode(l) /\ Format!Expand(l) = Facts!Expand(l)
         /\ Format!Item = Facts!Item
         /\ Format!WellFormedItems(l) = Facts!WellFormedItems(l)
  <1>1. Format!ByteCount = Facts!ByteCount /\ Format!Item = Facts!Item
    BY DEF Format!ByteCount, Facts!ByteCount, Format!Item, Facts!Item,
           Format!ByteValue, Facts!ByteValue
  <1>2. \A t, i : Format!Extend(t, i) = Facts!Extend(t, i)
    BY DEF Format!Extend, Facts!Extend
  <1>3. \A s : Format!Expand(s) = Facts!Expand(s)
    BY <1>2 DEF Format!Expand, Facts!Expand
  <1>4. Format!WellFormedItems(l) = Facts!WellFormedItems(l)
    BY <1>1, <1>3 DEF Format!WellFormedItems, Facts!WellFormedItems, Format!RunFits, Facts!RunFits
  <1>5. \A o : Format!WriteControl(o) = Facts!WriteControl(o)
    BY DEF Format!WriteControl, Facts!WriteControl
  <1>6. \A o : Format!OutCtrl(o) = Facts!OutCtrl(o)
    BY <1>5 DEF Format!OutCtrl, Facts!OutCtrl
  <1>7. /\ \A b : Format!Shift(b) = Facts!Shift(b)
        /\ \A n, f : Format!TagBytes(n, f) = Facts!TagBytes(n, f)
    BY <1>1 DEF Format!Shift, Facts!Shift, Format!TagBytes, Facts!TagBytes
  <1>8. \A o, i : Format!Emit(o, i) = Facts!Emit(o, i)
    BY <1>6, <1>7 DEF Format!Emit, Facts!Emit, Format!OutLiteral, Facts!OutLiteral,
                      Format!OutTag, Facts!OutTag
  <1>9. Format!Encode(l) = Facts!Encode(l)
    BY <1>5, <1>8 DEF Format!Encode, Facts!Encode, Format!Emitted, Facts!Emitted,
                      Format!NoOutput, Facts!NoOutput
  <1>10. QED  BY <1>1, <1>3, <1>4, <1>9

LEMMA ListsTyped ==
  ASSUME NEW l \in ItemLists
  PROVE  /\ l \in Seq(Facts!Item) /\ Facts!WellFormedItems(l) /\ Len(l) \in Nat
         /\ Nibble \in Nat /\ Nibble >= 2 /\ Facts!ByteValue = Byte
  <1>1. l \in Seq(Facts!Item) /\ Facts!WellFormedItems(l)
    BY ListsAssumption, FormatIsFacts
  <1>2. Facts!ByteValue = Byte
    BY DEF Facts!ByteValue, Facts!ByteCount, Byte
  <1>3. QED  BY <1>1, <1>2, LenProperties, ConstantsAssumption

-----------------------------------------------------------------------------

(* The lowest flag is that of the next item.                               *)
LEMMA NextFlag ==
  ASSUME NEW l \in ItemLists, NEW k \in 0 .. Len(l) - 1, NEW i \in 0 .. CtrlBits - 1,
         NEW s, NEW q \in Nat, Facts!Reads(l, k, i, s, q, Bit, CtrlBits)
  PROVE  /\ Facts!ItemBytes(l[k + 1]) \in Seq(Byte)
         /\ l[k + 1].kind = "run" => Facts!Taggable(l[k + 1])
         /\ s \in Nat /\ Facts!Holds(Facts!Encode(l), s, Facts!ItemBytes(l[k + 1]))
         /\ q % 2 = Facts!IsRun(l[k + 1])
         /\ Facts!Reads(l, k + 1, i + 1, s + Len(Facts!ItemBytes(l[k + 1])), q \div 2,
                        Bit, CtrlBits)
  <1>1. i # CtrlBits
    BY ConstantsAssumption
  <1>2. /\ Facts!ItemBytes(l[k + 1]) \in Seq(Facts!ByteValue)
        /\ l[k + 1].kind = "run" => Facts!Taggable(l[k + 1])
        /\ s \in Nat /\ Facts!Holds(Facts!Encode(l), s, Facts!ItemBytes(l[k + 1]))
        /\ \E r \in Nat :
             /\ q = Facts!IsRun(l[k + 1]) + 2 * r
             /\ Facts!Reads(l, k + 1, i + 1, s + Len(Facts!ItemBytes(l[k + 1])), r, Bit, CtrlBits)
    BY <1>1, ListsTyped, BitsFill, Facts!ItemIsRead
  <1>3. PICK r \in Nat :
          /\ q = Facts!IsRun(l[k + 1]) + 2 * r
          /\ Facts!Reads(l, k + 1, i + 1, s + Len(Facts!ItemBytes(l[k + 1])), r, Bit, CtrlBits)
    BY <1>2
  <1>4. q % 2 = Facts!IsRun(l[k + 1]) /\ q \div 2 = r
    <2>1. \A f \in 0 .. 1, m \in Nat : (f + 2 * m) % 2 = f /\ (f + 2 * m) \div 2 = m
      OBVIOUS
    <2>2. Facts!IsRun(l[k + 1]) \in 0 .. 1
      BY DEF Facts!IsRun
    <2>3. QED  BY <1>3, <2>1, <2>2
  <1>5. QED  BY <1>2, <1>3, <1>4, ListsTyped

LEMMA LiteralRead ==
  ASSUME NEW l \in ItemLists, NEW k \in 0 .. Len(l) - 1, NEW i \in 0 .. CtrlBits - 1,
         NEW s, NEW q \in Nat, Facts!Reads(l, k, i, s, q, Bit, CtrlBits), q % 2 = 0
  PROVE  /\ l[k + 1].kind = "literal" /\ l[k + 1].byte \in Byte
         /\ s < Len(Facts!Encode(l)) /\ Facts!Encode(l)[s + 1] = l[k + 1].byte
         /\ Facts!Reads(l, k + 1, i + 1, s + 1, q \div 2, Bit, CtrlBits)
  <1>1. l[k + 1] \in Facts!Item
    BY ListsTyped, ElementOfSeq
  <1>2. q % 2 = Facts!IsRun(l[k + 1])
    BY NextFlag
  <1>3. l[k + 1].kind = "literal" /\ l[k + 1].byte \in Byte
    BY <1>1, <1>2, ListsTyped DEF Facts!IsRun, Facts!Item
  <1>4. Facts!ItemBytes(l[k + 1]) = <<l[k + 1].byte>>
    BY <1>3 DEF Facts!ItemBytes
  <1>5. /\ Facts!Reads(l, k + 1, i + 1, s + Len(Facts!ItemBytes(l[k + 1])), q \div 2,
                       Bit, CtrlBits)
        /\ s \in Nat /\ Facts!Holds(Facts!Encode(l), s, Facts!ItemBytes(l[k + 1]))
    BY NextFlag
  <1>6. Len(<<l[k + 1].byte>>) = 1 /\ <<l[k + 1].byte>>[1] = l[k + 1].byte
    OBVIOUS
  <1>7. s < Len(Facts!Encode(l)) /\ Facts!Encode(l)[s + 1] = l[k + 1].byte
    <2>1. Facts!Encode(l) \in Seq(Facts!ByteValue)
      BY ListsTyped, BitsFill, Facts!OutputsUnder, Facts!StreamEnds
    <2>2. Len(Facts!Encode(l)) \in Nat
      BY <2>1, LenProperties
    <2>3. QED  BY <1>4, <1>5, <1>6, <2>2 DEF Facts!Holds
  <1>8. QED  BY <1>3, <1>4, <1>5, <1>6, <1>7

LEMMA TagRead ==
  ASSUME NEW l \in ItemLists, NEW k \in 0 .. Len(l) - 1, NEW i \in 0 .. CtrlBits - 1,
         NEW s, NEW q \in Nat, Facts!Reads(l, k, i, s, q, Bit, CtrlBits), q % 2 = 1,
         in \in Input, in.src = Facts!Encode(l), NEW t \in TagsAt(s)
  PROVE  /\ l[k + 1].kind = "run" /\ t.len = l[k + 1].len /\ t.off = l[k + 1].off
         /\ t.len \in Nat /\ t.off \in Nat
         /\ Facts!Reads(l, k + 1, i + 1, s + t.size, q \div 2, Bit, CtrlBits)
  <1> DEFINE item == l[k + 1]
             b == Facts!ItemBytes(item)
             e == Facts!Encode(l)
  <1>1. item \in Facts!Item
    BY ListsTyped, ElementOfSeq
  <1>2. item.kind = "run"
    <2>1. Facts!IsRun(l[k + 1]) = q % 2
      BY NextFlag
    <2>2. QED  BY <1>1, <2>1 DEF Facts!IsRun, Facts!Item
  <1>3. /\ Facts!Reads(l, k + 1, i + 1, s + Len(b), q \div 2, Bit, CtrlBits)
        /\ s \in Nat /\ Facts!Holds(e, s, b) /\ Facts!Taggable(item)
    BY <1>2, NextFlag
  <1> HIDE DEF item
  <1>4. LET short == b[1] % Nibble
        IN  /\ b \in Seq(Facts!ByteValue)
            /\ (b[1] \div Nibble) * Facts!ByteCount + b[2] = item.off
            /\ short = Nibble - 1 => Len(b) = 3 /\ short + 3 + b[3] = item.len
            /\ short # Nibble - 1 => Len(b) = 2 /\ short + 3 = item.len
    BY <1>1, <1>2, <1>3, ListsTyped, Facts!TagReads
  <1> HIDE DEF b
  <1>5. Len(b) \in 2 .. 3
    BY <1>4
  <1>6. /\ \A p \in 1 .. Len(b) : s + p <= Len(e) /\ e[s + p] = b[p]
        /\ Len(e) \in Nat
    <2>1. Len(e) \in Nat
      BY LenProperties DEF Input
    <2>2. QED  BY <1>3, <1>5, <2>1 DEF Facts!Holds
  <1> HIDE DEF e
  <1>7. /\ ByteAt(s) = {b[1]} /\ ByteAt(s + 1) = {b[2]}
        /\ Len(b) = 3 => ByteAt(s + 2) = {b[3]}
    <2>1. ASSUME NEW p \in 1 .. Len(b)
          PROVE  ByteAt(s + p - 1) = {b[p]}
      <3>1. s + p <= Len(e) /\ e[s + p] = b[p]
        BY <1>6
      <3>2. s + p - 1 < Len(e) /\ (s + p - 1) + 1 = s + p
        BY <1>3, <1>5, <1>6, <3>1
      <3>3. in.src = e
        BY DEF e
      <3>4. QED  BY <3>1, <3>2, <3>3 DEF ByteAt
    <2>2. 1 \in 1 .. Len(b) /\ 2 \in 1 .. Len(b) /\ (Len(b) = 3 => 3 \in 1 .. Len(b))
      <3>1. CASE Len(b) = 2
        BY ONLY <3>1
      <3>2. CASE Len(b) = 3
        BY ONLY <3>2
      <3>3. QED  BY ONLY <1>5, <3>1, <3>2
    <2>3. s + 1 - 1 = s /\ s + 2 - 1 = s + 1 /\ s + 3 - 1 = s + 2
      <3>1. s \in Nat
        BY <1>3
      <3>2. QED  BY ONLY <3>1
    <2>4. QED  BY <2>1, <2>2, <2>3
  <1>8. PICK b2 \in ByteAt(s + 2) : t = Tag(b[1], b[2], b2)
    BY <1>7 DEF TagsAt
  <1>9. Facts!ByteCount = Nibble * Nibble
    BY DEF Facts!ByteCount
  <1>10. t.off = item.off
    BY <1>4, <1>8, <1>9 DEF Tag
  <1>11. t.len = item.len /\ t.size = Len(b)
    <2>1. CASE b[1] % Nibble = Nibble - 1
      <3>1. t.len = (b[1] % Nibble) + 3 + b[3] /\ t.size = 3
        BY <1>4, <1>7, <1>8, <2>1 DEF Tag
      <3>2. QED  BY <1>4, <2>1, <3>1
    <2>2. CASE b[1] % Nibble # Nibble - 1
      <3>1. t.len = (b[1] % Nibble) + 3 + 0 /\ t.size = 2
        BY <1>8, <2>2 DEF Tag
      <3>2. b[1] % Nibble \in Nat
        <4>1. b[1] \in Byte
          BY <1>4, <1>5, ListsTyped, ElementOfSeq
        <4>2. QED  BY <4>1, ByteParts, ConstantsAssumption
      <3>3. QED  BY <1>4, <2>2, <3>1, <3>2
    <2>3. QED  BY <2>1, <2>2
  <1>12. item.len \in Nat /\ item.off \in Nat
    BY <1>1, <1>2 DEF Facts!Item
  <1>13. QED  BY <1>2, <1>3, <1>10, <1>11, <1>12 DEF item, b

LEMMA Texts ==
  ASSUME NEW l \in ItemLists, NEW k \in 0 .. Len(l)
  PROVE  /\ Len(Facts!TextOf(l, k)) \in Nat /\ Len(Facts!Expand(l)) \in Nat
         /\ Len(Facts!TextOf(l, k)) <= Len(Facts!Expand(l))
         /\ k = Len(l) => Facts!TextOf(l, k) = Facts!Expand(l)
         /\ k < Len(l) => /\ Len(Facts!TextOf(l, k)) < Len(Facts!Expand(l))
                          /\ k \in 0 .. Len(l) - 1 /\ k + 1 \in 0 .. Len(l)
                          /\ Facts!Follows(Facts!TextOf(l, k + 1), Facts!TextOf(l, k))
  <1>1. Facts!TextOf(l, k) \in Seq(Facts!ByteValue) /\ Len(l) \in 0 .. Len(l)
    BY ListsTyped, Facts!TextsTyped
  <1>2. Facts!TextOf(l, Len(l)) \in Seq(Facts!ByteValue)
    BY <1>1, ListsTyped, Facts!TextsTyped
  <1>3. Facts!TextOf(l, Len(l)) = Facts!Expand(l)
    BY ListsTyped, Facts!PrefixEnds
  <1>4. Len(Facts!TextOf(l, k)) \in Nat /\ Len(Facts!Expand(l)) \in Nat
    BY <1>1, <1>2, <1>3, LenProperties
  <1>5. /\ Len(Facts!TextOf(l, k)) <= Len(Facts!Expand(l))
        /\ k < Len(l) => Len(Facts!TextOf(l, k)) < Len(Facts!Expand(l))
    BY ListsTyped, Facts!TextsGrow
  <1>6. k < Len(l) => Facts!Follows(Facts!TextOf(l, k + 1), Facts!TextOf(l, k))
    BY ListsTyped, Facts!TextsTyped
  <1>7. QED  BY <1>3, <1>4, <1>5, <1>6, ListsTyped

(* What one item adds to the text.                                         *)
LEMMA NextText ==
  ASSUME NEW l \in ItemLists, NEW k \in 0 .. Len(l) - 1
  PROVE  /\ l[k + 1].kind = "literal" =>
              /\ Len(Facts!TextOf(l, k + 1)) = Len(Facts!TextOf(l, k)) + 1
              /\ Facts!TextOf(l, k + 1)[Len(Facts!TextOf(l, k)) + 1] = l[k + 1].byte
         /\ l[k + 1].kind = "run" =>
              Len(Facts!TextOf(l, k + 1)) = Len(Facts!TextOf(l, k)) + l[k + 1].len
  <1> DEFINE text == Facts!TextOf(l, k)
             item == l[k + 1]
  <1>1. text \in Seq(Facts!ByteValue) /\ item \in Facts!Item
    <2>1. k \in 0 .. Len(l)
      BY ListsTyped
    <2>2. QED  BY <2>1, ListsTyped, Facts!TextsTyped, ElementOfSeq
  <1>2. Facts!TextOf(l, k + 1) = Facts!Extend(text, item)
    BY ListsTyped, Facts!PrefixGrows
  <1>3. item.kind = "run" => Facts!RunFits(text, item)
    BY ListsTyped, Facts!PrefixFits
  <1> HIDE DEF text, item
  <1>4. ASSUME item.kind = "literal"
        PROVE  /\ Len(Facts!Extend(text, item)) = Len(text) + 1
               /\ Facts!Extend(text, item)[Len(text) + 1] = item.byte
    <2>1. item.byte \in Facts!ByteValue
      BY <1>1, <1>4 DEF Facts!Item
    <2>2. QED  BY <1>1, <1>4, <2>1, Facts!LiteralExtends
  <1>5. ASSUME item.kind = "run"
        PROVE  Len(Facts!Extend(text, item)) = Len(text) + item.len
    BY <1>1, <1>3, <1>5, ConstantsAssumption, Facts!RunExtends
  <1>6. QED  BY <1>2, <1>4, <1>5 DEF text, item

(* A call on a stream begins before its first item.                        *)
LEMMA StreamCallDecodes ==
  ASSUME NEW l \in ItemLists, NEW e \in Excess, Call(StreamCall(l, e))
  PROVE  StreamCall(l, e) \in Input /\ Decoding(l)
  <1>1. StreamCall(l, e) = [src |-> Facts!Encode(l), srcend |-> Len(Facts!Encode(l)) + e,
                            rawsize |-> Len(Facts!Expand(l))]
    BY FormatIsFacts DEF StreamCall
  <1>2. /\ Facts!Encode(l) \in Seq(Byte) /\ Len(Facts!Encode(l)) \in Nat
        /\ Len(Facts!Expand(l)) \in Nat /\ e \in Nat
    <2>1. Len(l) \in 0 .. Len(l)
      BY ListsTyped
    <2>2. PICK j : Facts!Under(Facts!OutputOf(l, Len(l)), j, Bit, CtrlBits)
      BY <2>1, ListsTyped, BitsFill, Facts!OutputsUnder
    <2>3. Facts!Encode(l) \in Seq(Facts!ByteValue)
      BY <2>2, ListsTyped, BitsFill, Facts!StreamEnds
    <2>4. Len(Facts!Expand(l)) \in Nat
      BY <2>1, Texts
    <2>5. QED  BY <2>3, <2>4, ListsTyped, LenProperties, ListsAssumption
  <1>3. StreamCall(l, e) \in Input
    BY <1>1, <1>2 DEF Input
  <1>4. /\ in.src = Facts!Encode(l) /\ in.srcend >= Len(in.src)
        /\ in.rawsize = Len(Facts!Expand(l)) /\ sp <= Len(in.src)
    BY <1>1, <1>2 DEF Call
  <1>5. BetweenControls(l)
    <2>1. 0 \in 0 .. Len(l) /\ Facts!Rests(l, 0, 0, Bit, CtrlBits)
      BY ListsTyped, BitsFill, Facts!StartsRested
    <2>2. Len(Facts!TextOf(l, 0)) = 0
      <3>1. Facts!TextOf(l, 0) = << >>
        BY ListsTyped, Facts!PrefixEnds
      <3>2. QED  BY <3>1
    <2>3. sp = 0 /\ dp = 0
      BY DEF Call
    <2>4. AfterItems(l, 0)
      BY <2>2, <2>3 DEF AfterItems, Decoded
    <2>5. QED  BY <2>1, <2>3, <2>4 DEF BetweenControls
  <1>6. QED  BY <1>3, <1>4, <1>5 DEF Decoding, Call

LEMMA ControlDecodes ==
  ASSUME NEW l \in ItemLists, Inv, Decoding(l), ReadControl
  PROVE  Decoding(l)'
  <1> USE DEF ReadControl
  <1>1. PICK k \in 0 .. Len(l) : Facts!Rests(l, k, sp, Bit, CtrlBits) /\ AfterItems(l, k)
    BY DEF Decoding, BetweenControls
  <1>2. k \in 0 .. Len(l) - 1
    <2>1. dp < Len(Facts!Expand(l)) /\ dp = Len(Facts!TextOf(l, k))
      BY <1>1 DEF Decoding, AfterItems
    <2>2. k # Len(l)
      BY <2>1, Texts
    <2>3. QED  BY <2>2, ListsTyped
  <1>3. /\ sp < Len(Facts!Encode(l))
        /\ Facts!Reads(l, k, 0, sp + 1, Facts!Encode(l)[sp + 1], Bit, CtrlBits)
    BY <1>1, <1>2, ListsTyped, BitsFill, Facts!ControlIsRead
  <1>4. ctrl' = Facts!Encode(l)[sp + 1] /\ sp + 1 <= Len(Facts!Encode(l))
    <2>1. in.src = Facts!Encode(l) /\ Len(in.src) \in Nat /\ sp \in Nat
      BY LenProperties DEF Decoding, Inv, TypeOK, Input
    <2>2. QED  BY <1>3, <2>1 DEF ByteAt
  <1>5. Facts!Reads(l, k, ctrlc', sp', ctrl', Bit, CtrlBits)
    BY <1>3, <1>4
  <1>6. AfterItems(l, k)'
    BY <1>1 DEF AfterItems, Decoded
  <1>7. UnderControl(l)'
    BY <1>5, <1>6 DEF UnderControl
  <1>8. QED  BY <1>4, <1>7 DEF Decoding

LEMMA ControlDoneDecodes ==
  ASSUME NEW l \in ItemLists, Inv, Decoding(l), ControlDone
  PROVE  Decoding(l)'
  <1> USE DEF ControlDone
  <1>1. PICK k \in 0 .. Len(l) :
          Facts!Reads(l, k, ctrlc, sp, ctrl, Bit, CtrlBits) /\ AfterItems(l, k)
    BY DEF Decoding, UnderControl
  <1>2. ctrl \in Nat /\ ctrlc \in 0 .. CtrlBits /\ CtrlBits \in Nat
    BY ByteParts, ConstantsAssumption DEF Inv, TypeOK
  <1>3. Facts!Rests(l, k, sp, Bit, CtrlBits)
    <2>1. CASE ctrlc = CtrlBits
      BY <1>1, <2>1, ListsTyped, BitsFill, Facts!FlagsAreUsed
    <2>2. CASE k = Len(l)
      BY <1>1, <1>2, <2>2, ListsTyped, BitsFill, Facts!NothingIsLeft
    <2>3. CASE ctrlc # CtrlBits /\ k # Len(l)
      <3>1. ctrlc \in 0 .. CtrlBits - 1 /\ ctrlc < CtrlBits /\ k \in 0 .. Len(l) - 1
        BY <1>2, <2>3, ListsTyped
      <3>2. sp >= in.srcend /\ in.srcend >= Len(Facts!Encode(l)) /\ sp \in Nat /\ in.srcend \in Nat
        BY <3>1 DEF MoreItems, Decoding, Inv, TypeOK, Input
      <3>3. Facts!Holds(Facts!Encode(l), sp, Facts!ItemBytes(l[k + 1]))
        BY <1>1, <1>2, <3>1, NextFlag
      <3>4. Len(Facts!ItemBytes(l[k + 1])) \in 1 .. 3
        <4>1. l[k + 1] \in Facts!Item
          BY <3>1, ListsTyped, ElementOfSeq
        <4>2. l[k + 1].kind = "run" => Facts!Taggable(l[k + 1])
          BY <1>1, <1>2, <3>1, NextFlag
        <4>3. QED  BY <4>1, <4>2, ListsTyped, Facts!BytesTyped
      <3>5. Len(Facts!Encode(l)) \in Nat
        BY LenProperties DEF Decoding, Inv, TypeOK, Input
      <3>6. sp + Len(Facts!ItemBytes(l[k + 1])) <= Len(Facts!Encode(l))
        BY <3>3 DEF Facts!Holds
      <3>7. \A x, y, z \in Nat, m \in 1 .. 3 : ~ (x >= y /\ y >= z /\ x + m <= z)
        OBVIOUS
      <3>8. QED  BY <3>2, <3>4, <3>5, <3>6, <3>7
    <2>4. QED  BY <2>1, <2>2, <2>3
  <1>4. Facts!Rests(l, k, sp', Bit, CtrlBits) /\ AfterItems(l, k)'
    BY <1>1, <1>3 DEF AfterItems, Decoded
  <1>5. BetweenControls(l)'
    BY <1>4 DEF BetweenControls
  <1>6. QED  BY <1>5 DEF Decoding

(* A byte put out at the write position leaves the text decoded so far.    *)
LEMMA LiteralDecodes ==
  ASSUME NEW l \in ItemLists, Inv, Decoding(l), Literal
  PROVE  Decoding(l)'
  <1> USE DEF Literal, MoreItems, NextItem
  <1>1. PICK k \in 0 .. Len(l) :
          Facts!Reads(l, k, ctrlc, sp, ctrl, Bit, CtrlBits) /\ AfterItems(l, k)
    BY DEF Decoding, UnderControl
  <1> DEFINE text == Facts!TextOf(l, k)
             longer == Facts!TextOf(l, k + 1)
  <1>2. /\ ctrl \in Nat /\ ctrlc \in 0 .. CtrlBits - 1 /\ sp \in Nat /\ dp \in Nat
        /\ dest \in [0 .. in.rawsize + Slack - 1 -> Byte] /\ in.rawsize \in Nat /\ Slack \in Nat
    BY ByteParts, ConstantsAssumption DEF Inv, TypeOK, Input
  <1>3. k \in 0 .. Len(l) - 1 /\ k + 1 \in 0 .. Len(l)
    <2>1. dp < Len(Facts!Expand(l)) /\ dp = Len(Facts!TextOf(l, k))
      BY <1>1 DEF Decoding, AfterItems
    <2>2. k # Len(l)
      BY <2>1, Texts
    <2>3. QED  BY <2>2, ListsTyped
  <1>4. /\ l[k + 1].kind = "literal" /\ l[k + 1].byte \in Byte
        /\ sp < Len(Facts!Encode(l)) /\ Facts!Encode(l)[sp + 1] = l[k + 1].byte
        /\ Facts!Reads(l, k + 1, ctrlc + 1, sp + 1, ctrl \div 2, Bit, CtrlBits)
    BY <1>1, <1>2, <1>3, LiteralRead
  <1>5. dest' = [dest EXCEPT ![dp] = l[k + 1].byte]
    <2> DEFINE S == 0 .. in.rawsize + Slack - 1
    <2>1. dp \in S /\ dest \in [S -> Byte]
      BY <1>2
    <2>2. dest' = Written(dest, dp, l[k + 1].byte)
      BY <1>4 DEF ByteAt, Decoding
    <2> HIDE DEF S
    <2>3. l[k + 1].byte \in Byte
      BY <1>4
    <2>4. \A b \in Byte : Written(dest, dp, b) = [dest EXCEPT ![dp] = b]
      BY ONLY <2>1, WrittenInside
    <2>5. QED  BY ONLY <2>2, <2>3, <2>4
  <1>6. /\ Len(longer) = Len(text) + 1 /\ longer[Len(text) + 1] = l[k + 1].byte
        /\ \A p \in 1 .. Len(text) : longer[p] = text[p]
        /\ dp = Len(text)
    <2>1. Len(longer) = Len(text) + 1 /\ longer[Len(text) + 1] = l[k + 1].byte
      BY <1>3, <1>4, NextText
    <2>2. Facts!Follows(longer, text)
      <3>1. k < Len(l)
        BY <1>3, ListsTyped
      <3>2. QED  BY <3>1, Texts
    <2>3. QED  BY <1>1, <2>1, <2>2 DEF AfterItems, Facts!Follows
  <1>7. AfterItems(l, k + 1)'
    <2>a. dp = Len(text) /\ \A p \in 0 .. dp - 1 : dest[p] = text[p + 1]
      BY <1>1 DEF AfterItems, Decoded
    <2> HIDE DEF text, longer
    <2>1. \A p \in 0 .. dp - 1 : dest[p] = text[p + 1] /\ p + 1 \in 1 .. Len(text)
      BY <1>2, <2>a
    <2>2. ASSUME NEW p \in 0 .. dp - 1
          PROVE  dest'[p] = longer[p + 1]
      <3>1. p \in DOMAIN dest /\ p # dp
        BY <1>2
      <3>2. dest'[p] = dest[p]
        BY <1>5, <3>1
      <3>3. dest[p] = text[p + 1] /\ longer[p + 1] = text[p + 1]
        BY <1>6, <2>1
      <3>4. QED  BY <3>2, <3>3
    <2>3. dest'[dp] = longer[dp + 1]
      <3>1. dp \in DOMAIN dest
        BY <1>2
      <3>2. dest'[dp] = l[k + 1].byte
        BY <1>5, <3>1
      <3>3. QED  BY <1>6, <3>2
    <2>4. dp' = Len(longer) /\ \A p \in 0 .. dp' - 1 : dest'[p] = longer[p + 1]
      <3>1. dp' = Len(longer) /\ dp' = dp + 1
        BY <1>6
      <3>2. \A p \in 0 .. dp' - 1 : p \in 0 .. dp - 1 \/ p = dp
        BY ONLY <1>2, <3>1
      <3>3. QED  BY <2>2, <2>3, <3>1, <3>2
    <2>5. QED  BY <1>2, <2>4 DEF AfterItems, Decoded, longer
  <1>8. Facts!Reads(l, k + 1, ctrlc', sp', ctrl', Bit, CtrlBits)
    BY <1>4
  <1>9. UnderControl(l)'
    BY <1>3, <1>7, <1>8 DEF UnderControl
  <1>10. sp' <= Len(Facts!Encode(l))
    BY <1>2, <1>4, LenProperties DEF Decoding, Inv, TypeOK, Input
  <1>11. QED  BY <1>9, <1>10 DEF Decoding

LEMMA LiteralOverrunDecodes ==
  ASSUME NEW l \in ItemLists, Inv, Decoding(l), LiteralOverrun
  PROVE  Decoding(l)'
  <1> USE DEF LiteralOverrun, MoreItems
  <1>1. PICK k \in 0 .. Len(l) :
          Facts!Reads(l, k, ctrlc, sp, ctrl, Bit, CtrlBits) /\ AfterItems(l, k)
    BY DEF Decoding, UnderControl
  <1>2. k = Len(l)
    <2>1. dp >= Len(Facts!Expand(l)) /\ dp = Len(Facts!TextOf(l, k))
      BY <1>1 DEF Decoding, AfterItems
    <2>2. ~ k < Len(l)
      BY <2>1, Texts
    <2>3. QED  BY <2>2, ListsTyped
  <1>3. ctrl \in Nat
    BY ByteParts DEF Inv, TypeOK
  <1>4. Facts!Rests(l, k, sp, Bit, CtrlBits)
    BY <1>1, <1>2, <1>3, ListsTyped, BitsFill, Facts!NothingIsLeft
  <1>5. Facts!Rests(l, k, sp', Bit, CtrlBits) /\ AfterItems(l, k)'
    BY <1>1, <1>4 DEF AfterItems, Decoded
  <1>6. BetweenControls(l)'
    BY <1>5 DEF BetweenControls
  <1>7. QED  BY <1>6 DEF Decoding

(* With a flag set there is an item left, and its tag announces the run.   *)
LEMMA TagIsRun ==
  ASSUME NEW l \in ItemLists, Inv, Decoding(l), MoreItems, ctrl % 2 = 1, NEW t \in TagsAt(sp)
  PROVE  \E k \in 0 .. Len(l) - 1 :
           /\ AfterItems(l, k)
           /\ l[k + 1].kind = "run" /\ t.len = l[k + 1].len /\ t.off = l[k + 1].off
           /\ t.len \in Nat /\ t.off \in Nat
           /\ Facts!Reads(l, k + 1, ctrlc + 1, sp + t.size, ctrl \div 2, Bit, CtrlBits)
           /\ sp + t.size <= Len(in.src)
           /\ dp + t.len = Len(Facts!TextOf(l, k + 1)) /\ dp + t.len <= in.rawsize
  <1>1. PICK k \in 0 .. Len(l) :
          Facts!Reads(l, k, ctrlc, sp, ctrl, Bit, CtrlBits) /\ AfterItems(l, k)
    BY DEF Decoding, UnderControl, MoreItems
  <1>2. /\ ctrl \in Nat /\ ctrlc \in 0 .. CtrlBits - 1 /\ in \in Input
        /\ in.src = Facts!Encode(l) /\ in.rawsize = Len(Facts!Expand(l))
    BY ByteParts, ConstantsAssumption DEF Inv, TypeOK, MoreItems, Decoding
  <1>3. k \in 0 .. Len(l) - 1 /\ k + 1 \in 0 .. Len(l)
    <2>1. k = Len(l) => ctrl = 0
      BY <1>1, <1>2, ListsTyped, BitsFill, Facts!NothingIsLeft
    <2>2. ctrl # 0
      OBVIOUS
    <2>3. QED  BY <2>1, <2>2, ListsTyped
  <1>4. /\ l[k + 1].kind = "run" /\ t.len = l[k + 1].len /\ t.off = l[k + 1].off
        /\ t.len \in Nat /\ t.off \in Nat
        /\ Facts!Reads(l, k + 1, ctrlc + 1, sp + t.size, ctrl \div 2, Bit, CtrlBits)
    BY <1>1, <1>2, <1>3, TagRead
  <1>5. sp + t.size <= Len(in.src)
    BY <1>2, <1>3, <1>4, ListsTyped, BitsFill, Facts!ReaderInside
  <1>6. dp + t.len = Len(Facts!TextOf(l, k + 1))
    <2>1. Len(Facts!TextOf(l, k + 1)) = Len(Facts!TextOf(l, k)) + l[k + 1].len
      BY <1>3, <1>4, NextText
    <2>2. QED  BY <1>1, <1>4, <2>1 DEF AfterItems
  <1>7. dp + t.len <= in.rawsize
    BY <1>2, <1>3, <1>6, Texts
  <1>8. QED  BY <1>1, <1>3, <1>4, <1>5, <1>6, <1>7

LEMMA CopyBegins ==
  ASSUME NEW l \in ItemLists, Inv, Decoding(l), BeginCopy
  PROVE  Decoding(l)'
  <1> USE DEF BeginCopy
  <1>1. PICK t \in TagsAt(sp) : sp' = sp + t.size /\ len' = t.len /\ off' = t.off
    OBVIOUS
  <1>2. PICK k \in 0 .. Len(l) - 1 :
          /\ AfterItems(l, k)
          /\ l[k + 1].kind = "run" /\ t.len = l[k + 1].len /\ t.off = l[k + 1].off
          /\ t.len \in Nat /\ t.off \in Nat
          /\ Facts!Reads(l, k + 1, ctrlc + 1, sp + t.size, ctrl \div 2, Bit, CtrlBits)
          /\ sp + t.size <= Len(in.src)
          /\ dp + t.len = Len(Facts!TextOf(l, k + 1)) /\ dp + t.len <= in.rawsize
    BY TagIsRun
  <1>3. Facts!Follows(Facts!TextOf(l, k + 1), Facts!TextOf(l, k))
    <2>1. k \in 0 .. Len(l) /\ k < Len(l)
      BY ListsTyped
    <2>2. QED  BY <2>1, Texts
  <1>4. Decoded(Facts!TextOf(l, k + 1))
    <2> DEFINE text == Facts!TextOf(l, k)
               longer == Facts!TextOf(l, k + 1)
    <2>1. dp = Len(text) /\ \A p \in 0 .. dp - 1 : dest[p] = text[p + 1]
      BY <1>2 DEF AfterItems, Decoded
    <2>2. dp \in Nat /\ dp <= Len(longer)
      BY <1>2 DEF Inv, TypeOK
    <2>3. \A p \in 1 .. Len(text) : longer[p] = text[p]
      BY <1>3 DEF Facts!Follows
    <2> HIDE DEF text, longer
    <2>4. \A p \in 0 .. dp - 1 : p + 1 \in 1 .. Len(text)
      BY <2>1, <2>2
    <2>5. \A p \in 0 .. dp - 1 : dest[p] = longer[p + 1]
      BY <2>1, <2>3, <2>4
    <2>6. QED  BY <2>2, <2>5 DEF Decoded, longer
  <1>5. /\ off' = l[k + 1].off
        /\ Facts!Reads(l, k + 1, ctrlc' + 1, sp', ctrl' \div 2, Bit, CtrlBits)
        /\ Len(Facts!TextOf(l, k)) <= dp' /\ dp' + len' = Len(Facts!TextOf(l, k + 1))
    <2>1. Len(Facts!TextOf(l, k)) <= dp
      BY <1>2 DEF AfterItems, Inv, TypeOK
    <2>2. QED  BY <1>1, <1>2, <2>1
  <1>6. Decoded(Facts!TextOf(l, k + 1))'
    BY <1>4 DEF Decoded
  <1>7. InRun(l)'
    BY <1>2, <1>5, <1>6 DEF InRun
  <1>8. QED  BY <1>1, <1>2, <1>7 DEF Decoding

(* A tag that does not fit, or reaches before the output, is not read.     *)
LEMMA NoOverrun ==
  ASSUME NEW l \in ItemLists, Inv, Decoding(l)
  PROVE  ~ TagOverrun
  <1> SUFFICES ASSUME TagOverrun
               PROVE  FALSE
    OBVIOUS
  <1>1. PICK t \in TagsAt(sp) : dp + t.len > in.rawsize
    BY DEF TagOverrun
  <1>2. MoreItems /\ ctrl % 2 = 1
    BY DEF TagOverrun
  <1>3. t.len \in Nat /\ dp + t.len <= in.rawsize
    BY <1>2, TagIsRun
  <1>4. dp \in Nat /\ in.rawsize \in Nat
    BY DEF Inv, TypeOK, Input
  <1>5. QED  BY <1>1, <1>3, <1>4

LEMMA RunSource ==
  ASSUME NEW l \in ItemLists, Inv, NEW k \in 0 .. Len(l) - 1,
         l[k + 1].kind = "run", off = l[k + 1].off, len > 0,
         Len(Facts!TextOf(l, k)) <= dp, dp + len = Len(Facts!TextOf(l, k + 1))
  PROVE  /\ off \in 1 .. dp /\ dp < Len(Facts!TextOf(l, k + 1))
         /\ Facts!TextOf(l, k + 1)[dp + 1] = Facts!TextOf(l, k + 1)[(dp - off) + 1]
  <1>1. /\ k \in 0 .. Len(l) /\ k + 1 \in 0 .. Len(l)
        /\ Len(Facts!TextOf(l, k)) \in Nat /\ Len(Facts!TextOf(l, k + 1)) \in Nat
    BY ListsTyped, Texts
  <1>2. dp \in Nat /\ len \in Nat
    BY ConstantsAssumption DEF Inv, TypeOK, MaxRun
  <1>3. dp \in Len(Facts!TextOf(l, k)) .. Len(Facts!TextOf(l, k + 1)) - 1
    BY <1>1, <1>2
  <1>4. /\ l[k + 1].off \in 1 .. Len(Facts!TextOf(l, k))
        /\ Facts!TextOf(l, k + 1)[dp + 1] = Facts!TextOf(l, k + 1)[(dp - l[k + 1].off) + 1]
    BY <1>3, ListsTyped, Facts!RunRepeats
  <1>5. QED  BY <1>1, <1>2, <1>3, <1>4

LEMMA NoGiveUp ==
  ASSUME NEW l \in ItemLists, Inv, Decoding(l)
  PROVE  ~ GiveUp
  <1> SUFFICES ASSUME GiveUp
               PROVE  FALSE
    OBVIOUS
  <1>1. PICK k \in 0 .. Len(l) - 1 :
          /\ l[k + 1].kind = "run" /\ off = l[k + 1].off
          /\ Len(Facts!TextOf(l, k)) <= dp /\ dp + len = Len(Facts!TextOf(l, k + 1))
    BY DEF Decoding, InRun, GiveUp
  <1>2. off \in 1 .. dp
    BY <1>1, RunSource DEF GiveUp
  <1>3. dp \in Nat /\ dp - off < 0
    BY DEF Inv, TypeOK, GiveUp
  <1>4. QED  BY <1>2, <1>3

LEMMA CopyDecodes ==
  ASSUME NEW l \in ItemLists, Inv, Decoding(l), CopyByte
  PROVE  Decoding(l)'
  <1> USE DEF CopyByte
  <1>1. PICK k \in 0 .. Len(l) - 1 :
          /\ l[k + 1].kind = "run" /\ off = l[k + 1].off
          /\ Facts!Reads(l, k + 1, ctrlc + 1, sp, ctrl \div 2, Bit, CtrlBits)
          /\ Len(Facts!TextOf(l, k)) <= dp /\ dp + len = Len(Facts!TextOf(l, k + 1))
          /\ Decoded(Facts!TextOf(l, k + 1))
    BY DEF Decoding, InRun
  <1> DEFINE longer == Facts!TextOf(l, k + 1)
  <1>2. off \in 1 .. dp /\ dp < Len(longer) /\ longer[dp + 1] = longer[(dp - off) + 1]
    BY <1>1, RunSource
  <1>3. /\ dp \in Nat /\ len \in Nat /\ Len(Facts!TextOf(l, k)) \in Nat /\ Len(longer) \in Nat
        /\ dest \in [0 .. in.rawsize + Slack - 1 -> Byte] /\ in.rawsize \in Nat /\ Slack \in Nat
        /\ dp + len <= in.rawsize
    <2>1. k \in 0 .. Len(l) /\ k + 1 \in 0 .. Len(l)
      BY ListsTyped
    <2>2. Len(Facts!TextOf(l, k)) \in Nat /\ Len(longer) \in Nat
      BY <2>1, Texts
    <2>3. QED  BY <2>2, ConstantsAssumption DEF Inv, TypeOK, Input, MaxRun, RunFits
  <1>4. \A p \in 0 .. dp - 1 : dest[p] = longer[p + 1]
    BY <1>1 DEF Decoded
  <1> HIDE DEF longer
  <1>5. \A p \in 0 .. dp - 1 : dest'[p] = longer[p + 1]
    <2> SUFFICES ASSUME NEW p \in 0 .. dp - 1
                 PROVE  dest'[p] = longer[p + 1]
      OBVIOUS
    <2>1. p \in DOMAIN dest /\ p # dp
      BY <1>3
    <2>2. QED  BY <1>4, <2>1 DEF Written
  <1>6. dest'[dp] = longer[dp + 1]
    <2>1. dp \in DOMAIN dest /\ dp - off \in 0 .. dp - 1
      BY <1>2, <1>3
    <2>2. dest[dp - off] = longer[(dp - off) + 1]
      BY <1>4, <2>1
    <2>3. dest'[dp] = dest[dp - off]
      <3>1. dp - off \in DOMAIN dest
        BY <1>3, <2>1
      <3>2. QED  BY <2>1, <3>1 DEF Written, Held
    <2>4. QED  BY <1>2, <2>2, <2>3
  <1>7. Decoded(longer)'
    <2>1. \A p \in 0 .. dp' - 1 : p \in 0 .. dp - 1 \/ p = dp
      BY <1>3
    <2>2. dp' <= Len(longer)
      BY <1>2, <1>3
    <2>3. \A p \in 0 .. dp' - 1 : dest'[p] = longer[p + 1]
      BY <1>5, <1>6, <2>1
    <2>4. QED  BY <2>2, <2>3 DEF Decoded, longer
  <1>8. Len(Facts!TextOf(l, k)) <= dp' /\ dp' + len' = Len(longer)
    <2>1. \A x, y \in Nat : (x + 1) + (y - 1) = x + y
      OBVIOUS
    <2>2. dp' + len' = dp + len /\ dp + len = Len(longer)
      BY <1>1, <1>3, <2>1 DEF longer
    <2>3. Len(Facts!TextOf(l, k)) <= dp'
      BY <1>1, <1>3
    <2>4. QED  BY <2>2, <2>3
  <1>9. InRun(l)'
    BY <1>1, <1>7, <1>8 DEF InRun, longer
  <1>10. QED  BY <1>9 DEF Decoding

LEMMA CopyDoneDecodes ==
  ASSUME NEW l \in ItemLists, Inv, Decoding(l), CopyDone
  PROVE  Decoding(l)'
  <1> USE DEF CopyDone, NextItem
  <1>1. PICK k \in 0 .. Len(l) - 1 :
          /\ Facts!Reads(l, k + 1, ctrlc + 1, sp, ctrl \div 2, Bit, CtrlBits)
          /\ dp + len = Len(Facts!TextOf(l, k + 1))
          /\ Decoded(Facts!TextOf(l, k + 1))
    BY DEF Decoding, InRun
  <1>2. dp \in Nat /\ k + 1 \in 0 .. Len(l)
    BY ListsTyped DEF Inv, TypeOK
  <1>3. Facts!Reads(l, k + 1, ctrlc', sp', ctrl', Bit, CtrlBits)
    BY <1>1
  <1>4. AfterItems(l, k + 1)'
    <2>1. dp = Len(Facts!TextOf(l, k + 1)) /\ dest' = dest /\ dp' = dp
      BY <1>1, <1>2
    <2>2. QED  BY <1>1, <2>1 DEF AfterItems, Decoded
  <1>5. UnderControl(l)'
    BY <1>2, <1>3, <1>4 DEF UnderControl
  <1>6. QED  BY <1>5 DEF Decoding

(* The loops end when the text is complete: as long as it is not, the      *)
(* stream goes on.                                                         *)
LEMMA FinishDecodes ==
  ASSUME NEW l \in ItemLists, Inv, Decoding(l), Finish
  PROVE  Decoding(l)'
  <1> USE DEF Finish
  <1>1. PICK k \in 0 .. Len(l) : Facts!Rests(l, k, sp, Bit, CtrlBits) /\ AfterItems(l, k)
    BY DEF Decoding, BetweenControls
  <1>2. /\ in.srcend \in Nat /\ Len(in.src) \in Nat /\ sp \in Nat
        /\ in.src = Facts!Encode(l) /\ in.srcend >= Len(in.src)
        /\ in.rawsize = Len(Facts!Expand(l)) /\ dp = Len(Facts!TextOf(l, k))
    BY <1>1, LenProperties DEF Decoding, Inv, TypeOK, Input, AfterItems
  <1>3. k = Len(l)
    <2>1. ASSUME k < Len(l)
          PROVE  FALSE
      <3>1. k \in 0 .. Len(l) - 1 /\ dp < in.rawsize
        BY <1>2, <2>1, Texts
      <3>2. sp < Len(Facts!Encode(l))
        BY <1>1, <3>1, ListsTyped, BitsFill, Facts!ControlIsRead
      <3>3. sp < in.srcend
        BY <1>2, <3>2
      <3>4. QED  BY <3>1, <3>3
    <2>2. QED  BY <2>1, ListsTyped
  <1>4. Facts!TextOf(l, k) = Facts!Expand(l) /\ Len(Facts!Expand(l)) \in Nat
    BY <1>3, Texts
  <1>5. dp = in.rawsize /\ in.rawsize \in Nat /\ Decoded(Facts!Expand(l))
    BY <1>1, <1>2, <1>4 DEF AfterItems
  <1>6. pc' = "returned"
    BY <1>5
  <1>7. Decoded(Facts!Expand(l))'
    BY <1>5 DEF Decoded
  <1>8. QED  BY <1>5, <1>6, <1>7 DEF Decoding

LEMMA StepDecodes ==
  ASSUME NEW l \in ItemLists, Inv, Decoding(l), [Next]_vars
  PROVE  Decoding(l)'
  <1>1. CASE Step
    BY <1>1, ControlDecodes, ControlDoneDecodes, LiteralDecodes, LiteralOverrunDecodes,
       CopyBegins, NoOverrun, CopyDecodes, NoGiveUp, CopyDoneDecodes, FinishDecodes DEF Step
  <1>2. CASE UNCHANGED vars
    BY <1>2 DEF vars, Decoding, BetweenControls, UnderControl, InRun, AfterItems, Decoded
  <1>3. QED  BY <1>1, <1>2 DEF Next, Terminated

-----------------------------------------------------------------------------

LEMMA RTInitInv == RTInit => Inv /\ RTInv
  <1>1. ASSUME items = << >>, Init
        PROVE  Inv /\ RTInv
    BY <1>1, InitInv DEF RTInv
  <1>2. ASSUME items \in ItemLists, NEW e \in Excess, Call(StreamCall(items, e))
        PROVE  Inv /\ RTInv
    <2>1. PICK l \in ItemLists : l = items
      BY <1>2
    <2>2. Call(StreamCall(l, e))
      BY <1>2, <2>1
    <2>3. StreamCall(l, e) \in Input /\ Decoding(l)
      BY <2>2, StreamCallDecodes
    <2>4. Inv
      BY <2>2, <2>3, CallInv
    <2>5. QED  BY <2>1, <2>3, <2>4 DEF RTInv
  <1>3. QED  BY <1>1, <1>2 DEF RTInit

LEMMA RTStepInv == Inv /\ RTInv /\ [RTNext]_<<vars, items>> => Inv' /\ RTInv'
  <1> SUFFICES ASSUME Inv, RTInv, [RTNext]_<<vars, items>>
               PROVE  Inv' /\ RTInv'
    OBVIOUS
  <1>1. [Next]_vars /\ items' = items
    BY DEF RTNext
  <1>2. Inv'
    BY <1>1, StepInv
  <1>3. ASSUME items # << >>
        PROVE  RTInv'
    <2>1. PICK l \in ItemLists : items = l /\ Decoding(l)
      BY <1>3 DEF RTInv
    <2>2. Decoding(l)'
      BY <1>1, <2>1, StepDecodes
    <2>3. QED  BY <1>1, <2>1, <2>2 DEF RTInv
  <1>4. items = << >> => RTInv'
    BY <1>1 DEF RTInv
  <1>5. QED  BY <1>2, <1>3, <1>4

(* The decoder's position in a stream, kept by every step of its loops.    *)
THEOREM StreamsDecode == RTSpec => [](Inv /\ RTInv)
  BY RTInitInv, RTStepInv, PTL DEF RTSpec

(* A decoder that ends on a stream returns the text of its items.          *)
LEMMA StreamEndsInText ==
  ASSUME NEW l \in ItemLists, Decoding(l), pc \in Final
  PROVE  pc = "returned" /\ Output = Format!Expand(l)
  <1>1. /\ pc = "returned" /\ in.rawsize = Len(Facts!Expand(l))
        /\ dp = in.rawsize /\ \A p \in 0 .. dp - 1 : dest[p] = Facts!Expand(l)[p + 1]
    BY DEF Decoding, Final, Decoded
  <1>2. Facts!Expand(l) \in Seq(Byte)
    <2>1. Len(l) \in 0 .. Len(l) /\ Facts!TextOf(l, Len(l)) = Facts!Expand(l)
      BY ListsTyped, Facts!PrefixEnds
    <2>2. QED  BY <2>1, ListsTyped, Facts!TextsTyped
  <1> DEFINE text == Facts!Expand(l)
  <1>3. Output = [k \in 1 .. Len(text) |-> dest[k - 1]]
    BY <1>1 DEF Output
  <1>4. text = [k \in 1 .. Len(text) |-> text[k]] /\ Len(text) \in Nat
    BY <1>2, LenProperties
  <1> HIDE DEF text
  <1>5. \A k \in 1 .. Len(text) : dest[k - 1] = text[k]
    <2> SUFFICES ASSUME NEW k \in 1 .. Len(text)
                 PROVE  dest[k - 1] = text[k]
      OBVIOUS
    <2>1. k - 1 \in 0 .. dp - 1 /\ (k - 1) + 1 = k
      BY <1>1, <1>4 DEF text
    <2>2. QED  BY <1>1, <2>1 DEF text
  <1>6. Output = text
    BY <1>3, <1>4, <1>5
  <1>7. QED  BY <1>1, <1>6, FormatIsFacts DEF text

(* A stream written by the macros of the compressor is decoded to the text *)
(* of its items, whatever length its header claims beyond its end: the     *)
(* decoder neither gives up nor aborts, and returns that text.             *)
THEOREM StreamsRoundTrip == RTSpec => []RoundTrip
  <1>1. Inv /\ RTInv => RoundTrip
    <2> SUFFICES ASSUME RTInv, items # << >>, pc \in Final
                 PROVE  pc = "returned" /\ Output = Format!Expand(items)
      BY DEF RoundTrip
    <2>1. PICK l \in ItemLists : items = l /\ Decoding(l)
      BY DEF RTInv
    <2>2. QED  BY <2>1, StreamEndsInText
  <1>2. QED  BY <1>1, StreamsDecode, PTL

(* No byte past such a stream is read, however long the header says the    *)
(* input is.                                                               *)
THEOREM StreamsAreNotOverread == RTSpec => []NoOverreadOfValidStream
  <1>1. Inv /\ RTInv => NoOverreadOfValidStream
    BY DEF RTInv, Decoding, NoOverreadOfValidStream
  <1>2. QED  BY <1>1, StreamsDecode, PTL

=============================================================================
