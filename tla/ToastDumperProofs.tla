------------------------- MODULE ToastDumperProofs -------------------------
(***************************************************************************)
(* Theorems about ToastDumper: the lines are those of the chunks asked     *)
(* for, in order, and show bytes of their tuples only.                     *)
(***************************************************************************)
EXTENDS ToastDumper, Induction, SequenceTheorems

DumperCall == [arg: Arg, tuples: Seq(ChunkTuple)]

(* The chunks asked for, tuple by tuple.                                   *)
NextAsked(asked, k) ==
  IF AskedFor(call.tuples[k]) THEN Append(asked, call.tuples[k]) ELSE asked

IsAsked(f, m) == f = [k \in 0 .. m |-> IF k = 0 THEN << >> ELSE NextAsked(f[k - 1], k)]

LEMMA AskedNext ==
  ASSUME NEW m \in Nat, NEW f, IsAsked(f, m), NEW k \in 0 .. m - 1
  PROVE  f[k + 1] = NextAsked(f[k], k + 1)
<1>1. k + 1 \in 0 .. m /\ k + 1 # 0 /\ (k + 1) - 1 = k
  OBVIOUS
<1> QED
  BY <1>1 DEF IsAsked

LEMMA AskedExists ==
  ASSUME NEW n0 \in Nat
  PROVE  \E f : IsAsked(f, n0)
<1> DEFINE S == {m \in 0 .. n0 : \E f : IsAsked(f, m)}
<1>1. 0 \in S
  <2>1. IsAsked([k \in 0 .. 0 |-> << >>], 0)
    BY DEF IsAsked
  <2> QED
    BY <2>1
<1>2. \A m \in 0 .. n0 - 1 : m \in S => m + 1 \in S
  <2> SUFFICES ASSUME NEW m \in 0 .. n0 - 1, NEW f, IsAsked(f, m)
               PROVE  \E g : IsAsked(g, m + 1)
    OBVIOUS
  <2>1. IsAsked([k \in 0 .. m + 1 |-> IF k = m + 1 THEN NextAsked(f[m], m + 1) ELSE f[k]], m + 1)
    BY DEF IsAsked
  <2> QED
    BY <2>1
<1> HIDE DEF S
<1>3. 0 .. n0 \subseteq S
  BY <1>1, <1>2, IntervalInduction
<1> QED
  BY <1>3 DEF S

LEMMA AskedIsLast ==
  ASSUME NEW m \in Nat
  PROVE  \E f : IsAsked(f, m) /\ ChunksAskedFor(m) = f[m]
<1> DEFINE f == CHOOSE f : IsAsked(f, m)
<1>1. IsAsked(f, m)
  BY AskedExists
<1>2. ChunksAskedFor(m) = f[m]
  BY DEF ChunksAskedFor, IsAsked, NextAsked
<1> QED
  BY <1>1, <1>2

LEMMA NoneAsked == ChunksAskedFor(0) = << >>
<1>1. PICK f : IsAsked(f, 0) /\ ChunksAskedFor(0) = f[0]
  BY AskedIsLast
<1> QED
  BY <1>1 DEF IsAsked

LEMMA OneMoreAsked ==
  ASSUME NEW m \in Nat
  PROVE  ChunksAskedFor(m + 1) = NextAsked(ChunksAskedFor(m), m + 1)
<1>1. PICK f : IsAsked(f, m) /\ ChunksAskedFor(m) = f[m]
  BY AskedIsLast
<1>2. PICK g : IsAsked(g, m + 1) /\ ChunksAskedFor(m + 1) = g[m + 1]
  BY AskedIsLast
<1> DEFINE S == {k \in 0 .. m : f[k] = g[k]}
<1>3. 0 \in S
  BY <1>1, <1>2 DEF IsAsked
<1>4. \A k \in 0 .. m - 1 : k \in S => k + 1 \in S
  <2> SUFFICES ASSUME NEW k \in 0 .. m - 1, f[k] = g[k]
               PROVE  f[k + 1] = g[k + 1]
    OBVIOUS
  <2>1. f[k + 1] = NextAsked(f[k], k + 1)
    BY <1>1, AskedNext
  <2>2. g[k + 1] = NextAsked(g[k], k + 1)
    BY <1>2, AskedNext
  <2> QED
    BY <2>1, <2>2
<1> HIDE DEF S
<1>5. 0 .. m \subseteq S
  BY <1>3, <1>4, IntervalInduction
<1>6. f[m] = g[m]
  BY <1>5 DEF S
<1>7. g[m + 1] = NextAsked(g[m], m + 1)
  BY <1>2, AskedNext
<1> QED
  BY <1>1, <1>2, <1>6, <1>7

-----------------------------------------------------------------------------

LineShown == [id: 0 .. MaxUnsigned, seq: 0 .. MaxUnsigned, hex: Seq(Nat)]

DumperTypeOK ==
  /\ call \in DumperCall
  /\ n \in 0 .. Len(call.tuples)
  /\ out \in Seq(LineShown)
  /\ ChunksAskedFor(n) \in Seq(ChunkTuple)

(* The number is read before the first tuple.                              *)
FilterRead ==
  /\ pc = "setup" => n = 0 /\ out = << >>
  /\ pc # "setup" => filter = ReadNumber(call.arg)

DumperInv == DumperTypeOK /\ FilterRead /\ OnlyAskedFor /\ ShowsItsBytes

(* The program compares with the number the way its user means it.         *)
LEMMA FilterIsAsked ==
  ASSUME call \in DumperCall, filter = ReadNumber(call.arg),
         NEW t \in ChunkTuple
  PROVE  filter \in {0, t.id} <=> AskedFor(t)
<1> DEFINE a == call.arg.number
           M == MaxUnsigned
<1>1. /\ a \in Int /\ t.id \in 0 .. M /\ M \in Nat
  BY DumperAssumption DEF DumperCall, Arg, ChunkTuple
<1>2. CASE call.arg.kind # "number"
  BY <1>2 DEF ReadNumber, AskedFor
<1>3. CASE call.arg.kind = "number" /\ a \in 0 .. M
  <2>1. Word(a) = a
    BY <1>1, <1>3 DEF Word
  <2>2. ~ (a > MaxUnsigned) /\ ~ (a < - MaxUnsigned)
    BY <1>1, <1>3
  <2>3. filter = a
    BY <1>3, <2>1, <2>2 DEF ReadNumber
  <2>4. AskedFor(t) <=> a = 0 \/ t.id = a
    BY <1>1, <1>3 DEF AskedFor
  <2> QED
    BY <2>3, <2>4
<1>4. CASE call.arg.kind = "number" /\ a \in - M .. -1
  <2>1. \A m \in Nat : \A x \in - m .. -1 : x % (m + 1) = x + (m + 1)
    OBVIOUS
  <2>2. Word(a) = a + (M + 1)
    BY <1>1, <1>4, <2>1 DEF Word
  <2>3. ~ (a > MaxUnsigned) /\ ~ (a < - MaxUnsigned)
    BY <1>1, <1>4
  <2>4. filter = a + (M + 1) /\ filter # 0
    BY <1>1, <1>4, <2>2, <2>3 DEF ReadNumber
  <2>5. AskedFor(t) <=> t.id + (- a) = M + 1
    BY <1>1, <1>4 DEF AskedFor
  <2> QED
    BY <1>1, <2>4, <2>5
<1>5. CASE call.arg.kind = "number" /\ a \notin - M .. M
  <2>1. a > MaxUnsigned \/ a < - MaxUnsigned
    BY <1>1, <1>5
  <2>2. filter = MaxUnsigned
    BY <1>5, <2>1 DEF ReadNumber
  <2>3. AskedFor(t) <=> t.id = M
    BY <1>1, <1>5 DEF AskedFor
  <2>4. M = 0 => t.id = M
    BY <1>1
  <2> QED
    BY <2>2, <2>3, <2>4
<1> QED
  BY <1>1, <1>2, <1>3, <1>4, <1>5

(* The bytes of a line end where the tuple ends.                           *)
LEMMA HexInTuple ==
  ASSUME NEW t \in ChunkTuple, HexLength(t) <= Len(t.rest)
  PROVE  BytesShown(t, HexLength(t))
<1> DEFINE d == t.len - t.hoff
<1>1. /\ t.len \in 0 .. MaxUnsigned /\ t.hoff \in 0 .. MaxUnsigned /\ d \in Int
      /\ ChunkPos \in Nat /\ ShownBytes \in Nat /\ MaxUnsigned \in Nat
      /\ Len(t.rest) \in Nat
  BY DumperAssumption, LenProperties DEF ChunkTuple
<1>2. \A x \in Int, m \in Nat : x % (m + 1) \in Nat
  OBVIOUS
<1>3. Word(d) \in Nat
  BY <1>1, <1>2 DEF Word
<1>4. t.hoff <= t.len => Word(d) = d /\ d >= 0
  <2>1. \A m \in Nat : \A x \in 0 .. m : x % (m + 1) = x
    OBVIOUS
  <2> QED
    BY <1>1, <2>1 DEF Word
<1>5. HexEnd(t) = IF Word(d) > ChunkPos + ShownBytes THEN ChunkPos + ShownBytes ELSE Word(d)
  BY DEF HexEnd
<1> HIDE DEF d
<1>6. PICK w \in Nat, h \in Int, k \in Int : w = Word(d) /\ h = HexEnd(t) /\ k = HexLength(t)
  BY <1>1, <1>3, <1>5 DEF HexLength
<1>7. /\ h = IF w > ChunkPos + ShownBytes THEN ChunkPos + ShownBytes ELSE w
      /\ k = IF h < ChunkPos THEN 0 ELSE h - ChunkPos
      /\ k <= Len(t.rest)
  BY <1>5, <1>6 DEF HexLength
<1>8. k \in 0 .. Len(t.rest) /\ k <= ShownBytes
  BY <1>1, <1>7
<1>9. ASSUME t.hoff <= t.len
      PROVE  IF d <= ChunkPos THEN k = 0
             ELSE k = d - ChunkPos \/ (k = ShownBytes /\ k <= d - ChunkPos)
  BY <1>1, <1>4, <1>6, <1>7, <1>9
<1> QED
  BY <1>6, <1>8, <1>9 DEF BytesShown, d

LEMMA HexIsNat ==
  ASSUME NEW t \in ChunkTuple
  PROVE  HexLength(t) \in Nat
<1>1. /\ t.len - t.hoff \in Int /\ ChunkPos \in Nat /\ ShownBytes \in Nat /\ MaxUnsigned \in Nat
  BY DumperAssumption DEF ChunkTuple
<1>2. \A x \in Int, m \in Nat : x % (m + 1) \in Nat
  OBVIOUS
<1>3. Word(t.len - t.hoff) \in Nat
  BY <1>1, <1>2 DEF Word
<1> QED
  BY <1>1, <1>3 DEF HexEnd, HexLength

LEMMA TupleTyped ==
  ASSUME DumperTypeOK, AtTuple
  PROVE  /\ Tuple \in ChunkTuple /\ n + 1 \in 1 .. Len(call.tuples) /\ n \in Nat
         /\ Tuple.id \in 0 .. MaxUnsigned
<1>1. call.tuples \in Seq(ChunkTuple) /\ n + 1 \in 1 .. Len(call.tuples) /\ n \in Nat
  BY DEF DumperTypeOK, AtTuple, DumperCall
<1>2. Tuple \in ChunkTuple
  BY <1>1, ElementOfSeq DEF Tuple
<1> QED
  BY <1>1, <1>2 DEF ChunkTuple

(* A step from a tuple to the next.                                        *)
LEMMA TupleStep ==
  ASSUME DumperInv, PrintChunk \/ PassChunk
  PROVE  DumperInv'
<1>1. /\ AtTuple /\ n' = n + 1 /\ UNCHANGED <<call, filter, pc>> /\ pc = "tuples"
      /\ \/ filter \in {0, Tuple.id} /\ out' = Append(out, Line(Tuple))
         \/ filter \notin {0, Tuple.id} /\ out' = out
  BY DEF PrintChunk, PassChunk, Readable, AtTuple
<1>2. /\ Tuple \in ChunkTuple /\ n + 1 \in 1 .. Len(call.tuples) /\ n \in Nat
      /\ call \in DumperCall /\ out \in Seq(LineShown)
      /\ ChunksAskedFor(n) \in Seq(ChunkTuple)
  BY <1>1, TupleTyped DEF DumperInv, DumperTypeOK
<1>3. ChunksAskedFor(n') = NextAsked(ChunksAskedFor(n), n + 1)
  BY <1>1, <1>2, OneMoreAsked
<1>4. ChunksAskedFor(n)' = ChunksAskedFor(n')
  BY <1>1 DEF ChunksAskedFor, AskedFor
<1>5. ChunksAskedFor(n)' = IF AskedFor(Tuple) THEN Append(ChunksAskedFor(n), Tuple)
                                              ELSE ChunksAskedFor(n)
  BY <1>3, <1>4 DEF NextAsked, Tuple
<1>6. /\ Line(Tuple) \in LineShown /\ Line(Tuple).id = Tuple.id /\ Line(Tuple).seq = Tuple.seq
      /\ Line(Tuple).hex = SubSeq(Tuple.rest, 1, HexLength(Tuple))
  <2>1. /\ Tuple.rest \in Seq(Nat) /\ Tuple.id \in 0 .. MaxUnsigned /\ Tuple.seq \in 0 .. MaxUnsigned
        /\ Len(Tuple.rest) \in Nat
    BY <1>2, LenProperties DEF ChunkTuple
  <2>2. HexLength(Tuple) \in Nat /\ (HexLength(Tuple) <= Len(Tuple.rest))
    BY <1>2, HexIsNat DEF PrintChunk, PassChunk, Readable
  <2>3. SubSeq(Tuple.rest, 1, HexLength(Tuple)) \in Seq(Nat)
    BY <2>1, <2>2
  <2> QED
    BY <2>1, <2>3 DEF Line, LineShown
<1>7. DumperTypeOK'
  <2>1. out' \in Seq(LineShown)
    BY <1>1, <1>2, <1>6, AppendProperties
  <2>2. ChunksAskedFor(n)' \in Seq(ChunkTuple)
    BY <1>2, <1>5, AppendProperties
  <2> QED
    BY <1>1, <1>2, <2>1, <2>2 DEF DumperTypeOK
<1>8. FilterRead'
  BY <1>1 DEF DumperInv, FilterRead
<1>9. OnlyAskedFor'
  <2> SUFFICES /\ Len(out') = Len(ChunksAskedFor(n)')
               /\ \A k \in DOMAIN out' : /\ out'[k].id = (ChunksAskedFor(n)')[k].id
                                         /\ out'[k].seq = (ChunksAskedFor(n)')[k].seq
    BY DEF OnlyAskedFor
  <2>2. filter \in {0, Tuple.id} <=> AskedFor(Tuple)
    BY <1>1, <1>2, FilterIsAsked DEF DumperInv, FilterRead
  <2> DEFINE w == ChunksAskedFor(n)
  <2>3. /\ Len(out) = Len(w) /\ w \in Seq(ChunkTuple)
        /\ \A k \in DOMAIN out : out[k].id = w[k].id /\ out[k].seq = w[k].seq
    BY <1>2 DEF DumperInv, OnlyAskedFor
  <2>4. PICK v, x : v = ChunksAskedFor(n)' /\ x = Line(Tuple)
    OBVIOUS
  <2> HIDE DEF w
  <2>5. CASE filter \in {0, Tuple.id}
    <3>1. out' = Append(out, x) /\ v = Append(w, Tuple)
      BY <1>1, <1>5, <2>2, <2>4, <2>5 DEF w
    <3>2. /\ DOMAIN out' = 1 .. Len(out) + 1 /\ Len(out') = Len(out) + 1
          /\ out'[Len(out) + 1] = x
          /\ \A k \in 1 .. Len(out) : out'[k] = out[k]
      BY <1>2, <1>6, <2>4, <3>1, AppendProperties
    <3>3. /\ Len(v) = Len(w) + 1 /\ v[Len(w) + 1] = Tuple
          /\ \A k \in 1 .. Len(w) : v[k] = w[k]
      BY <1>2, <2>3, <3>1, AppendProperties
    <3>4. Len(out) \in Nat /\ DOMAIN out = 1 .. Len(out)
      BY <1>2, LenProperties
    <3>5. \A k \in 1 .. Len(out) : out'[k].id = v[k].id /\ out'[k].seq = v[k].seq
      BY <2>3, <3>2, <3>3, <3>4
    <3>6. out'[Len(out) + 1].id = v[Len(out) + 1].id /\ out'[Len(out) + 1].seq = v[Len(out) + 1].seq
      BY <1>6, <2>3, <2>4, <3>2, <3>3
    <3>7. \A k \in 1 .. Len(out) + 1 : k \in 1 .. Len(out) \/ k = Len(out) + 1
      BY <3>4
    <3> QED
      BY <2>3, <2>4, <3>2, <3>3, <3>5, <3>6, <3>7
  <2>6. CASE filter \notin {0, Tuple.id}
    BY <1>1, <1>5, <2>2, <2>3, <2>4, <2>6 DEF w
  <2> QED
    BY <2>5, <2>6
<1>10. ShowsItsBytes'
  <2> DEFINE Shows(line, j) ==
        LET t == call.tuples[j]
        IN  /\ line.id = t.id /\ line.seq = t.seq
            /\ BytesShown(t, Len(line.hex))
            /\ line.hex = SubSeq(t.rest, 1, Len(line.hex))
  <2>1. \A k \in DOMAIN out : \E j \in 1 .. n : Shows(out[k], j)
    BY DEF DumperInv, ShowsItsBytes
  <2>2. Shows(Line(Tuple), n + 1)
    <3>1. (HexLength(Tuple) <= Len(Tuple.rest)) /\ HexLength(Tuple) \in Nat
      BY <1>2, HexIsNat DEF PrintChunk, PassChunk, Readable
    <3>2. BytesShown(Tuple, HexLength(Tuple))
      BY <1>2, <3>1, HexInTuple
    <3>3. Tuple.rest \in Seq(Nat)
      BY <1>2 DEF ChunkTuple
    <3>4. Len(Line(Tuple).hex) = HexLength(Tuple)
      BY <1>6, <3>1, <3>3, SubSeqProperties, LenProperties
    <3> QED
      BY <1>6, <3>2, <3>4 DEF Tuple
  <2> HIDE DEF Shows
  <2>3. \A k \in DOMAIN out' : \E j \in 1 .. n + 1 : Shows(out'[k], j)
    <3>1. \A k \in DOMAIN out : \E j \in 1 .. n + 1 : Shows(out[k], j)
      BY <1>2, <2>1
    <3>2. CASE out' = out
      BY <3>1, <3>2
    <3>3. CASE out' = Append(out, Line(Tuple))
      <4>1. PICK x : x = Line(Tuple)
        OBVIOUS
      <4>2. /\ DOMAIN out' = 1 .. Len(out) + 1 /\ out'[Len(out) + 1] = x
            /\ \A k \in 1 .. Len(out) : out'[k] = out[k]
            /\ DOMAIN out = 1 .. Len(out) /\ Len(out) \in Nat
        BY <1>2, <1>6, <3>3, <4>1, AppendProperties, LenProperties
      <4>3. \A k \in 1 .. Len(out) + 1 : k \in 1 .. Len(out) \/ k = Len(out) + 1
        BY <4>2
      <4>4. n + 1 \in 1 .. n + 1
        BY <1>2
      <4> QED
        BY <2>2, <3>1, <4>1, <4>2, <4>3, <4>4
    <3> QED
      BY <1>1, <3>2, <3>3
  <2>4. call' = call /\ n' = n + 1
    BY <1>1
  <2> QED
    BY <2>3, <2>4 DEF ShowsItsBytes, Shows, BytesShown
<1> QED
  BY <1>7, <1>8, <1>9, <1>10 DEF DumperInv

LEMMA DumperInit == Init => DumperInv
<1> SUFFICES ASSUME Init PROVE DumperInv
  OBVIOUS
<1>1. call \in DumperCall /\ n = 0 /\ out = << >> /\ pc = "setup"
  BY DumperAssumption DEF Init, DumperCall
<1>2. << >> \in Seq(LineShown) /\ << >> \in Seq(ChunkTuple) /\ Len(<< >>) = 0
      /\ DOMAIN << >> = {}
  OBVIOUS
<1>3. 0 \in 0 .. Len(call.tuples)
  BY <1>1, LenProperties DEF DumperCall
<1> QED
  BY <1>1, <1>2, <1>3, NoneAsked DEF DumperInv, DumperTypeOK, FilterRead, OnlyAskedFor, ShowsItsBytes

LEMMA DumperStep == DumperInv /\ [Next]_vars => DumperInv'
<1> SUFFICES ASSUME DumperInv, [Next]_vars PROVE DumperInv'
  OBVIOUS
<1>1. CASE UNCHANGED <<call, n, out>> /\ FilterRead'
  <2>1. ChunksAskedFor(n)' = ChunksAskedFor(n)
    BY <1>1 DEF ChunksAskedFor, AskedFor
  <2>2. DumperTypeOK'
    BY <1>1, <2>1 DEF DumperInv, DumperTypeOK
  <2>3. OnlyAskedFor'
    BY <1>1, <2>1 DEF DumperInv, OnlyAskedFor
  <2>4. ShowsItsBytes'
    BY <1>1 DEF DumperInv, ShowsItsBytes, BytesShown
  <2> QED
    BY <1>1, <2>2, <2>3, <2>4 DEF DumperInv
<1>2. CASE user_code_setup
  <2>1. UNCHANGED <<call, n, out>> /\ FilterRead'
    BY <1>2 DEF user_code_setup, FilterRead
  <2> QED
    BY <1>1, <2>1
<1>3. CASE AttributeMissing \/ HexOffPage \/ user_code_finish \/ Terminated \/ UNCHANGED vars
  <2>1. UNCHANGED <<call, n, out, filter>> /\ (pc # "setup" \/ pc' = pc)
        /\ (pc' = "setup" => pc = "setup")
    BY <1>3 DEF AttributeMissing, HexOffPage, user_code_finish, Terminated, vars, AtTuple
  <2>2. FilterRead'
    BY <2>1 DEF DumperInv, FilterRead
  <2> QED
    BY <1>1, <2>1, <2>2
<1> QED
  BY <1>2, <1>3, TupleStep DEF Next

LEMMA DumperInvHolds == Spec => []DumperInv
  BY DumperInit, DumperStep, PTL DEF Spec

(* toast_dumper lists the chunks of the value it is asked for, and no      *)
(* other, in the order and as often as the file has them, for every file   *)
(* and every argument: a negative number asks for an id modulo 2^32 and a  *)
(* number too large for the largest id, which may exist.                   *)
THEOREM ListsWhatIsAskedFor == Spec => []OnlyAskedFor
<1>1. DumperInv => OnlyAskedFor
  BY DEF DumperInv
<1> QED
  BY <1>1, DumperInvHolds, PTL

(* A line shows the first bytes of its chunk up to the end of the tuple or *)
(* the limit, for every tuple; if the difference of the two unsigned       *)
(* lengths wraps, still no more than the limit and none behind the page.   *)
THEOREM ShowsTupleBytes == Spec => []ShowsItsBytes
<1>1. DumperInv => ShowsItsBytes
  BY DEF DumperInv
<1> QED
  BY <1>1, DumperInvHolds, PTL

=============================================================================
