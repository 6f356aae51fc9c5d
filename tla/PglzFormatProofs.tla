------------------------- MODULE PglzFormatProofs --------------------------
(***************************************************************************)
(* Facts about PglzFormat: the text an item list stands for and the bytes  *)
(* written for it grow item by item.                                       *)
(***************************************************************************)
EXTENDS PglzFormat, Induction, SequenceTheorems, TLAPS

(* The text an item list stands for, and the output it makes, item by item.*)

IsText(f, list, m) ==
  f = [k \in 0 .. m |-> IF k = 0 THEN << >> ELSE Extend(f[k - 1], list[k])]
IsOutput(f, list, m) ==
  f = [k \in 0 .. m |-> IF k = 0 THEN NoOutput ELSE Emit(f[k - 1], list[k])]

LEMMA TextNext ==
  ASSUME NEW list, NEW m \in Nat, NEW f, IsText(f, list, m), NEW k \in 0 .. m - 1
  PROVE  f[k + 1] = Extend(f[k], list[k + 1])
<1>1. k + 1 \in 0 .. m /\ k + 1 # 0 /\ (k + 1) - 1 = k
  OBVIOUS
<1> QED
  BY <1>1 DEF IsText

LEMMA OutputNext ==
  ASSUME NEW list, NEW m \in Nat, NEW f, IsOutput(f, list, m), NEW k \in 0 .. m - 1
  PROVE  f[k + 1] = Emit(f[k], list[k + 1])
<1>1. k + 1 \in 0 .. m /\ k + 1 # 0 /\ (k + 1) - 1 = k
  OBVIOUS
<1> QED
  BY <1>1 DEF IsOutput

LEMMA FoldsExist ==
  ASSUME NEW list, NEW n \in Nat
  PROVE  (\E f : IsText(f, list, n)) /\ (\E f : IsOutput(f, list, n))
<1> DEFINE S == {m \in 0 .. n : (\E f : IsText(f, list, m)) /\ (\E f : IsOutput(f, list, m))}
<1>1. 0 \in S
  <2>1. IsText([k \in 0 .. 0 |-> << >>], list, 0)
    BY DEF IsText
  <2>2. IsOutput([k \in 0 .. 0 |-> NoOutput], list, 0)
    BY DEF IsOutput
  <2> QED
    BY <2>1, <2>2
<1>2. \A m \in 0 .. n - 1 : m \in S => m + 1 \in S
  <2> SUFFICES ASSUME NEW m \in 0 .. n - 1,
                      NEW f, IsText(f, list, m), NEW g, IsOutput(g, list, m)
               PROVE  /\ \E h : IsText(h, list, m + 1)
                      /\ \E h : IsOutput(h, list, m + 1)
    OBVIOUS
  <2>1. IsText([k \in 0 .. m + 1 |-> IF k = m + 1 THEN Extend(f[m], list[m + 1]) ELSE f[k]],
               list, m + 1)
    BY DEF IsText
  <2>2. IsOutput([k \in 0 .. m + 1 |-> IF k = m + 1 THEN Emit(g[m], list[m + 1]) ELSE g[k]],
                 list, m + 1)
    BY DEF IsOutput
  <2> QED
    BY <2>1, <2>2
<1> HIDE DEF S
<1>3. 0 .. n \subseteq S
  BY <1>1, <1>2, IntervalInduction
<1> QED
  BY <1>3 DEF S

LEMMA ExpandIsLast ==
  ASSUME NEW list, Len(list) \in Nat
  PROVE  \E f : IsText(f, list, Len(list)) /\ Expand(list) = f[Len(list)]
<1> DEFINE f == CHOOSE f : IsText(f, list, Len(list))
<1>1. IsText(f, list, Len(list))
  BY FoldsExist
<1>2. Expand(list) = f[Len(list)]
  BY DEF Expand, IsText
<1> QED
  BY <1>1, <1>2

LEMMA EmittedIsLast ==
  ASSUME NEW list, Len(list) \in Nat
  PROVE  \E f : IsOutput(f, list, Len(list)) /\ Emitted(list) = f[Len(list)]
<1> DEFINE f == CHOOSE f : IsOutput(f, list, Len(list))
<1>1. IsOutput(f, list, Len(list))
  BY FoldsExist
<1>2. Emitted(list) = f[Len(list)]
  BY DEF Emitted, IsOutput
<1> QED
  BY <1>1, <1>2

LEMMA NoItems == Expand(<< >>) = << >> /\ Emitted(<< >>) = NoOutput
<1>1. Len(<< >>) = 0
  OBVIOUS
<1>2. PICK f : IsText(f, << >>, 0) /\ Expand(<< >>) = f[0]
  BY <1>1, ExpandIsLast
<1>3. PICK g : IsOutput(g, << >>, 0) /\ Emitted(<< >>) = g[0]
  BY <1>1, EmittedIsLast
<1> QED
  BY <1>2, <1>3 DEF IsText, IsOutput

(* One more item extends the text and the output.                          *)
LEMMA OneMoreItem ==
  ASSUME NEW X, NEW list \in Seq(X), NEW item \in X
  PROVE  /\ Expand(Append(list, item)) = Extend(Expand(list), item)
         /\ Emitted(Append(list, item)) = Emit(Emitted(list), item)
<1> DEFINE more == Append(list, item)
           n == Len(list)
<1>1. /\ n \in Nat /\ Len(more) = n + 1 /\ more[n + 1] = item
      /\ \A k \in 1 .. n : more[k] = list[k]
  BY LenProperties, AppendProperties
<1> HIDE DEF more, n
<1>2. n = Len(list)
  BY DEF n
<1>3. Expand(more) = Extend(Expand(list), item)
  <2>1. PICK f : IsText(f, list, n) /\ Expand(list) = f[n]
    BY <1>1, <1>2, ExpandIsLast
  <2>2. PICK g : IsText(g, more, n + 1) /\ Expand(more) = g[n + 1]
    BY <1>1, ExpandIsLast
  <2> DEFINE S == {k \in 0 .. n : f[k] = g[k]}
  <2>3. 0 \in S
    BY <1>1, <2>1, <2>2 DEF IsText
  <2>4. \A k \in 0 .. n - 1 : k \in S => k + 1 \in S
    <3> SUFFICES ASSUME NEW k \in 0 .. n - 1, f[k] = g[k]
                 PROVE  f[k + 1] = g[k + 1]
      BY <1>1
    <3>1. f[k + 1] = Extend(f[k], list[k + 1])
      BY <1>1, <2>1, TextNext
    <3>2. g[k + 1] = Extend(g[k], more[k + 1])
      BY <1>1, <2>2, TextNext
    <3>3. more[k + 1] = list[k + 1]
      BY <1>1
    <3> QED
      BY <3>1, <3>2, <3>3
  <2> HIDE DEF S
  <2>5. n \in S
    <3>1. n \in Nat
      BY <1>1
    <3>2. 0 .. n \subseteq S
      BY <2>3, <2>4, <3>1, IntervalInduction
    <3> QED
      BY <3>1, <3>2
  <2>6. g[n + 1] = Extend(g[n], more[n + 1])
    BY <1>1, <2>2, TextNext
  <2> QED
    BY <1>1, <2>1, <2>2, <2>5, <2>6 DEF S
<1>4. Emitted(more) = Emit(Emitted(list), item)
  <2>1. PICK f : IsOutput(f, list, n) /\ Emitted(list) = f[n]
    BY <1>1, <1>2, EmittedIsLast
  <2>2. PICK g : IsOutput(g, more, n + 1) /\ Emitted(more) = g[n + 1]
    BY <1>1, EmittedIsLast
  <2> DEFINE S == {k \in 0 .. n : f[k] = g[k]}
  <2>3. 0 \in S
    BY <1>1, <2>1, <2>2 DEF IsOutput
  <2>4. \A k \in 0 .. n - 1 : k \in S => k + 1 \in S
    <3> SUFFICES ASSUME NEW k \in 0 .. n - 1, f[k] = g[k]
                 PROVE  f[k + 1] = g[k + 1]
      BY <1>1
    <3>1. f[k + 1] = Emit(f[k], list[k + 1])
      BY <1>1, <2>1, OutputNext
    <3>2. g[k + 1] = Emit(g[k], more[k + 1])
      BY <1>1, <2>2, OutputNext
    <3>3. more[k + 1] = list[k + 1]
      BY <1>1
    <3> QED
      BY <3>1, <3>2, <3>3
  <2> HIDE DEF S
  <2>5. n \in S
    <3>1. n \in Nat
      BY <1>1
    <3>2. 0 .. n \subseteq S
      BY <2>3, <2>4, <3>1, IntervalInduction
    <3> QED
      BY <3>1, <3>2
  <2>6. g[n + 1] = Emit(g[n], more[n + 1])
    BY <1>1, <2>2, OutputNext
  <2> QED
    BY <1>1, <2>1, <2>2, <2>5, <2>6 DEF S
<1> QED
  BY <1>3, <1>4 DEF more

(* An item that fits its text keeps a list well formed.                    *)
LEMMA WellFormedAppend ==
  ASSUME NEW X, NEW list \in Seq(X), NEW item \in X, WellFormedItems(list),
         item.kind = "run" => RunFits(Expand(list), item)
  PROVE  WellFormedItems(Append(list, item))
<1> DEFINE more == Append(list, item)
           n == Len(list)
<1>1. /\ n \in Nat /\ DOMAIN more = 1 .. n + 1 /\ DOMAIN list = 1 .. n /\ more[n + 1] = item
      /\ \A k \in 1 .. n : more[k] = list[k]
  BY LenProperties, AppendProperties
<1>2. \A k \in 1 .. n : SubSeq(more, 1, k - 1) = SubSeq(list, 1, k - 1)
  OBVIOUS
<1>3. SubSeq(more, 1, n) = list
  OBVIOUS
<1> HIDE DEF more, n
<1>4. \A k \in 1 .. n : more[k].kind = "run" => RunFits(Expand(SubSeq(more, 1, k - 1)), more[k])
  BY <1>1, <1>2 DEF WellFormedItems
<1>5. (n + 1) - 1 = n
  BY <1>1
<1>6. more[n + 1].kind = "run" => RunFits(Expand(SubSeq(more, 1, (n + 1) - 1)), more[n + 1])
  BY <1>1, <1>3, <1>5
<1>7. \A k \in 1 .. n + 1 : k \in 1 .. n \/ k = n + 1
  BY <1>1
<1> QED
  BY <1>1, <1>4, <1>6, <1>7 DEF WellFormedItems, more

(* Copying from f back, once around, reads the same as from f earlier.     *)
LEMMA RemainderBack ==
  ASSUME NEW f \in Nat \ {0}, NEW j \in Nat
  PROVE  /\ j % f \in 0 .. f - 1
         /\ j < f => j % f = j
         /\ j >= f => (j - f) % f = j % f
<1> DEFINE q == j \div f
           r == j % f
<1>1. q \in Nat /\ r \in 0 .. f - 1 /\ j = f * q + r
  OBVIOUS
<1>2. \A k \in Nat, m \in 0 .. f - 1 : (f * k + m) % f = m
  OBVIOUS
<1>3. ASSUME j < f PROVE j % f = j
  <2>1. (f * 0 + j) % f = j
    BY <1>2, <1>3
  <2> QED
    BY <2>1
<1>4. ASSUME j >= f PROVE (j - f) % f = r
  <2> HIDE DEF q, r
  <2>1. q # 0
    BY <1>1, <1>4
  <2>2. q - 1 \in Nat /\ j - f = f * (q - 1) + r
    BY <1>1, <2>1
  <2>3. (f * (q - 1) + r) % f = r
    BY <1>1, <1>2, <2>2
  <2> QED
    BY <2>2, <2>3
<1> QED
  BY <1>1, <1>3, <1>4

-----------------------------------------------------------------------------
(* What a stream is made of: the items, the text before each and the       *)
(* output before each.                                                     *)

TextOf(l, k) == Expand(SubSeq(l, 1, k))
OutputOf(l, k) == Emitted(SubSeq(l, 1, k))

LEMMA PrefixEnds ==
  ASSUME NEW X, NEW l \in Seq(X)
  PROVE  /\ TextOf(l, 0) = << >> /\ OutputOf(l, 0) = NoOutput
         /\ TextOf(l, Len(l)) = Expand(l) /\ OutputOf(l, Len(l)) = Emitted(l)
<1>1. SubSeq(l, 1, 0) = << >> /\ SubSeq(l, 1, Len(l)) = l
  OBVIOUS
<1> QED
  BY <1>1, NoItems DEF TextOf, OutputOf

LEMMA PrefixGrows ==
  ASSUME NEW X, NEW l \in Seq(X), NEW k \in 0 .. Len(l) - 1
  PROVE  /\ TextOf(l, k + 1) = Extend(TextOf(l, k), l[k + 1])
         /\ OutputOf(l, k + 1) = Emit(OutputOf(l, k), l[k + 1])
<1>1. /\ SubSeq(l, 1, k) \in Seq(X) /\ l[k + 1] \in X
      /\ SubSeq(l, 1, k + 1) = Append(SubSeq(l, 1, k), l[k + 1])
  OBVIOUS
<1> QED
  BY <1>1, OneMoreItem DEF TextOf, OutputOf

(* A run of a well-formed list fits the text before it.                    *)
LEMMA PrefixFits ==
  ASSUME NEW X, NEW l \in Seq(X), WellFormedItems(l), NEW k \in 0 .. Len(l) - 1,
         l[k + 1].kind = "run"
  PROVE  RunFits(TextOf(l, k), l[k + 1])
<1>1. k + 1 \in DOMAIN l /\ (k + 1) - 1 = k
  BY LenProperties
<1> QED
  BY <1>1 DEF WellFormedItems, TextOf

(* What one item adds to a text.                                           *)
LEMMA LiteralExtends ==
  ASSUME NEW X, NEW text \in Seq(X), NEW item, item.kind = "literal", item.byte \in X
  PROVE  /\ Extend(text, item) \in Seq(X)
         /\ Len(Extend(text, item)) = Len(text) + 1
         /\ \A p \in 1 .. Len(text) : Extend(text, item)[p] = text[p]
         /\ Extend(text, item)[Len(text) + 1] = item.byte
<1>1. Extend(text, item) = Append(text, item.byte)
  BY DEF Extend
<1> QED
  BY <1>1, AppendProperties

LEMMA RunExtends ==
  ASSUME Nibble \in Nat, NEW X, NEW text \in Seq(X),
         NEW item, item.kind = "run", RunFits(text, item)
  PROVE  /\ Extend(text, item) \in Seq(X)
         /\ Len(Extend(text, item)) = Len(text) + item.len
         /\ \A p \in 1 .. Len(text) : Extend(text, item)[p] = text[p]
         /\ \A j \in 0 .. item.len - 1 :
              Extend(text, item)[Len(text) + j + 1]
                = text[Len(text) - item.off + 1 + (j % item.off)]
<1> DEFINE at(k) == Len(text) - item.off + 1 + ((k - 1) % item.off)
           copy == [k \in 1 .. item.len |-> text[at(k)]]
<1>1. /\ Len(text) \in Nat /\ item.off \in 1 .. Len(text) /\ item.len \in Nat
      /\ Nibble * Nibble \in Nat
  BY LenProperties DEF RunFits, ByteCount
<1>2. \A k \in 1 .. item.len : at(k) \in 1 .. Len(text)
  <2> SUFFICES ASSUME NEW k \in 1 .. item.len
               PROVE  at(k) \in 1 .. Len(text)
    OBVIOUS
  <2>1. k - 1 \in Nat /\ item.off \in Nat \ {0}
    BY <1>1
  <2> DEFINE r == (k - 1) % item.off
  <2>2. r \in 0 .. item.off - 1
    BY <2>1, RemainderBack
  <2>3. at(k) = Len(text) - item.off + 1 + r
    OBVIOUS
  <2> HIDE DEF r, at
  <2> QED
    BY <1>1, <2>2, <2>3
<1>3. \A k \in 1 .. item.len : text[at(k)] \in X
  BY <1>2, ElementOfSeq
<1> HIDE DEF at
<1>4. copy \in Seq(X) /\ Len(copy) = item.len /\ \A k \in 1 .. item.len : copy[k] = text[at(k)]
  BY <1>1, <1>3
<1>5. Extend(text, item) = text \o copy
  BY DEF Extend, at
<1> HIDE DEF copy
<1>6. /\ text \o copy \in Seq(X) /\ Len(text \o copy) = Len(text) + item.len
      /\ \A p \in 1 .. Len(text) + item.len :
           (text \o copy)[p] = IF p <= Len(text) THEN text[p] ELSE copy[p - Len(text)]
  BY <1>4, ConcatProperties
<1>7. \A j \in 0 .. item.len - 1 :
        /\ Len(text) + j + 1 \in 1 .. Len(text) + item.len /\ ~ Len(text) + j + 1 <= Len(text)
        /\ (Len(text) + j + 1) - Len(text) = j + 1 /\ j + 1 \in 1 .. item.len
        /\ (j + 1) - 1 = j
  BY <1>1
<1>8. \A j \in 0 .. item.len - 1 :
        (text \o copy)[Len(text) + j + 1] = text[Len(text) - item.off + 1 + (j % item.off)]
  BY <1>4, <1>6, <1>7 DEF at
<1>9. \A p \in 1 .. Len(text) : (text \o copy)[p] = text[p]
  BY <1>1, <1>6
<1> QED
  BY <1>5, <1>6, <1>8, <1>9

(* Every item makes the text longer and keeps what there was.              *)
Follows(longer, text) ==
  Len(longer) > Len(text) /\ \A p \in 1 .. Len(text) : longer[p] = text[p]

LEMMA TextsTyped ==
  ASSUME Nibble \in Nat, NEW l \in Seq(Item), WellFormedItems(l), NEW n \in 0 .. Len(l)
  PROVE  /\ TextOf(l, n) \in Seq(ByteValue)
         /\ n < Len(l) => Follows(TextOf(l, n + 1), TextOf(l, n))
<1> DEFINE S == {k \in 0 .. Len(l) : TextOf(l, k) \in Seq(ByteValue)}
<1>1. 0 \in S
  <2>1. TextOf(l, 0) = << >> /\ Len(l) \in Nat /\ << >> \in Seq(ByteValue)
    BY PrefixEnds, LenProperties, EmptySeq
  <2>2. TextOf(l, 0) \in Seq(ByteValue) /\ 0 \in 0 .. Len(l)
    <3>1. TextOf(l, 0) \in Seq(ByteValue)
      BY <2>1, Zenon
    <3> QED
      BY <2>1, <3>1
  <2> QED
    BY <2>2, Zenon
<1>2. ASSUME NEW k \in 0 .. Len(l) - 1, TextOf(l, k) \in Seq(ByteValue)
      PROVE  /\ TextOf(l, k + 1) \in Seq(ByteValue)
             /\ Follows(TextOf(l, k + 1), TextOf(l, k))
  <2> DEFINE text == TextOf(l, k)
             item == l[k + 1]
  <2>1. TextOf(l, k + 1) = Extend(text, item)
    BY PrefixGrows
  <2>2. item \in Item /\ Len(text) \in Nat
    BY <1>2, ElementOfSeq, LenProperties
  <2>3. item.kind = "run" => RunFits(text, item)
    BY PrefixFits
  <2>4. text \in Seq(ByteValue)
    BY <1>2
  <2> HIDE DEF text, item
  <2>5. CASE item.kind = "literal"
    <3>1. item.byte \in ByteValue
      BY <2>2, <2>5 DEF Item
    <3>2. /\ Extend(text, item) \in Seq(ByteValue) /\ Len(Extend(text, item)) = Len(text) + 1
          /\ \A p \in 1 .. Len(text) : Extend(text, item)[p] = text[p]
      BY <2>4, <2>5, <3>1, LiteralExtends
    <3> QED
      BY <2>1, <2>2, <3>2 DEF Follows, text
  <2>6. CASE item.kind = "run"
    <3>1. /\ Extend(text, item) \in Seq(ByteValue)
          /\ Len(Extend(text, item)) = Len(text) + item.len
          /\ \A p \in 1 .. Len(text) : Extend(text, item)[p] = text[p]
      BY <2>3, <2>4, <2>6, RunExtends
    <3>2. item.len \in Nat /\ item.len > 0
      BY <2>2, <2>3, <2>6 DEF Item, RunFits
    <3> QED
      BY <2>1, <2>2, <3>1, <3>2 DEF Follows, text
  <2> QED
    BY <2>2, <2>5, <2>6 DEF Item
<1>3. \A k \in 0 .. Len(l) - 1 : k \in S => k + 1 \in S
  BY <1>2
<1> HIDE DEF S
<1>4. Len(l) \in Nat /\ 0 .. Len(l) \subseteq S
  BY <1>1, <1>3, IntervalInduction, LenProperties
<1>5. n \in S /\ (n < Len(l) => n \in 0 .. Len(l) - 1)
  BY <1>4
<1> QED
  BY <1>2, <1>5 DEF S

(* Only after the last item is the text complete.                          *)
LEMMA TextsGrow ==
  ASSUME Nibble \in Nat, NEW l \in Seq(Item), WellFormedItems(l), NEW n \in 0 .. Len(l)
  PROVE  /\ Len(TextOf(l, n)) <= Len(Expand(l))
         /\ n < Len(l) => Len(TextOf(l, n)) < Len(Expand(l))
<1> DEFINE size(k) == Len(TextOf(l, k))
           S == {m \in 0 .. Len(l) : size(Len(l) - m) <= size(Len(l))}
<1>1. Len(l) \in Nat /\ \A k \in 0 .. Len(l) : size(k) \in Nat
  BY TextsTyped, LenProperties
<1>2. \A k \in 0 .. Len(l) - 1 : size(k) < size(k + 1)
  BY <1>1, TextsTyped DEF Follows
<1>3. Expand(l) = TextOf(l, Len(l))
  BY PrefixEnds
<1> HIDE DEF size
<1>4. 0 \in S
  BY <1>1
<1>5. \A m \in 0 .. Len(l) - 1 : m \in S => m + 1 \in S
  <2> SUFFICES ASSUME NEW m \in 0 .. Len(l) - 1, size(Len(l) - m) <= size(Len(l))
               PROVE  size(Len(l) - (m + 1)) <= size(Len(l))
    BY <1>1
  <2>1. /\ Len(l) - (m + 1) \in 0 .. Len(l) - 1 /\ (Len(l) - (m + 1)) + 1 = Len(l) - m
        /\ Len(l) - m \in 0 .. Len(l) /\ Len(l) - (m + 1) \in 0 .. Len(l)
    BY <1>1
  <2>2. size(Len(l) - (m + 1)) < size(Len(l) - m)
    BY <1>2, <2>1
  <2>3. size(Len(l) - (m + 1)) \in Nat /\ size(Len(l) - m) \in Nat /\ size(Len(l)) \in Nat
    BY <1>1, <2>1
  <2> QED
    BY <2>2, <2>3
<1> HIDE DEF S
<1>6. \A m \in 0 .. Len(l) : m \in S
  BY <1>1, <1>4, <1>5, IntervalInduction
<1>7. \A k \in 0 .. Len(l) : size(k) <= size(Len(l))
  <2> SUFFICES ASSUME NEW k \in 0 .. Len(l)
               PROVE  size(k) <= size(Len(l))
    OBVIOUS
  <2>1. Len(l) - k \in 0 .. Len(l) /\ Len(l) - (Len(l) - k) = k
    BY <1>1
  <2>2. size(Len(l) - (Len(l) - k)) <= size(Len(l))
    BY <1>6, <2>1 DEF S
  <2> QED
    BY <2>1, <2>2
<1>8. ASSUME n < Len(l)
      PROVE  size(n) < size(Len(l))
  <2>1. n \in 0 .. Len(l) - 1 /\ n + 1 \in 0 .. Len(l)
    BY <1>1, <1>8
  <2>2. size(n) < size(n + 1) /\ size(n + 1) <= size(Len(l))
    BY <1>2, <1>7, <2>1
  <2> QED
    BY <1>1, <2>1, <2>2
<1> QED
  BY <1>3, <1>7, <1>8 DEF size

-----------------------------------------------------------------------------
(* The control bytes of the output.  bit[j] is the bit of the item that    *)
(* follows j others under a control byte, n the items it has bits for.     *)
ControlBits(bit, n) ==
  /\ Nibble \in Nat /\ Nibble >= 2
  /\ n \in Nat \ {0}
  /\ \A k \in 0 .. n : bit[k] \in Nat \ {0}
  /\ bit[0] = 1 /\ \A k \in 0 .. n - 1 : bit[k + 1] = 2 * bit[k]
  /\ bit[n] = ByteCount

LEMMA BitsInByte ==
  ASSUME NEW bit, NEW n, ControlBits(bit, n), NEW k \in 0 .. n - 1
  PROVE  /\ bit[k] < ByteCount /\ bit[k + 1] <= ByteCount
         /\ Shift(bit[k]) = IF k + 1 = n THEN 0 ELSE bit[k + 1]
<1> DEFINE S == {m \in 0 .. n : bit[n - m] <= ByteCount}
<1>1. n \in Nat /\ ByteCount \in Nat \ {0} /\ \A i \in 0 .. n : bit[i] \in Nat \ {0}
  BY DEF ControlBits, ByteCount
<1>2. 0 \in S
  BY <1>1 DEF ControlBits
<1>3. \A m \in 0 .. n - 1 : m \in S => m + 1 \in S
  <2> SUFFICES ASSUME NEW m \in 0 .. n - 1, bit[n - m] <= ByteCount
               PROVE  bit[n - (m + 1)] <= ByteCount
    BY <1>1
  <2>1. /\ n - (m + 1) \in 0 .. n - 1 /\ n - (m + 1) \in 0 .. n /\ (n - (m + 1)) + 1 = n - m
        /\ n - m \in 0 .. n
    BY <1>1
  <2>2. bit[n - m] = 2 * bit[n - (m + 1)]
    BY <2>1 DEF ControlBits
  <2> QED
    BY <1>1, <2>1, <2>2
<1> HIDE DEF S
<1>4. \A m \in 0 .. n : m \in S
  BY <1>1, <1>2, <1>3, IntervalInduction
<1>5. /\ n - (k + 1) \in 0 .. n /\ n - (n - (k + 1)) = k + 1
      /\ k \in 0 .. n /\ k + 1 \in 0 .. n
  BY <1>1
<1>6. bit[k + 1] <= ByteCount
  BY <1>4, <1>5 DEF S
<1>7. bit[k + 1] = 2 * bit[k] /\ bit[k] \in Nat \ {0}
  BY <1>1, <1>5 DEF ControlBits
<1>8. bit[k] < ByteCount
  BY <1>1, <1>6, <1>7
<1>9. CASE k + 1 = n
  <2>1. bit[k] * 2 = ByteCount
    BY <1>7, <1>9 DEF ControlBits
  <2>2. ByteCount % ByteCount = 0
    <3>1. \A c \in Nat \ {0} : c % c = 0
      OBVIOUS
    <3> QED
      BY <1>1, <3>1
  <2> QED
    BY <1>6, <1>8, <1>9, <2>1, <2>2 DEF Shift
<1>10. CASE k + 1 # n
  <2>1. k + 1 \in 0 .. n - 1 /\ (k + 1) + 1 \in 0 .. n
    BY <1>1, <1>10
  <2>2. bit[(k + 1) + 1] = 2 * bit[k + 1]
    BY <2>1 DEF ControlBits
  <2>3. bit[(k + 1) + 1] <= ByteCount
    <3>1. n - ((k + 1) + 1) \in 0 .. n /\ n - (n - ((k + 1) + 1)) = (k + 1) + 1
      BY <1>1, <2>1
    <3> QED
      BY <1>4, <3>1 DEF S
  <2>4. bit[k] * 2 = bit[k + 1] /\ bit[k + 1] < ByteCount /\ bit[k + 1] \in Nat
    BY <1>1, <1>5, <1>7, <2>2, <2>3
  <2>5. \A c \in Nat \ {0}, b \in Nat : b < c => b % c = b
    OBVIOUS
  <2>6. Shift(bit[k]) = bit[k + 1]
    BY <1>1, <2>4, <2>5 DEF Shift
  <2> QED
    BY <1>6, <1>8, <1>10, <2>6
<1> QED
  BY <1>9, <1>10

-----------------------------------------------------------------------------
(* The bytes of an item, and what a reader of a tag computes from them.    *)

ItemBytes(item) == IF item.kind = "literal" THEN <<item.byte>> ELSE TagBytes(item.len, item.off)

(* What the length and offset of a run have room for.                      *)
Taggable(item) ==
  /\ item.len \in 3 .. Nibble + 1 + ByteCount
  /\ item.off \in 1 .. Nibble * ByteCount - 2

LEMMA Digits ==
  ASSUME NEW b \in Nat \ {0}, NEW q \in Nat, NEW x \in 0 .. b - 1
  PROVE  /\ q * b \in Nat
         /\ (q * b + x) % b = x /\ (q * b + x) \div b = q
         /\ q < b => q * b + x \in 0 .. b * b - 1
<1>1. q * b \in Nat /\ q * b = b * q
  OBVIOUS
<1>2. (b * q + x) % b = x
  OBVIOUS
<1>3. (b * q + x) \div b = q
  OBVIOUS
<1>4. ASSUME q < b
      PROVE  q * b + x \in 0 .. b * b - 1
  <2>1. \A k \in Nat : q * b + k * b = (q + k) * b
    OBVIOUS
  <2>2. PICK k \in Nat : b = q + k + 1
    <3>1. b - q - 1 \in Nat /\ b = q + (b - q - 1) + 1
      BY <1>4
    <3> QED
      BY <3>1
  <2>3. b * b = q * b + k * b + b /\ k * b \in Nat
    <3>1. (q + k + 1) * b = q * b + k * b + b
      OBVIOUS
    <3> QED
      BY <2>2, <3>1
  <2> QED
    BY <1>1, <2>3
<1> QED
  BY <1>1, <1>2, <1>3, <1>4

(* Offset and length share the first byte of a tag, which a reader takes   *)
(* apart again; only the largest short length announces a third byte.      *)
LEMMA TagReads ==
  ASSUME Nibble \in Nat, Nibble >= 2, NEW item \in Item, item.kind = "run", Taggable(item)
  PROVE  LET b == ItemBytes(item)
             short == b[1] % Nibble
         IN  /\ b \in Seq(ByteValue)
             /\ (b[1] \div Nibble) * ByteCount + b[2] = item.off
             /\ short = Nibble - 1 => Len(b) = 3 /\ short + 3 + b[3] = item.len
             /\ short # Nibble - 1 => Len(b) = 2 /\ short + 3 = item.len
<1> DEFINE q == item.off \div ByteCount
           low == item.off % ByteCount
           b == ItemBytes(item)
<1>1. /\ item.off \in Nat /\ item.len \in Nat /\ ByteCount \in Nat \ {0}
      /\ ByteCount = Nibble * Nibble
      /\ item.len >= 3 /\ item.len <= Nibble + 1 + ByteCount
      /\ item.off < Nibble * ByteCount
  <2>1. \A m \in Nat : m >= 2 => m * m \in Nat \ {0} /\ m * (m * m) \in Nat
    OBVIOUS
  <2>2. ByteCount \in Nat \ {0} /\ Nibble * ByteCount \in Nat
    BY <2>1 DEF ByteCount
  <2> QED
    BY <2>2 DEF Item, Taggable, ByteCount
<1>2. q \in Nat /\ low \in 0 .. ByteCount - 1 /\ item.off = q * ByteCount + low
  <2>1. \A m \in Nat, c \in Nat \ {0} :
          m \div c \in Nat /\ m % c \in 0 .. c - 1 /\ m = (m \div c) * c + (m % c)
    OBVIOUS
  <2> QED
    BY <1>1, <2>1
<1> HIDE DEF q, low
<1>3. q < Nibble
  <2>1. \A m \in Nat, c \in Nat : m >= Nibble => m * c >= Nibble * c
    OBVIOUS
  <2>2. q >= Nibble => item.off >= Nibble * ByteCount
    <3>1. q >= Nibble => q * ByteCount >= Nibble * ByteCount
      BY <1>1, <1>2, <2>1
    <3>2. q * ByteCount \in Nat /\ Nibble * ByteCount \in Nat
      <4>1. \A m, c \in Nat : m * c \in Nat
        OBVIOUS
      <4> QED
        BY <1>1, <1>2, <4>1
    <3> QED
      BY <1>1, <1>2, <3>1, <3>2
  <2> QED
    BY <1>1, <1>2, <2>2
<1>4. ASSUME NEW x \in 0 .. Nibble - 1
      PROVE  /\ q * Nibble + x \in ByteValue /\ low \in ByteValue
             /\ (q * Nibble + x) % Nibble = x /\ (q * Nibble + x) \div Nibble = q
  <2>1. Nibble \in Nat \ {0}
    OBVIOUS
  <2>2. /\ (q * Nibble + x) % Nibble = x /\ (q * Nibble + x) \div Nibble = q
        /\ q * Nibble + x \in 0 .. Nibble * Nibble - 1
    BY <1>2, <1>3, <2>1, Digits, Zenon
  <2> QED
    BY <1>1, <1>2, <2>2 DEF ByteValue
<1>5. b = IF item.len > Nibble + 1
            THEN <<q * Nibble + (Nibble - 1), low, item.len - (Nibble + 2)>>
            ELSE <<q * Nibble + (item.len - 3), low>>
  BY DEF ItemBytes, TagBytes, q, low
<1> HIDE DEF b
<1>6. CASE item.len > Nibble + 1
  <2>1. Nibble - 1 \in 0 .. Nibble - 1 /\ item.len - (Nibble + 2) \in ByteValue
    BY <1>1, <1>6 DEF ByteValue
  <2>2. PICK b1 \in ByteValue, b2 \in ByteValue, b3 \in ByteValue :
          /\ b1 = q * Nibble + (Nibble - 1) /\ b2 = low /\ b3 = item.len - (Nibble + 2)
          /\ b1 % Nibble = Nibble - 1 /\ b1 \div Nibble = q
    BY <1>4, <2>1
  <2>3. b = <<b1, b2, b3>>
    BY <1>5, <1>6, <2>2
  <2>4. /\ b \in Seq(ByteValue) /\ Len(b) = 3
        /\ b[1] = b1 /\ b[2] = b2 /\ b[3] = b3
    BY <2>3
  <2>5. (Nibble - 1) + 3 + b3 = item.len
    BY <1>1, <2>2
  <2> QED
    BY <1>2, <2>2, <2>4, <2>5 DEF b
<1>7. CASE ~ item.len > Nibble + 1
  <2>1. item.len - 3 \in 0 .. Nibble - 1 /\ item.len - 3 # Nibble - 1
    BY <1>1, <1>7
  <2>2. PICK b1 \in ByteValue, b2 \in ByteValue :
          /\ b1 = q * Nibble + (item.len - 3) /\ b2 = low
          /\ b1 % Nibble = item.len - 3 /\ b1 \div Nibble = q
    BY <1>4, <2>1
  <2>3. b = <<b1, b2>>
    BY <1>5, <1>7, <2>2
  <2>4. b \in Seq(ByteValue) /\ Len(b) = 2 /\ b[1] = b1 /\ b[2] = b2
    BY <2>3
  <2>5. (item.len - 3) + 3 = item.len
    BY <1>1
  <2> QED
    BY <1>2, <2>1, <2>2, <2>4, <2>5 DEF b
<1> QED
  BY <1>6, <1>7

-----------------------------------------------------------------------------
(* The output state in which j items are under the current control byte.   *)
OutputState == [buf: Seq(ByteValue), ctrlp: Nat, ctrlb: Nat, ctrl: Nat]

Under(o, j, bit, n) ==
  /\ o \in OutputState
  /\ j \in 0 .. n
  /\ o.ctrlp <= Len(o.buf)
  /\ o.ctrlp = 0 => o = NoOutput /\ j = n
  /\ o.ctrl = IF j = n THEN 0 ELSE bit[j]
  /\ o.ctrlb < bit[j]

LEMMA NothingUnder ==
  ASSUME NEW bit, NEW n, ControlBits(bit, n)
  PROVE  Under(NoOutput, n, bit, n)
<1>1. << >> \in Seq(ByteValue) /\ Len(<< >>) = 0
  BY EmptySeq
<1>2. n \in 0 .. n /\ 0 < bit[n]
  BY DEF ControlBits
<1>3. NoOutput \in OutputState
  BY <1>1 DEF NoOutput, OutputState
<1> QED
  BY <1>1, <1>2, <1>3 DEF Under, NoOutput

(* The control byte stored, everything else as it was.                     *)
LEMMA ControlWritten ==
  ASSUME NEW bit, NEW n, ControlBits(bit, n), NEW o, NEW j, Under(o, j, bit, n)
  PROVE  /\ WriteControl(o) \in Seq(ByteValue) /\ Len(WriteControl(o)) = Len(o.buf)
         /\ \A p \in 1 .. Len(o.buf) : p # o.ctrlp => WriteControl(o)[p] = o.buf[p]
         /\ o.ctrlp # 0 => o.ctrlp \in 1 .. Len(o.buf) /\ WriteControl(o)[o.ctrlp] = o.ctrlb
<1>1. /\ o.buf \in Seq(ByteValue) /\ Len(o.buf) \in Nat /\ o.ctrlp \in Nat /\ o.ctrlb \in Nat
      /\ o.ctrlp <= Len(o.buf)
  BY LenProperties DEF Under, OutputState
<1>2. o.ctrlb \in ByteValue
  <2>1. n \in Nat /\ j \in 0 .. n /\ ByteCount \in Nat /\ o.ctrlb < bit[j] /\ bit[n] = ByteCount
    BY DEF Under, ControlBits, ByteCount
  <2>2. j # n => j \in 0 .. n - 1 /\ bit[j] < ByteCount /\ bit[j] \in Nat
    <3>1. j # n => j \in 0 .. n - 1
      BY <2>1
    <3>2. j \in 0 .. n - 1 => bit[j] < ByteCount
      BY BitsInByte
    <3>3. bit[j] \in Nat
      BY <2>1 DEF ControlBits
    <3> QED
      BY <3>1, <3>2, <3>3
  <2> QED
    BY <1>1, <2>1, <2>2 DEF ByteValue
<1>3. CASE o.ctrlp = 0
  <2>1. WriteControl(o) = o.buf
    BY <1>3 DEF WriteControl
  <2> QED
    BY <1>1, <1>3, <2>1
<1>4. CASE o.ctrlp # 0
  <2>1. WriteControl(o) = [o.buf EXCEPT ![o.ctrlp] = o.ctrlb] /\ o.ctrlp \in 1 .. Len(o.buf)
    BY <1>1, <1>4 DEF WriteControl
  <2>2. PICK s \in Seq(ByteValue), p \in 1 .. Len(o.buf), b \in ByteValue :
          s = o.buf /\ p = o.ctrlp /\ b = o.ctrlb
    BY <1>1, <1>2, <2>1
  <2>3. /\ [s EXCEPT ![p] = b] \in Seq(ByteValue) /\ Len([s EXCEPT ![p] = b]) = Len(s)
        /\ \A i \in 1 .. Len(s) : [s EXCEPT ![p] = b][i] = IF i = p THEN b ELSE s[i]
    BY <2>2, ExceptSeq
  <2>4. WriteControl(o) = [s EXCEPT ![p] = b]
    BY <2>1, <2>2
  <2> QED
    BY <2>1, <2>2, <2>3, <2>4
<1> QED
  BY <1>3, <1>4

(* The items under the control byte of the next one.                       *)
Before(j, n) == IF j = n THEN 0 ELSE j

LEMMA ControlOpens ==
  ASSUME NEW bit, NEW n, ControlBits(bit, n), NEW o, NEW j, Under(o, j, bit, n)
  PROVE  /\ Under(OutCtrl(o), Before(j, n), bit, n) /\ OutCtrl(o).ctrlp # 0
         /\ Before(j, n) \in 0 .. n - 1 /\ OutCtrl(o).ctrl = bit[Before(j, n)]
         /\ j # n => OutCtrl(o) = o
         /\ j = n => OutCtrl(o) = [buf |-> Append(WriteControl(o), 0),
                                   ctrlp |-> Len(o.buf) + 1, ctrlb |-> 0, ctrl |-> 1]
<1>1. /\ n \in Nat \ {0} /\ j \in 0 .. n /\ \A k \in 0 .. n : bit[k] \in Nat \ {0}
      /\ bit[0] = 1 /\ o.ctrl = IF j = n THEN 0 ELSE bit[j]
  BY DEF Under, ControlBits
<1>2. CASE j = n
  <2> DEFINE w == WriteControl(o)
             c == [buf |-> Append(w, 0), ctrlp |-> Len(o.buf) + 1, ctrlb |-> 0, ctrl |-> 1]
  <2>1. w \in Seq(ByteValue) /\ Len(w) = Len(o.buf) /\ Len(w) \in Nat
    BY ControlWritten, LenProperties
  <2>2. OutCtrl(o) = c
    BY <1>1, <1>2 DEF OutCtrl
  <2>3. 0 \in ByteValue
    BY DEF ByteValue, ControlBits, ByteCount
  <2> HIDE DEF w
  <2>4. Append(w, 0) \in Seq(ByteValue) /\ Len(Append(w, 0)) = Len(w) + 1
    BY <2>1, <2>3, AppendProperties
  <2>5. c \in OutputState
    BY <2>1, <2>4 DEF OutputState
  <2>6. Before(j, n) = 0 /\ 0 \in 0 .. n - 1 /\ 0 \in 0 .. n /\ 0 # n
    BY <1>1, <1>2 DEF Before
  <2>7. Under(c, 0, bit, n)
    <3>1. c.ctrlp = Len(w) + 1 /\ c.ctrl = 1 /\ c.ctrlb = 0 /\ Len(c.buf) = Len(w) + 1
      BY <2>1, <2>4
    <3> HIDE DEF c
    <3> QED
      BY <1>1, <2>1, <2>5, <2>6, <3>1 DEF Under
  <2>8. c.ctrlp # 0 /\ c.ctrl = bit[0]
    BY <1>1, <2>1
  <2> QED
    BY <1>2, <2>2, <2>6, <2>7, <2>8 DEF w
<1>3. CASE j # n
  <2>1. OutCtrl(o) = o /\ Before(j, n) = j /\ j \in 0 .. n - 1
    <3>1. j \in 0 .. n - 1 /\ bit[j] # 0
      BY <1>1, <1>3
    <3> QED
      BY <1>1, <1>3, <3>1 DEF OutCtrl, Before
  <2>2. o.ctrlp # 0
    BY <1>3 DEF Under
  <2> QED
    BY <1>1, <1>3, <2>1, <2>2
<1> QED
  BY <1>2, <1>3

IsRun(item) == IF item.kind = "run" THEN 1 ELSE 0

(* An item written: its bytes after the control byte's, its bit in it.     *)
Put(o, item, bytes, c, b) ==
  /\ o \in OutputState
  /\ o.buf = c.buf \o bytes
  /\ o.ctrlp = c.ctrlp
  /\ o.ctrlb = c.ctrlb + IsRun(item) * b
  /\ o.ctrl = Shift(b)

LEMMA BytesTyped ==
  ASSUME Nibble \in Nat, Nibble >= 2, NEW item \in Item, item.kind = "run" => Taggable(item)
  PROVE  ItemBytes(item) \in Seq(ByteValue) /\ Len(ItemBytes(item)) \in 1 .. 3
<1>1. CASE item.kind = "run"
  BY <1>1, TagReads
<1>2. CASE item.kind = "literal"
  <2>1. ItemBytes(item) = <<item.byte>> /\ item.byte \in ByteValue
    BY <1>2 DEF ItemBytes, Item
  <2> QED
    BY <2>1
<1> QED
  BY <1>1, <1>2 DEF Item

LEMMA EmitPuts ==
  ASSUME NEW bit, NEW n, ControlBits(bit, n), NEW o, NEW j, Under(o, j, bit, n),
         NEW item \in Item, item.kind = "run" => Taggable(item)
  PROVE  Put(Emit(o, item), item, ItemBytes(item), OutCtrl(o), bit[Before(j, n)])
<1> DEFINE c == OutCtrl(o)
           i == Before(j, n)
           b == bit[i]
<1>1. /\ c \in OutputState /\ c.ctrl = b /\ i \in 0 .. n - 1
      /\ c.buf \in Seq(ByteValue) /\ c.ctrlb \in Nat /\ c.ctrlp \in Nat
  <2>1. Under(c, i, bit, n) /\ c.ctrl = b /\ i \in 0 .. n - 1
    BY ControlOpens
  <2> HIDE DEF c, i, b
  <2> QED
    BY <2>1 DEF Under, OutputState
<1>2. b \in Nat /\ Shift(b) \in Nat
  <2>1. i \in 0 .. n /\ i + 1 \in 0 .. n
    BY <1>1 DEF ControlBits
  <2>2. b \in Nat /\ bit[i + 1] \in Nat
    BY <2>1 DEF ControlBits
  <2> HIDE DEF i
  <2>3. Shift(bit[i]) = IF i + 1 = n THEN 0 ELSE bit[i + 1]
    BY <1>1, BitsInByte
  <2> QED
    BY <2>2, <2>3
<1>3. ItemBytes(item) \in Seq(ByteValue)
  BY BytesTyped DEF ControlBits
<1> HIDE DEF c, b
<1>4. c.buf \o ItemBytes(item) \in Seq(ByteValue)
  BY <1>1, <1>3, ConcatProperties
<1>5. CASE item.kind = "literal"
  <2>1. Emit(o, item) = [c EXCEPT !.buf = Append(@, item.byte), !.ctrl = Shift(@)]
    BY <1>5 DEF Emit, OutLiteral, c
  <2>2. Append(c.buf, item.byte) = c.buf \o ItemBytes(item)
    <3>1. item.byte \in ByteValue /\ ItemBytes(item) = <<item.byte>>
      BY <1>5 DEF Item, ItemBytes
    <3> QED
      BY <1>1, <3>1
  <2>3. Emit(o, item) = [c EXCEPT !.buf = c.buf \o ItemBytes(item), !.ctrl = Shift(b)]
    BY <1>1, <2>1, <2>2 DEF OutputState
  <2>4. c.ctrlb + 0 * b = c.ctrlb /\ IsRun(item) = 0
    BY <1>1, <1>2, <1>5 DEF IsRun
  <2>5. /\ Emit(o, item) \in OutputState /\ Emit(o, item).buf = c.buf \o ItemBytes(item)
        /\ Emit(o, item).ctrlp = c.ctrlp /\ Emit(o, item).ctrlb = c.ctrlb
        /\ Emit(o, item).ctrl = Shift(b)
    BY <1>1, <1>2, <1>4, <2>3 DEF OutputState
  <2> QED
    BY <2>4, <2>5 DEF Put, c, b
<1>6. CASE item.kind = "run"
  <2>1. Emit(o, item) = [c EXCEPT !.ctrlb = @ + c.ctrl, !.ctrl = Shift(@),
                                  !.buf = @ \o TagBytes(item.len, item.off)]
    BY <1>6 DEF Emit, OutTag, c
  <2>2. TagBytes(item.len, item.off) = ItemBytes(item)
    BY <1>6 DEF ItemBytes
  <2>3. Emit(o, item) = [c EXCEPT !.ctrlb = c.ctrlb + b, !.ctrl = Shift(b),
                                  !.buf = c.buf \o ItemBytes(item)]
    BY <1>1, <2>1, <2>2 DEF OutputState
  <2>4. c.ctrlb + 1 * b = c.ctrlb + b /\ c.ctrlb + b \in Nat /\ IsRun(item) = 1
    BY <1>1, <1>2, <1>6 DEF IsRun
  <2>5. /\ Emit(o, item) \in OutputState /\ Emit(o, item).buf = c.buf \o ItemBytes(item)
        /\ Emit(o, item).ctrlp = c.ctrlp /\ Emit(o, item).ctrlb = c.ctrlb + b
        /\ Emit(o, item).ctrl = Shift(b)
    BY <1>1, <1>2, <1>4, <2>3, <2>4 DEF OutputState
  <2> QED
    BY <2>4, <2>5 DEF Put, c, b
<1> QED
  BY <1>5, <1>6 DEF Item

LEMMA PutCounts ==
  ASSUME NEW bit, NEW n, ControlBits(bit, n), NEW c, NEW i \in 0 .. n - 1, Under(c, i, bit, n),
         NEW item, NEW bytes \in Seq(ByteValue), NEW o, Put(o, item, bytes, c, bit[i]),
         NEW j, j = i + 1
  PROVE  Under(o, j, bit, n) /\ Len(o.buf) = Len(c.buf) + Len(bytes)
<1>1. /\ n \in Nat /\ i \in 0 .. n /\ i + 1 \in 0 .. n /\ bit[i] \in Nat /\ i # n
      /\ bit[i + 1] = 2 * bit[i]
  BY DEF ControlBits
<1>2. /\ c.ctrlp \in Nat /\ c.ctrlp <= Len(c.buf) /\ c.ctrlp # 0 /\ c.ctrlb < bit[i]
      /\ c.ctrlb \in Nat /\ c.buf \in Seq(ByteValue)
  BY <1>1 DEF Under, OutputState
<1>3. Len(o.buf) = Len(c.buf) + Len(bytes) /\ Len(c.buf) \in Nat /\ Len(bytes) \in Nat
  BY <1>2, ConcatProperties, LenProperties DEF Put
<1>4. o.ctrlb < bit[i + 1]
  <2>1. IsRun(item) * bit[i] \in {0, bit[i]}
    BY <1>1 DEF IsRun
  <2>2. o.ctrlb = c.ctrlb + IsRun(item) * bit[i]
    BY DEF Put
  <2> QED
    BY <1>1, <1>2, <2>1, <2>2
<1>5. o.ctrl = IF i + 1 = n THEN 0 ELSE bit[i + 1]
  BY BitsInByte DEF Put
<1> QED
  BY <1>1, <1>2, <1>3, <1>4, <1>5 DEF Under, Put

-----------------------------------------------------------------------------
(* The finished stream e as seen from the output o of some of its items:   *)
(* what o holds is there already, except that the current control byte has *)
(* the bits q of the items to come above those of o.                       *)
Continues(o, j, bit, e, q) ==
  /\ Len(o.buf) <= Len(e)
  /\ \A p \in 1 .. Len(o.buf) : p # o.ctrlp => e[p] = o.buf[p]
  /\ o.ctrlp # 0 => e[o.ctrlp] = o.ctrlb + bit[j] * q

(* The bytes lie in e after its first n.                                   *)
Holds(e, n, bytes) ==
  /\ n + Len(bytes) <= Len(e)
  /\ \A p \in 1 .. Len(bytes) : e[n + p] = bytes[p]

(* Before an item the bits to come are its own and those after it, and its *)
(* bytes come next.                                                        *)
LEMMA ItemContinues ==
  ASSUME NEW bit, NEW n, ControlBits(bit, n), NEW c, NEW i \in 0 .. n - 1, Under(c, i, bit, n),
         NEW item, NEW bytes \in Seq(ByteValue), NEW o, Put(o, item, bytes, c, bit[i]),
         NEW j, j = i + 1, NEW e \in Seq(ByteValue), NEW q \in Nat, Continues(o, j, bit, e, q)
  PROVE  Continues(c, i, bit, e, IsRun(item) + 2 * q) /\ Holds(e, Len(c.buf), bytes)
<1>1. /\ n \in Nat /\ i \in 0 .. n /\ bit[i] \in Nat /\ i # n /\ bit[i + 1] = 2 * bit[i]
  BY DEF ControlBits
<1>2. /\ c.ctrlp \in Nat /\ c.ctrlp <= Len(c.buf) /\ c.ctrlp # 0 /\ c.ctrlb \in Nat
      /\ c.buf \in Seq(ByteValue) /\ Len(c.buf) \in Nat /\ Len(bytes) \in Nat
  BY <1>1, LenProperties DEF Under, OutputState
<1>3. Len(o.buf) = Len(c.buf) + Len(bytes) /\ o.ctrlp = c.ctrlp
  BY PutCounts DEF Put
<1>4. \A p \in 1 .. Len(c.buf) + Len(bytes) :
        o.buf[p] = IF p <= Len(c.buf) THEN c.buf[p] ELSE bytes[p - Len(c.buf)]
  BY <1>2, ConcatProperties DEF Put
<1>5. Len(o.buf) <= Len(e) /\ Len(e) \in Nat
  BY LenProperties DEF Continues
<1>6. \A p \in 1 .. Len(c.buf) + Len(bytes) : p # c.ctrlp => e[p] = o.buf[p]
  BY <1>3 DEF Continues
<1>7. \A p \in 1 .. Len(c.buf) : p # c.ctrlp => e[p] = c.buf[p]
  BY <1>2, <1>4, <1>6
<1>8. \A p \in 1 .. Len(bytes) : e[Len(c.buf) + p] = bytes[p]
  <2> SUFFICES ASSUME NEW p \in 1 .. Len(bytes)
               PROVE  e[Len(c.buf) + p] = bytes[p]
    OBVIOUS
  <2>1. /\ Len(c.buf) + p \in 1 .. Len(c.buf) + Len(bytes) /\ Len(c.buf) + p # c.ctrlp
        /\ ~ Len(c.buf) + p <= Len(c.buf) /\ (Len(c.buf) + p) - Len(c.buf) = p
    BY <1>2
  <2> QED
    BY <1>4, <1>6, <2>1
<1>9. e[c.ctrlp] = c.ctrlb + bit[i] * (IsRun(item) + 2 * q)
  <2>1. e[c.ctrlp] = (c.ctrlb + IsRun(item) * bit[i]) + (2 * bit[i]) * q
    BY <1>1, <1>2, <1>3 DEF Continues, Put
  <2>2. IsRun(item) \in Nat
    BY DEF IsRun
  <2>3. PICK d \in Nat, r \in Nat, b \in Nat : d = c.ctrlb /\ r = IsRun(item) /\ b = bit[i]
    BY <1>1, <1>2, <2>2
  <2>4. (d + r * b) + (2 * b) * q = d + b * (r + 2 * q)
    OBVIOUS
  <2> QED
    BY <2>1, <2>3, <2>4
<1> QED
  BY <1>2, <1>3, <1>5, <1>7, <1>8, <1>9 DEF Continues, Holds

(* A control byte is written where it was reserved, and it is the bits of  *)
(* its items: none is to come for the one before.                          *)
LEMMA ControlContinues ==
  ASSUME NEW bit, NEW n, ControlBits(bit, n), NEW o, NEW j, Under(o, j, bit, n),
         NEW e \in Seq(ByteValue), NEW q \in Nat,
         Continues(OutCtrl(o), Before(j, n), bit, e, q)
  PROVE  /\ Continues(o, j, bit, e, IF j = n THEN 0 ELSE q)
         /\ j = n => /\ Len(OutCtrl(o).buf) = Len(o.buf) + 1
                     /\ Len(o.buf) < Len(e) /\ e[Len(o.buf) + 1] = q
<1>1. /\ n \in Nat /\ \A k \in 0 .. n : bit[k] \in Nat \ {0}
      /\ bit[0] = 1 /\ j \in 0 .. n
  BY DEF Under, ControlBits
<1>2. CASE j # n
  BY <1>2, ControlOpens DEF Before
<1>3. CASE j = n
  <2> DEFINE w == WriteControl(o)
             c == OutCtrl(o)
             d == [buf |-> Append(w, 0), ctrlp |-> Len(o.buf) + 1, ctrlb |-> 0, ctrl |-> 1]
  <2>1. /\ w \in Seq(ByteValue) /\ Len(w) = Len(o.buf) /\ Len(o.buf) \in Nat
        /\ \A p \in 1 .. Len(o.buf) : p # o.ctrlp => w[p] = o.buf[p]
        /\ o.ctrlp # 0 => o.ctrlp \in 1 .. Len(o.buf) /\ w[o.ctrlp] = o.ctrlb
    BY ControlWritten, LenProperties
  <2>2. c = d /\ Before(j, n) = 0
    BY <1>3, ControlOpens DEF Before
  <2>3. 0 \in ByteValue
    BY DEF ByteValue, ControlBits, ByteCount
  <2> HIDE DEF w
  <2>4. /\ Len(Append(w, 0)) = Len(w) + 1
        /\ \A p \in 1 .. Len(w) : Append(w, 0)[p] = w[p]
    BY <2>1, <2>3, AppendProperties
  <2>5. /\ Len(c.buf) = Len(o.buf) + 1 /\ c.ctrlp = Len(o.buf) + 1 /\ c.ctrlb = 0
        /\ \A p \in 1 .. Len(o.buf) : c.buf[p] = w[p]
    BY <2>1, <2>2, <2>4
  <2> HIDE DEF c, d
  <2>6. Continues(c, 0, bit, e, q)
    BY <2>2 DEF c
  <2>7. Len(e) \in Nat /\ Len(o.buf) + 1 <= Len(e)
    BY <2>5, <2>6, LenProperties DEF Continues
  <2>8. e[Len(o.buf) + 1] = q
    <3>1. e[c.ctrlp] = c.ctrlb + bit[0] * q
      BY <2>1, <2>5, <2>6 DEF Continues
    <3> QED
      BY <1>1, <2>5, <3>1
  <2>9. \A p \in 1 .. Len(o.buf) : e[p] = w[p]
    <3>1. \A p \in 1 .. Len(o.buf) : p \in 1 .. Len(c.buf) /\ p # c.ctrlp
      BY <2>1, <2>5
    <3> QED
      BY <2>5, <2>6, <3>1 DEF Continues
  <2>10. o.ctrlp # 0 => e[o.ctrlp] = o.ctrlb + bit[j] * 0
    <3>1. bit[j] * 0 = 0 /\ o.ctrlb \in Nat
      BY <1>1 DEF Under, OutputState
    <3> QED
      BY <2>1, <2>9, <3>1
  <2>11. Continues(o, j, bit, e, 0)
    BY <2>1, <2>7, <2>9, <2>10 DEF Continues
  <2> QED
    BY <1>3, <2>1, <2>5, <2>7, <2>8, <2>11 DEF c
<1> QED
  BY <1>2, <1>3

-----------------------------------------------------------------------------
(* A stream, item by item.                                                 *)

LEMMA NextPuts ==
  ASSUME NEW bit, NEW n, ControlBits(bit, n),
         NEW l \in Seq(Item), WellFormedItems(l), NEW k \in 0 .. Len(l) - 1,
         NEW j, Under(OutputOf(l, k), j, bit, n)
  PROVE  LET c == OutCtrl(OutputOf(l, k))
             i == Before(j, n)
         IN  /\ l[k + 1] \in Item /\ ItemBytes(l[k + 1]) \in Seq(ByteValue)
             /\ l[k + 1].kind = "run" => Taggable(l[k + 1])
             /\ i \in 0 .. n - 1 /\ Under(c, i, bit, n) /\ c.ctrlp # 0
             /\ Put(OutputOf(l, k + 1), l[k + 1], ItemBytes(l[k + 1]), c, bit[i])
             /\ Under(OutputOf(l, k + 1), i + 1, bit, n)
             /\ Len(OutputOf(l, k + 1).buf) = Len(c.buf) + Len(ItemBytes(l[k + 1]))
<1> DEFINE o == OutputOf(l, k)
           c == OutCtrl(o)
           i == Before(j, n)
           item == l[k + 1]
<1>1. item \in Item
  BY ElementOfSeq, LenProperties
<1>2. item.kind = "run" => Taggable(item)
  <2> SUFFICES ASSUME item.kind = "run"
               PROVE  Taggable(item)
    OBVIOUS
  <2>1. RunFits(TextOf(l, k), item)
    BY PrefixFits
  <2>2. item.off \in Nat /\ item.len \in Nat
    BY <1>1 DEF Item
  <2>3. Nibble * ByteCount \in Nat
    <3>1. \A m \in Nat : m * (m * m) \in Nat
      OBVIOUS
    <3> QED
      BY <3>1 DEF ControlBits, ByteCount
  <2>4. item.off # 0 /\ item.off < Nibble * ByteCount - 1
    BY <2>1, <2>2 DEF RunFits
  <2> QED
    BY <2>1, <2>2, <2>3, <2>4 DEF RunFits, Taggable
<1>3. OutputOf(l, k + 1) = Emit(o, item)
  BY PrefixGrows
<1> HIDE DEF item
<1>4. ItemBytes(item) \in Seq(ByteValue)
  BY <1>1, <1>2, BytesTyped DEF ControlBits
<1>5. i \in 0 .. n - 1 /\ Under(c, i, bit, n) /\ c.ctrlp # 0
  <2>1. ASSUME NEW x, Under(x, j, bit, n)
        PROVE  i \in 0 .. n - 1 /\ Under(OutCtrl(x), i, bit, n) /\ OutCtrl(x).ctrlp # 0
    BY <2>1, ControlOpens
  <2> QED
    BY <2>1
<1>6. Put(Emit(o, item), item, ItemBytes(item), c, bit[i])
  BY <1>1, <1>2, EmitPuts
<1> DEFINE m == i + 1
<1> HIDE DEF o, c, i, m
<1>7. Under(Emit(o, item), m, bit, n) /\ Len(Emit(o, item).buf) = Len(c.buf) + Len(ItemBytes(item))
  <2>1. m = i + 1
    BY DEF m
  <2>2. Under(Emit(o, item), m, bit, n)
    BY <1>4, <1>5, <1>6, <2>1, PutCounts
  <2>3. Len(Emit(o, item).buf) = Len(c.buf) + Len(ItemBytes(item))
    <3>1. Emit(o, item).buf = c.buf \o ItemBytes(item)
      BY <1>6 DEF Put
    <3>2. c.buf \in Seq(ByteValue)
      BY <1>5 DEF Under, OutputState
    <3> QED
      BY <1>4, <3>1, <3>2, ConcatProperties
  <2> QED
    BY <2>2, <2>3
<1> QED
  BY <1>1, <1>2, <1>3, <1>4, <1>5, <1>6, <1>7 DEF item, o, c, i, m

LEMMA OutputsUnder ==
  ASSUME NEW bit, NEW n, ControlBits(bit, n),
         NEW l \in Seq(Item), WellFormedItems(l), NEW m \in 0 .. Len(l)
  PROVE  \E j : Under(OutputOf(l, m), j, bit, n)
<1> DEFINE S == {k \in 0 .. Len(l) : \E j : Under(OutputOf(l, k), j, bit, n)}
<1>0. Len(l) \in Nat
  BY LenProperties
<1>1. 0 \in S
  <2>1. Under(OutputOf(l, 0), n, bit, n)
    BY PrefixEnds, NothingUnder
  <2> QED
    BY <1>0, <2>1
<1>2. \A k \in 0 .. Len(l) - 1 : k \in S => k + 1 \in S
  <2> SUFFICES ASSUME NEW k \in 0 .. Len(l) - 1, NEW j, Under(OutputOf(l, k), j, bit, n)
               PROVE  k + 1 \in S
    OBVIOUS
  <2>1. Under(OutputOf(l, k + 1), Before(j, n) + 1, bit, n)
    BY NextPuts
  <2> QED
    BY <1>0, <2>1
<1> HIDE DEF S
<1>3. m \in S
  BY <1>0, <1>1, <1>2, IntervalInduction
<1> QED
  BY <1>3 DEF S

(* Where the last item ends, and no bit is to come.                        *)
LEMMA StreamEnds ==
  ASSUME NEW bit, NEW n, ControlBits(bit, n), NEW l \in Seq(Item),
         NEW j, Under(OutputOf(l, Len(l)), j, bit, n)
  PROVE  /\ Encode(l) \in Seq(ByteValue) /\ Len(Encode(l)) = Len(OutputOf(l, Len(l)).buf)
         /\ Continues(OutputOf(l, Len(l)), j, bit, Encode(l), 0)
<1> DEFINE o == OutputOf(l, Len(l))
           w == WriteControl(o)
<1>1. Encode(l) = w
  BY PrefixEnds DEF Encode
<1>2. /\ w \in Seq(ByteValue) /\ Len(w) = Len(o.buf)
      /\ \A p \in 1 .. Len(o.buf) : p # o.ctrlp => w[p] = o.buf[p]
      /\ o.ctrlp # 0 => o.ctrlp \in 1 .. Len(o.buf) /\ w[o.ctrlp] = o.ctrlb
  BY ControlWritten
<1>3. bit[j] * 0 = 0 /\ o.ctrlb \in Nat /\ Len(w) \in Nat
  <2>1. bit[j] \in Nat /\ o.ctrlb \in Nat
    BY DEF Under, OutputState, ControlBits
  <2> QED
    BY <1>2, <2>1, LenProperties
<1> HIDE DEF o, w
<1>4. Continues(o, j, bit, w, 0)
  BY <1>2, <1>3 DEF Continues
<1> QED
  BY <1>1, <1>2, <1>4 DEF o

(* The stream continues the output of every number of its items.           *)
LEMMA StreamContinues ==
  ASSUME NEW bit, NEW n, ControlBits(bit, n), NEW l \in Seq(Item), WellFormedItems(l),
         NEW k \in 0 .. Len(l), NEW j, Under(OutputOf(l, k), j, bit, n)
  PROVE  \E q \in Nat : Continues(OutputOf(l, k), j, bit, Encode(l), q)
<1> DEFINE e == Encode(l)
           Seen(m) == \A i : Under(OutputOf(l, m), i, bit, n) =>
                        \E q \in Nat : Continues(OutputOf(l, m), i, bit, e, q)
           S == {m \in 0 .. Len(l) : Seen(Len(l) - m)}
<1>1. Len(l) \in Nat
  BY LenProperties
<1>2. e \in Seq(ByteValue)
  BY <1>1, OutputsUnder, StreamEnds
<1> HIDE DEF e
<1>3. 0 \in S
  <2>1. Len(l) - 0 = Len(l)
    BY <1>1
  <2>2. Seen(Len(l))
    BY StreamEnds DEF e
  <2> QED
    BY <1>1, <2>1, <2>2
<1>4. ASSUME NEW m \in 0 .. Len(l) - 1, Seen(m + 1)
      PROVE  Seen(m)
  <2> SUFFICES ASSUME NEW h, Under(OutputOf(l, m), h, bit, n)
               PROVE  \E q \in Nat : Continues(OutputOf(l, m), h, bit, e, q)
    OBVIOUS
  <2> DEFINE c == OutCtrl(OutputOf(l, m))
             i == Before(h, n)
             item == l[m + 1]
             bytes == ItemBytes(item)
  <2>1. /\ bytes \in Seq(ByteValue)
        /\ i \in 0 .. n - 1 /\ Under(c, i, bit, n)
        /\ Put(OutputOf(l, m + 1), item, bytes, c, bit[i])
        /\ Under(OutputOf(l, m + 1), i + 1, bit, n)
    BY NextPuts
  <2>2. PICK q \in Nat : Continues(OutputOf(l, m + 1), i + 1, bit, e, q)
    BY <1>4, <2>1
  <2> DEFINE h1 == i + 1
  <2> HIDE DEF c, i, item, bytes, h1
  <2>3. Continues(c, i, bit, e, IsRun(item) + 2 * q)
    <3>1. h1 = i + 1 /\ Continues(OutputOf(l, m + 1), h1, bit, e, q)
      BY <2>2 DEF h1
    <3> QED
      BY <1>2, <2>1, <3>1, ItemContinues
  <2>4. IsRun(item) + 2 * q \in Nat
    BY DEF IsRun
  <2>5. Continues(OutputOf(l, m), h, bit, e, IF h = n THEN 0 ELSE IsRun(item) + 2 * q)
    BY <1>2, <2>3, <2>4, ControlContinues DEF c, i
  <2> QED
    BY <2>4, <2>5
<1> HIDE DEF Seen
<1>5. \A m \in 0 .. Len(l) - 1 : m \in S => m + 1 \in S
  <2> SUFFICES ASSUME NEW m \in 0 .. Len(l) - 1, Seen(Len(l) - m)
               PROVE  Seen(Len(l) - (m + 1))
    BY <1>1
  <2>1. Len(l) - (m + 1) \in 0 .. Len(l) - 1 /\ (Len(l) - (m + 1)) + 1 = Len(l) - m
    BY <1>1
  <2> QED
    BY <1>4, <2>1
<1> HIDE DEF S
<1>6. \A m \in 0 .. Len(l) : m \in S
  BY <1>1, <1>3, <1>5, IntervalInduction
<1>7. Len(l) - k \in 0 .. Len(l) /\ Len(l) - (Len(l) - k) = k
  BY <1>1
<1>8. Seen(k)
  BY <1>6, <1>7 DEF S
<1> QED
  BY <1>8 DEF Seen, e

(* What a reader of the stream finds after k items: a control byte if the  *)
(* one before is used up, with the bits of the items under it, then the    *)
(* bytes of the next item, whose bit comes first.                          *)
LEMMA NextItemIsNext ==
  ASSUME NEW bit, NEW n, ControlBits(bit, n), NEW l \in Seq(Item), WellFormedItems(l),
         NEW k \in 0 .. Len(l) - 1, NEW j, Under(OutputOf(l, k), j, bit, n)
  PROVE  LET c == OutCtrl(OutputOf(l, k))
             e == Encode(l)
             i == Before(j, n)
             bytes == ItemBytes(l[k + 1])
         IN  /\ Under(OutputOf(l, k + 1), i + 1, bit, n)
             /\ Under(c, i, bit, n) /\ c.ctrlp # 0 /\ i \in 0 .. n - 1
             /\ bytes \in Seq(ByteValue) /\ (l[k + 1].kind = "run" => Taggable(l[k + 1]))
             /\ Len(OutputOf(l, k + 1).buf) = Len(c.buf) + Len(bytes)
             /\ Holds(e, Len(c.buf), bytes)
             /\ \E q \in Nat :
                  /\ Continues(c, i, bit, e, IsRun(l[k + 1]) + 2 * q)
                  /\ Continues(OutputOf(l, k + 1), i + 1, bit, e, q)
<1> DEFINE next == OutputOf(l, k + 1)
           c == OutCtrl(OutputOf(l, k))
           e == Encode(l)
           i == Before(j, n)
           item == l[k + 1]
           bytes == ItemBytes(item)
<1>1. /\ bytes \in Seq(ByteValue) /\ (item.kind = "run" => Taggable(item))
      /\ i \in 0 .. n - 1 /\ Under(c, i, bit, n) /\ c.ctrlp # 0
      /\ Put(next, item, bytes, c, bit[i])
      /\ Under(next, i + 1, bit, n) /\ Len(next.buf) = Len(c.buf) + Len(bytes)
  BY NextPuts
<1>2. e \in Seq(ByteValue) /\ k + 1 \in 0 .. Len(l)
  <2>1. Len(l) \in Nat
    BY LenProperties
  <2> QED
    BY <2>1, OutputsUnder, StreamEnds
<1>3. PICK q \in Nat : Continues(next, i + 1, bit, e, q)
  BY <1>1, <1>2, StreamContinues
<1> HIDE DEF e, i, item, bytes
<1>4. /\ Continues(c, i, bit, e, IsRun(item) + 2 * q)
      /\ Holds(e, Len(c.buf), bytes)
  <2> DEFINE m == i + 1
  <2> HIDE DEF c, m
  <2>1. m = i + 1 /\ Continues(next, m, bit, e, q)
    BY <1>3 DEF m
  <2>2. Continues(c, i, bit, e, IsRun(item) + 2 * q)
    BY <1>1, <1>2, <2>1, ItemContinues
  <2>3. Holds(e, Len(c.buf), bytes)
    BY <1>1, <1>2, <2>1, ItemContinues
  <2> QED
    BY <2>2, <2>3
<1> QED
  BY <1>1, <1>3, <1>4 DEF c, e, i, item, bytes

-----------------------------------------------------------------------------
(* Where a reader of the stream of l may stand after k of its items: with  *)
(* a control byte to read next, or under one, i items of it done and the   *)
(* bits q left in it.                                                      *)

Rests(l, k, s, bit, n) ==
  \E j \in 0 .. n :
    /\ Under(OutputOf(l, k), j, bit, n)
    /\ s = Len(OutputOf(l, k).buf)
    /\ k < Len(l) => j = n

ReadsOn(l, k, i, s, q, bit, n) ==
  \E j \in 0 .. n :
    /\ Under(OutputOf(l, k), j, bit, n)
    /\ k < Len(l) /\ i = Before(j, n) /\ s = Len(OutCtrl(OutputOf(l, k)).buf)
    /\ Continues(OutCtrl(OutputOf(l, k)), i, bit, Encode(l), q)

ReadsLast(l, k, i, s, q, bit, n) ==
  /\ k = Len(l) \/ i = n
  /\ Under(OutputOf(l, k), i, bit, n)
  /\ s = Len(OutputOf(l, k).buf) /\ OutputOf(l, k).ctrlp # 0
  /\ Continues(OutputOf(l, k), i, bit, Encode(l), q)

Reads(l, k, i, s, q, bit, n) ==
  ReadsOn(l, k, i, s, q, bit, n) \/ ReadsLast(l, k, i, s, q, bit, n)

(* The bits to come are determined by the control byte.                    *)
LEMMA BitsAreUnique ==
  ASSUME NEW bit, NEW n, ControlBits(bit, n), NEW o, NEW j, Under(o, j, bit, n), o.ctrlp # 0,
         NEW e, NEW q \in Nat, NEW r \in Nat,
         Continues(o, j, bit, e, q), Continues(o, j, bit, e, r)
  PROVE  q = r
<1>1. bit[j] \in Nat \ {0} /\ o.ctrlb \in Nat
  BY DEF ControlBits, Under, OutputState
<1>2. o.ctrlb + bit[j] * q = o.ctrlb + bit[j] * r
  BY DEF Continues
<1>3. \A b \in Nat \ {0}, x, y \in Nat : b * x = b * y => x = y
  <2> SUFFICES ASSUME NEW b \in Nat \ {0}, NEW x \in Nat, NEW y \in Nat, x < y
               PROVE  b * x # b * y
    OBVIOUS
  <2>1. y - x \in Nat /\ y - x >= 1 /\ y = x + (y - x)
    OBVIOUS
  <2>2. \A d \in Nat : d >= 1 => b * (x + d) = b * x + b * d /\ b * d >= b
    OBVIOUS
  <2>3. b * x \in Nat
    OBVIOUS
  <2> QED
    BY <2>1, <2>2, <2>3
<1>4. bit[j] * q \in Nat /\ bit[j] * r \in Nat
  BY <1>1
<1>5. bit[j] * q = bit[j] * r
  BY <1>1, <1>2, <1>4
<1> QED
  BY <1>1, <1>3, <1>5

LEMMA StartsRested ==
  ASSUME NEW bit, NEW n, ControlBits(bit, n), NEW l \in Seq(Item)
  PROVE  Rests(l, 0, 0, bit, n)
<1>1. OutputOf(l, 0) = NoOutput /\ Len(NoOutput.buf) = 0
  BY PrefixEnds DEF NoOutput
<1>2. Under(NoOutput, n, bit, n)
  BY NothingUnder
<1>3. n \in 0 .. n
  BY DEF ControlBits
<1> QED
  BY <1>1, <1>2, <1>3 DEF Rests

(* While items are left a rested reader finds a control byte.              *)
LEMMA ControlIsRead ==
  ASSUME NEW bit, NEW n, ControlBits(bit, n), NEW l \in Seq(Item), WellFormedItems(l),
         NEW k \in 0 .. Len(l) - 1, NEW s, Rests(l, k, s, bit, n)
  PROVE  s < Len(Encode(l)) /\ Reads(l, k, 0, s + 1, Encode(l)[s + 1], bit, n)
<1>1. k < Len(l) /\ Len(l) \in Nat
  BY LenProperties
<1>2. Under(OutputOf(l, k), n, bit, n) /\ s = Len(OutputOf(l, k).buf) /\ n \in 0 .. n
  BY <1>1 DEF Rests
<1> DEFINE c == OutCtrl(OutputOf(l, k))
<1>3. Before(n, n) = 0
  BY DEF Before
<1>4. PICK q \in Nat :
        /\ Continues(c, 0, bit, Encode(l), q)
        /\ Len(c.buf) = s + 1 /\ s < Len(Encode(l)) /\ Encode(l)[s + 1] = q
  <2>1. PICK q \in Nat : Continues(c, Before(n, n), bit, Encode(l), IsRun(l[k + 1]) + 2 * q)
    <3>1. \E q \in Nat : Continues(c, Before(n, n), bit, Encode(l), IsRun(l[k + 1]) + 2 * q)
      BY <1>2, NextItemIsNext
    <3> QED
      BY <3>1
  <2>2. IsRun(l[k + 1]) + 2 * q \in Nat
    BY DEF IsRun
  <2>3. Encode(l) \in Seq(ByteValue)
    BY <1>1, OutputsUnder, StreamEnds
  <2>4. /\ Len(c.buf) = Len(OutputOf(l, k).buf) + 1 /\ Len(OutputOf(l, k).buf) < Len(Encode(l))
        /\ Encode(l)[Len(OutputOf(l, k).buf) + 1] = IsRun(l[k + 1]) + 2 * q
    BY <1>2, <2>1, <2>2, <2>3, ControlContinues
  <2> HIDE DEF c
  <2> QED
    BY <1>2, <1>3, <2>1, <2>2, <2>4
<1>5. ReadsOn(l, k, 0, s + 1, Encode(l)[s + 1], bit, n)
  BY <1>1, <1>2, <1>3, <1>4 DEF ReadsOn
<1> QED
  BY <1>4, <1>5 DEF Reads

(* Under a control byte with flags left the reader finds the flag and the  *)
(* bytes of the next item.                                                 *)
LEMMA ItemIsRead ==
  ASSUME NEW bit, NEW n, ControlBits(bit, n), NEW l \in Seq(Item), WellFormedItems(l),
         NEW k \in 0 .. Len(l) - 1, NEW i, i # n, NEW s, NEW q \in Nat,
         Reads(l, k, i, s, q, bit, n)
  PROVE  /\ ItemBytes(l[k + 1]) \in Seq(ByteValue)
         /\ l[k + 1].kind = "run" => Taggable(l[k + 1])
         /\ s \in Nat /\ Holds(Encode(l), s, ItemBytes(l[k + 1]))
         /\ \E r \in Nat : /\ q = IsRun(l[k + 1]) + 2 * r
                           /\ Reads(l, k + 1, i + 1, s + Len(ItemBytes(l[k + 1])), r, bit, n)
<1>1. k < Len(l) /\ k # Len(l) /\ Len(l) \in Nat
  BY LenProperties
<1>2. ReadsOn(l, k, i, s, q, bit, n)
  BY <1>1 DEF Reads, ReadsLast
<1>3. PICK j \in 0 .. n :
        /\ Under(OutputOf(l, k), j, bit, n)
        /\ i = Before(j, n) /\ s = Len(OutCtrl(OutputOf(l, k)).buf)
        /\ Continues(OutCtrl(OutputOf(l, k)), i, bit, Encode(l), q)
  BY <1>2 DEF ReadsOn
<1> DEFINE c == OutCtrl(OutputOf(l, k))
           next == OutputOf(l, k + 1)
           bytes == ItemBytes(l[k + 1])
           e == Encode(l)
<1>4. /\ Under(next, i + 1, bit, n)
      /\ Under(c, i, bit, n) /\ c.ctrlp # 0 /\ i \in 0 .. n - 1
      /\ bytes \in Seq(ByteValue) /\ (l[k + 1].kind = "run" => Taggable(l[k + 1]))
      /\ Len(next.buf) = Len(c.buf) + Len(bytes)
      /\ Holds(e, Len(c.buf), bytes)
      /\ \E r \in Nat : /\ Continues(c, i, bit, e, IsRun(l[k + 1]) + 2 * r)
                        /\ Continues(next, i + 1, bit, e, r)
  BY <1>3, NextItemIsNext
<1>5. PICK r \in Nat : /\ Continues(c, i, bit, e, IsRun(l[k + 1]) + 2 * r)
                      /\ Continues(next, i + 1, bit, e, r)
  BY <1>4
<1>6. IsRun(l[k + 1]) + 2 * r \in Nat
  BY DEF IsRun
<1>7. l[k + 1] \in Item /\ Len(bytes) \in 1 .. 3
  <2>1. l[k + 1] \in Item
    BY <1>1, ElementOfSeq
  <2> QED
    BY <1>4, <2>1, BytesTyped DEF ControlBits
<1> HIDE DEF c, next, bytes, e
<1>8. q = IsRun(l[k + 1]) + 2 * r
  <2> DEFINE v == IsRun(l[k + 1]) + 2 * r
  <2>1. v \in Nat /\ Continues(c, i, bit, e, v)
    BY <1>5, <1>6
  <2>2. Continues(c, i, bit, e, q)
    BY <1>3 DEF c, e
  <2> HIDE DEF v
  <2>3. q = v
    BY <1>4, <2>1, <2>2, BitsAreUnique
  <2> QED
    BY <2>3 DEF v
<1>9. s = Len(c.buf) /\ s \in Nat
  <2>1. c.buf \in Seq(ByteValue) /\ s = Len(c.buf)
    BY <1>3, <1>4 DEF Under, OutputState, c
  <2> QED
    BY <2>1, LenProperties
<1>10. next.ctrlp # 0
  <2>1. Len(next.buf) # 0
    <3>1. Len(next.buf) = s + Len(bytes) /\ Len(bytes) \in 1 .. 3 /\ s \in Nat
      BY <1>4, <1>7, <1>9
    <3>2. \A x \in Nat, y \in 1 .. 3 : x + y # 0
      OBVIOUS
    <3> QED
      BY <3>1, <3>2
  <2>2. Len(NoOutput.buf) = 0
    BY DEF NoOutput
  <2> QED
    BY <1>4, <2>1, <2>2 DEF Under
<1>11. k + 1 < Len(l) \/ k + 1 = Len(l)
  BY <1>1
<1> DEFINE m == i + 1
<1>12. Reads(l, k + 1, m, s + Len(bytes), r, bit, n)
  <2>1. m \in 0 .. n /\ Under(next, m, bit, n) /\ Continues(next, m, bit, e, r)
    BY <1>4, <1>5 DEF ControlBits
  <2>2. s + Len(bytes) = Len(next.buf)
    BY <1>4, <1>9
  <2> HIDE DEF m
  <2>3. CASE k + 1 = Len(l) \/ m = n
    <3>1. ReadsLast(l, k + 1, m, s + Len(bytes), r, bit, n)
      BY <1>10, <2>1, <2>2, <2>3 DEF ReadsLast, next, e
    <3> QED
      BY <3>1 DEF Reads
  <2>4. CASE k + 1 < Len(l) /\ m # n
    <3>1. OutCtrl(next) = next /\ Before(m, n) = m
      BY <2>1, <2>4, ControlOpens DEF Before
    <3>2. ReadsOn(l, k + 1, m, s + Len(bytes), r, bit, n)
      BY <2>1, <2>2, <2>4, <3>1 DEF ReadsOn, next, e
    <3> QED
      BY <3>2 DEF Reads
  <2> QED
    BY <1>11, <2>3, <2>4
<1> QED
  BY <1>3, <1>4, <1>8, <1>9, <1>12 DEF bytes, c, e

(* With its flags used up the reader rests again.                          *)
LEMMA FlagsAreUsed ==
  ASSUME NEW bit, NEW n, ControlBits(bit, n), NEW l \in Seq(Item), NEW k,
         NEW s, NEW q, Reads(l, k, n, s, q, bit, n)
  PROVE  Rests(l, k, s, bit, n)
<1>1. \A j \in 0 .. n : Before(j, n) # n
  BY DEF Before, ControlBits
<1>2. ReadsLast(l, k, n, s, q, bit, n)
  BY <1>1 DEF Reads, ReadsOn
<1>3. n \in 0 .. n
  BY DEF ControlBits
<1> QED
  BY <1>2, <1>3 DEF ReadsLast, Rests

(* After the last item no flag is set and the reader rests.                *)
LEMMA NothingIsLeft ==
  ASSUME NEW bit, NEW n, ControlBits(bit, n), NEW l \in Seq(Item), NEW k, k = Len(l),
         NEW i, NEW s, NEW q \in Nat, Reads(l, k, i, s, q, bit, n)
  PROVE  q = 0 /\ Rests(l, k, s, bit, n)
<1>1. ~ k < Len(l)
  BY LenProperties
<1>2. ReadsLast(l, k, i, s, q, bit, n)
  BY <1>1 DEF Reads, ReadsOn
<1>3. /\ Under(OutputOf(l, k), i, bit, n) /\ OutputOf(l, k).ctrlp # 0
      /\ s = Len(OutputOf(l, k).buf) /\ Continues(OutputOf(l, k), i, bit, Encode(l), q)
  BY <1>2 DEF ReadsLast
<1>4. Continues(OutputOf(l, k), i, bit, Encode(l), 0)
  BY <1>3, StreamEnds
<1>5. q = 0
  BY <1>3, <1>4, BitsAreUnique
<1>6. i \in 0 .. n
  BY <1>3 DEF Under
<1> QED
  BY <1>1, <1>3, <1>5, <1>6 DEF Rests

(* Nowhere has the reader left the stream.                                 *)
LEMMA ReaderInside ==
  ASSUME NEW bit, NEW n, ControlBits(bit, n), NEW l \in Seq(Item), WellFormedItems(l),
         NEW k \in 0 .. Len(l), NEW s
  PROVE  /\ Rests(l, k, s, bit, n) => s <= Len(Encode(l))
         /\ \A i, q : Reads(l, k, i, s, q, bit, n) => s <= Len(Encode(l))
<1>1. ASSUME Rests(l, k, s, bit, n)
      PROVE  s <= Len(Encode(l))
  <2>1. PICK j : Under(OutputOf(l, k), j, bit, n) /\ s = Len(OutputOf(l, k).buf)
    BY <1>1 DEF Rests
  <2>2. PICK q \in Nat : Continues(OutputOf(l, k), j, bit, Encode(l), q)
    BY <2>1, StreamContinues
  <2> QED
    BY <2>1, <2>2 DEF Continues
<1>2. ASSUME NEW i, NEW q, Reads(l, k, i, s, q, bit, n)
      PROVE  s <= Len(Encode(l))
  BY <1>2 DEF Reads, ReadsOn, ReadsLast, Continues
<1> QED
  BY <1>1, <1>2

(* A run reads the byte off back, which may be one it wrote itself.        *)
LEMMA RunRepeats ==
  ASSUME Nibble \in Nat, NEW l \in Seq(Item), WellFormedItems(l),
         NEW k \in 0 .. Len(l) - 1, l[k + 1].kind = "run",
         NEW p \in Len(TextOf(l, k)) .. Len(TextOf(l, k + 1)) - 1
  PROVE  /\ l[k + 1].off \in 1 .. Len(TextOf(l, k))
         /\ TextOf(l, k + 1)[p + 1] = TextOf(l, k + 1)[(p - l[k + 1].off) + 1]
<1> DEFINE text == TextOf(l, k)
           longer == TextOf(l, k + 1)
           item == l[k + 1]
           f == item.off
           j == p - Len(text)
<1>1. text \in Seq(ByteValue) /\ Len(text) \in Nat
  <2>1. k \in 0 .. Len(l)
    BY LenProperties
  <2> QED
    BY <2>1, TextsTyped, LenProperties
<1>2. longer = Extend(text, item) /\ RunFits(text, item)
  BY PrefixGrows, PrefixFits
<1> HIDE DEF text, item
<1>3. /\ Len(longer) = Len(text) + item.len
      /\ \A x \in 1 .. Len(text) : longer[x] = text[x]
      /\ \A x \in 0 .. item.len - 1 :
           longer[Len(text) + x + 1] = text[Len(text) - item.off + 1 + (x % item.off)]
  BY <1>1, <1>2, RunExtends DEF item
<1>4. f \in 1 .. Len(text) /\ f \in Nat \ {0} /\ item.len \in Nat
  <2>1. f \in 1 .. Len(text) /\ item.len \in 3 .. Nibble + 1 + ByteCount
    BY <1>2 DEF RunFits
  <2>2. Nibble + 1 + ByteCount \in Nat
    <3>1. Nibble * Nibble \in Nat
      OBVIOUS
    <3> QED
      BY <3>1 DEF ByteCount
  <2>3. \A m \in Nat : \A x \in 3 .. m : x \in Nat
    OBVIOUS
  <2> QED
    BY <1>1, <2>1, <2>2, <2>3
<1>5. p \in Nat /\ j \in 0 .. item.len - 1 /\ p = Len(text) + j /\ j \in Nat
  BY <1>1, <1>3, <1>4 DEF text
<1> HIDE DEF j, f, longer
<1>6. longer[p + 1] = text[Len(text) - f + 1 + (j % f)]
  BY <1>1, <1>3, <1>5 DEF f
<1>7. CASE j < f
  <2>1. j % f = j
    BY <1>4, <1>5, <1>7, RemainderBack
  <2>2. (p - f) + 1 \in 1 .. Len(text) /\ (p - f) + 1 = Len(text) - f + 1 + j
    BY <1>1, <1>4, <1>5, <1>7
  <2> QED
    BY <1>3, <1>4, <1>6, <2>1, <2>2 DEF text, longer, item, f
<1>8. CASE j >= f
  <2>1. (j - f) % f = j % f
    BY <1>4, <1>5, <1>8, RemainderBack
  <2>2. j - f \in 0 .. item.len - 1 /\ Len(text) + (j - f) + 1 = (p - f) + 1
    <3>1. j - f \in 0 .. item.len - 1
      BY <1>4, <1>5, <1>8
    <3>2. Len(text) + (j - f) + 1 = (p - f) + 1
      BY <1>1, <1>4, <1>5
    <3> QED
      BY <3>1, <3>2
  <2>3. longer[(p - f) + 1] = text[Len(text) - f + 1 + ((j - f) % f)]
    BY <1>3, <2>2 DEF f
  <2> QED
    BY <1>4, <1>6, <2>1, <2>3 DEF text, longer, item, f
<1> QED
  BY <1>4, <1>5, <1>7, <1>8

=============================================================================
