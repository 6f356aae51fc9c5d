--------------------------- MODULE MCTupleLayout ---------------------------
(* Tuples of a table of six columns, complete or stored before columns     *)
(* were added, in bytes of four bits: short values have up to 7 bytes and  *)
(* a TOAST pointer has 6.                                                  *)
EXTENDS TupleLayout, SequencesExt

MCColumns == <<"int", "varlena", "varlena", "int", "varlena", "geometric">>
MCRequired == {0, 1}

Value(form, size) == [form |-> form, size |-> size]
Null == Value("null", 0)
Number == Value("int", 4)

(* A length whose length word begins with a zero byte, and one whose does  *)
(* not.                                                                    *)
Longs == {Value("long", 12), Value("long", 13), Value("compressed", 12)}
Shorts == {Value("short", 2), Value("short", 3), Value("external", ToastSize)}

ValuesOf(c) ==
  CASE c = 0 -> {Number}
    [] c = 1 -> {Value("short", 1)} \union Shorts \union Longs
    [] c = 3 -> {Null, Number}
    [] c = 5 -> {Null, Value("short", 2), Value("long", 12)}
    [] OTHER -> {Null} \union Shorts \union Longs

Repeat(byte, n) == [k \in 1 .. n |-> byte]

(* Data with quotes (9), backslashes (12) and separators (5) in it.        *)
Filler(n) == [k \in 1 .. n |-> <<9, 12, 5, 7>>[(k % 4) + 1]]

WordOf(w) == [k \in 1 .. 4 |-> (w \div ByteMod ^ (k - 1)) % ByteMod]

BytesOf(v) ==
  CASE v.form = "null" -> << >>
    [] v.form = "int" -> Repeat(7, 4)
    [] v.form = "short" -> <<2 * v.size + 1>> \o Filler(v.size - 1)
    [] v.form = "external" -> <<1>> \o Filler(v.size - 1)
    [] v.form = "long" -> WordOf(4 * v.size) \o Filler(v.size - 4)
    [] v.form = "compressed" -> WordOf(4 * v.size + 2) \o Filler(v.size - 4)

(* The bytes of the values one after the other, and where each ends.       *)
Stretch(so_far, v) ==
  LET n == Len(so_far.bytes)
      bytes == so_far.bytes
               \o Repeat(0, IF Aligned(v.form) THEN PadAfter(n) ELSE 0) \o BytesOf(v)
  IN  [bytes |-> bytes, ends |-> Append(so_far.ends, Len(bytes))]

Data(values) == FoldLeft(Stretch, [bytes |-> << >>, ends |-> <<0>>], values)

BitmapOf(values, bytes) ==
  [k \in 1 .. bytes |->
     LET bit(n) == LET a == ByteBits * (k - 1) + n
                   IN  IF a < Len(values) /\ values[a + 1] # Null THEN 2 ^ n ELSE 0
     IN  bit(0) + bit(1) + bit(2) + bit(3)]

(* The tuple of the values, and the memory after it.                       *)
StoredTuple(values, beyond) ==
  LET data == Data(values)
      nulls == \E k \in DOMAIN values : values[k] = Null
      bits == IF nulls THEN BitmapOf(values, IF Len(values) <= ByteBits THEN 1 ELSE 9) ELSE <<0>>
      hoff == 23 + Len(bits)
  IN  [hasnull |-> nulls, bits |-> bits, mem |-> data.bytes \o beyond,
       hoff |-> hoff, len |-> hoff + Len(data.bytes), natts |-> Len(values),
       form |-> [k \in DOMAIN values |-> values[k].form],
       size |-> [k \in DOMAIN values |-> values[k].size],
       ends |-> data.ends]

(* What follows a tuple after its padding to a multiple of eight: the end  *)
(* of the page, or the next tuple, which may be frozen.                    *)
Beyonds == {<< >>, Repeat(0, 8), Repeat(5, 30), FrozenXmin \o Repeat(5, 30)}
Padded(values, next) == Repeat(0, (-Len(Data(values).bytes)) % 8) \o next

Complete6 ==
  {<<Number, b, c, d, e, f>> :
     b \in ValuesOf(1), c \in ValuesOf(2), d \in ValuesOf(3), e \in ValuesOf(4), f \in ValuesOf(5)}
Short4 == {<<Number, b, c, d>> : b \in ValuesOf(1), c \in ValuesOf(2), d \in ValuesOf(3)}
Short5 == {Append(v, e) : v \in Short4, e \in ValuesOf(4)}

(* Tuples whose t_hoff is beyond their end, one of them with the longest   *)
(* length word in its last column, and one without its key.                *)
Ruined ==
  LET key == <<Number, Value("short", 2), Null, Null, Null>>
      t == StoredTuple(Append(key, Null), Repeat(0, 8))
      long == StoredTuple(Append(key, Value("short", 4)), Repeat(0, 8))
  IN  {[t EXCEPT !.len = t.hoff - 1], [t EXCEPT !.bits[1] = 0],
       [long EXCEPT !.len = long.hoff - 1,
                    !.mem = SubSeq(long.mem, 1, 6) \o <<12, 15, 15, 15, 9, 9>>]}

MCTuples ==
  {StoredTuple(v, Repeat(0, 8)) : v \in Complete6}
  \union {StoredTuple(v, Padded(v, m)) : v \in Short4 \union Short5, m \in Beyonds}
  \union Ruined

(* The tuples are stored as the server stores them.                        *)
ASSUME MCTuplesStored == \A t \in MCTuples \ Ruined : Stored(t)

=============================================================================
