------------------------- MODULE PglzCompressProofs -------------------------
(***************************************************************************)
(* Theorems about PglzCompress: the history table is the window of the     *)
(* last characters of the current call, whatever the calls before it left  *)
(* in its entries; the output stays in its buffer; and what is written     *)
(* stands for the source.                                                  *)
(***************************************************************************)
EXTENDS PglzCompress, PglzFormatProofs

Keys == 0 .. HistLists - 1
SlotOrNull == Slot \union {NULL}
Entry == [next: SlotOrNull, prev: SlotOrNull, hindex: Keys, pos: Int]
Table == [start: [Keys -> SlotOrNull], entries: [Slot -> Entry], next: Slot, recycle: BOOLEAN]

LEMMA Sizes ==
  /\ HistSize \in Nat /\ HistSize > 0 /\ ByteCount \in Nat /\ MaxMatch \in Nat
  /\ HistLists \in Nat /\ HistLists > 0
  /\ NULL \notin Slot
<1>1. Nibble \in Nat /\ Nibble >= 2
  BY CompressAssumption
<1>2. \A n \in Nat : n >= 2 => n * n \in Nat /\ n * n > 0
  OBVIOUS
<1>3. ByteCount \in Nat /\ ByteCount > 0
  BY <1>1, <1>2 DEF ByteCount
<1>4. \A m, n \in Nat : m > 0 /\ n > 0 => m * n \in Nat /\ m * n > 0
  OBVIOUS
<1>5. HistSize \in Nat /\ HistSize > 0
  BY <1>1, <1>3, <1>4 DEF HistSize
<1> QED
  BY <1>1, <1>3, <1>5, CompressAssumption DEF MaxMatch, Slot, NULL

(* Taking out an entry with nothing after it keeps the other lists sound.  *)
LEMMA Delinked ==
  ASSUME NEW h \in Table, NEW live \in SUBSET Slot, NEW e \in live,
         ListsSound(h, live), h.entries[e].next = NULL
  PROVE  /\ Delink(h, e) \in Table
         /\ Delink(h, e).next = h.next /\ Delink(h, e).recycle = h.recycle
         /\ \A f \in Slot : /\ Delink(h, e).entries[f].pos = h.entries[f].pos
                            /\ Delink(h, e).entries[f].hindex = h.entries[f].hindex
         /\ ListsSound(Delink(h, e), live \ {e})
<1> DEFINE old == h.entries[e]
           entries == [k \in Slot |->
                         [h.entries[k] EXCEPT !.next = IF k = old.prev THEN old.next ELSE @,
                                              !.prev = IF k = old.next THEN old.prev ELSE @]]
           start == IF old.prev = NULL THEN [h.start EXCEPT ![old.hindex] = old.next]
                                       ELSE h.start
           d == [h EXCEPT !.start = start, !.entries = entries]
<1>1. Delink(h, e) = d
  BY DEF Delink
<1>2. /\ h.start \in [Keys -> SlotOrNull] /\ h.entries \in [Slot -> Entry]
      /\ old \in Entry /\ old.next = NULL /\ old.hindex \in Keys
  BY DEF Table, Entry
<1>3. \A k \in Slot : /\ entries[k] \in Entry
                      /\ entries[k].next = IF k = old.prev THEN NULL ELSE h.entries[k].next
                      /\ entries[k].prev = h.entries[k].prev
                      /\ entries[k].hindex = h.entries[k].hindex
                      /\ entries[k].pos = h.entries[k].pos
  BY <1>2, Sizes DEF Entry, SlotOrNull
<1>4. start \in [Keys -> SlotOrNull]
  BY <1>2 DEF SlotOrNull
<1>5. \A k \in Keys : start[k] = IF old.prev = NULL /\ k = old.hindex THEN NULL ELSE h.start[k]
  BY <1>2
<1>6. /\ d \in Table /\ d.start = start /\ d.entries = entries
      /\ d.next = h.next /\ d.recycle = h.recycle
  BY <1>3, <1>4 DEF Table
<1> HIDE DEF entries, start, d
<1>7. ASSUME NEW f \in live \ {e}
      PROVE  LET x == entries[f]
             IN  /\ x.prev = NULL => start[x.hindex] = f
                 /\ x.prev # NULL => x.prev \in live \ {e} /\ entries[x.prev].next = f
                 /\ x.next # NULL =>
                      /\ x.next \in live \ {e} /\ entries[x.next].prev = f
                      /\ entries[x.next].hindex = x.hindex
                      /\ entries[x.next].pos < x.pos
  <2> DEFINE y == h.entries[f]
  <2>1. /\ f \in Slot /\ e \in Slot /\ f # e
        /\ entries[f].prev = y.prev /\ entries[f].hindex = y.hindex /\ entries[f].pos = y.pos
        /\ entries[f].next = IF f = old.prev THEN NULL ELSE y.next
        /\ y.hindex \in Keys
    BY <1>2, <1>3, <1>7 DEF Entry
  <2>2. /\ y.prev = NULL => h.start[y.hindex] = f
        /\ y.prev # NULL => y.prev \in live /\ h.entries[y.prev].next = f
        /\ y.next # NULL =>
             /\ y.next \in live /\ h.entries[y.next].prev = f
             /\ h.entries[y.next].hindex = y.hindex
             /\ h.entries[y.next].pos < y.pos
    BY <1>7 DEF ListsSound
  <2>3. /\ old.prev = NULL => h.start[old.hindex] = e
        /\ old.prev # NULL => old.prev \in live /\ h.entries[old.prev].next = e
    BY DEF ListsSound
  <2>4. NULL \notin Slot
    BY Sizes
  <2>5. y.prev = NULL => start[y.hindex] = f
    BY <1>5, <2>1, <2>2, <2>3
  <2>6. y.prev # NULL => y.prev \in live \ {e} /\ entries[y.prev].next = f
    BY <1>2, <1>3, <2>1, <2>2, <2>3, <2>4
  <2>7. entries[f].next # NULL =>
             /\ y.next \in live \ {e} /\ entries[y.next].prev = f
             /\ entries[y.next].hindex = y.hindex
             /\ entries[y.next].pos < y.pos
    BY <1>3, <2>1, <2>2, <2>3
  <2> QED
    BY <2>1, <2>5, <2>6, <2>7
<1>8. ASSUME NEW k \in Keys, start[k] # NULL
      PROVE  /\ start[k] \in live \ {e}
             /\ entries[start[k]].hindex = k /\ entries[start[k]].prev = NULL
  <2>1. start[k] = h.start[k] /\ ~ (old.prev = NULL /\ k = old.hindex) /\ k \in DOMAIN h.start
    BY <1>2, <1>5, <1>8
  <2>2. /\ h.start[k] \in live
        /\ h.entries[h.start[k]].hindex = k /\ h.entries[h.start[k]].prev = NULL
    BY <1>8, <2>1 DEF ListsSound
  <2> QED
    BY <1>3, <2>1, <2>2
<1>9. ListsSound(d, live \ {e})
  BY <1>4, <1>6, <1>7, <1>8 DEF ListsSound
<1> QED
  BY <1>1, <1>3, <1>6, <1>9

(* Entering a newer character at the head of a list keeps the lists sound. *)
LEMMA Linked ==
  ASSUME NEW h \in Table, NEW live \in SUBSET Slot, NEW e \in Slot, e \notin live,
         NEW key \in Keys, NEW p \in Int,
         ListsSound(h, live), \A f \in live : h.entries[f].pos < p
  PROVE  /\ Link(h, e, key, p) \in Table
         /\ Link(h, e, key, p).next = h.next /\ Link(h, e, key, p).recycle = h.recycle
         /\ Link(h, e, key, p).entries[e].pos = p
         /\ Link(h, e, key, p).entries[e].hindex = key
         /\ \A f \in live : /\ Link(h, e, key, p).entries[f].pos = h.entries[f].pos
                            /\ Link(h, e, key, p).entries[f].hindex = h.entries[f].hindex
         /\ ListsSound(Link(h, e, key, p), live \union {e})
<1> DEFINE first == h.start[key]
           new == [next |-> first, prev |-> NULL, hindex |-> key, pos |-> p]
           entered == [h.entries EXCEPT ![e] = new]
           entries == IF first = NULL THEN entered ELSE [entered EXCEPT ![first].prev = e]
           start == [h.start EXCEPT ![key] = e]
           l == [h EXCEPT !.entries = entries, !.start[key] = e]
<1>1. Link(h, e, key, p) = l
  BY DEF Link
<1>2. /\ h.start \in [Keys -> SlotOrNull] /\ h.entries \in [Slot -> Entry]
      /\ first \in SlotOrNull /\ key \in DOMAIN h.start
  BY DEF Table
<1>3. first # NULL => /\ first \in live /\ first # e /\ first \in Slot
                      /\ h.entries[first].hindex = key /\ h.entries[first].prev = NULL
  BY <1>2 DEF ListsSound
<1>4. entered \in [Slot -> Entry] /\ entered[e] = new /\ \A k \in Slot \ {e} : entered[k] = h.entries[k]
  BY <1>2, Sizes DEF Entry, SlotOrNull
<1>5. /\ entries \in [Slot -> Entry]
      /\ entries[e] = new
      /\ \A k \in Slot \ {e} : /\ entries[k].next = h.entries[k].next
                               /\ entries[k].hindex = h.entries[k].hindex
                               /\ entries[k].pos = h.entries[k].pos
                               /\ entries[k].prev = IF k = first THEN e ELSE h.entries[k].prev
  <2>1. CASE first = NULL
    BY <1>4, <2>1, Sizes
  <2>2. CASE first # NULL
    <3>1. entries = [entered EXCEPT ![first].prev = e]
      BY <2>2
    <3>2. first \in Slot /\ first # e /\ entered[first] \in Entry
      BY <1>3, <1>4, <2>2
    <3> HIDE DEF entered
    <3> QED
      BY <1>4, <3>1, <3>2 DEF Entry, SlotOrNull
  <2> QED
    BY <2>1, <2>2
<1>6. start \in [Keys -> SlotOrNull] /\ start[key] = e /\ \A k \in Keys \ {key} : start[k] = h.start[k]
  BY <1>2 DEF SlotOrNull
<1>7. /\ l \in Table /\ l.start = start /\ l.entries = entries
      /\ l.next = h.next /\ l.recycle = h.recycle
  BY <1>5, <1>6 DEF Table
<1> HIDE DEF entries, entered, start, l
<1>8. ASSUME NEW f \in live \union {e}
      PROVE  LET x == entries[f]
             IN  /\ x.prev = NULL => start[x.hindex] = f
                 /\ x.prev # NULL => x.prev \in live \union {e} /\ entries[x.prev].next = f
                 /\ x.next # NULL =>
                      /\ x.next \in live \union {e} /\ entries[x.next].prev = f
                      /\ entries[x.next].hindex = x.hindex
                      /\ entries[x.next].pos < x.pos
  <2>1. CASE f = e
    BY <1>3, <1>5, <1>6, <2>1
  <2>2. CASE f # e
    <3> DEFINE y == h.entries[f]
    <3>1. /\ f \in live /\ f \in Slot \ {e} /\ y.hindex \in Keys
          /\ entries[f].next = y.next /\ entries[f].hindex = y.hindex /\ entries[f].pos = y.pos
          /\ entries[f].prev = IF f = first THEN e ELSE y.prev
      BY <1>2, <1>5, <1>8, <2>2 DEF Entry
    <3>2. /\ y.prev = NULL => h.start[y.hindex] = f
          /\ y.prev # NULL => y.prev \in live /\ h.entries[y.prev].next = f
          /\ y.next # NULL =>
               /\ y.next \in live /\ h.entries[y.next].prev = f
               /\ h.entries[y.next].hindex = y.hindex
               /\ h.entries[y.next].pos < y.pos
      BY <3>1 DEF ListsSound
    <3>3. e # NULL /\ (first = f => first # NULL)
      BY <3>1, Sizes
    <3>4. entries[f].prev = NULL => start[y.hindex] = f
      BY <1>6, <3>1, <3>2, <3>3
    <3>5. entries[f].prev # NULL =>
            entries[f].prev \in live \union {e} /\ entries[entries[f].prev].next = f
      <4>1. CASE f = first
        BY <1>5, <3>1, <4>1
      <4>2. CASE f # first
        BY <1>5, <3>1, <3>2, <4>2
      <4> QED
        BY <4>1, <4>2
    <3>6. y.next # NULL =>
               /\ y.next \in live /\ entries[y.next].prev = f
               /\ entries[y.next].hindex = y.hindex
               /\ entries[y.next].pos < y.pos
      <4>1. y.next # NULL => y.next \in Slot \ {e} /\ y.next # first
        BY <1>3, <3>1, <3>2, Sizes
      <4> QED
        BY <1>5, <3>2, <4>1
    <3> QED
      BY <3>1, <3>4, <3>5, <3>6
  <2> QED
    BY <2>1, <2>2
<1>9. ASSUME NEW k \in Keys, start[k] # NULL
      PROVE  /\ start[k] \in live \union {e}
             /\ entries[start[k]].hindex = k /\ entries[start[k]].prev = NULL
  <2>1. CASE k = key
    BY <1>5, <1>6, <2>1
  <2>2. CASE k # key
    <3>1. start[k] = h.start[k] /\ k \in DOMAIN h.start
      BY <1>2, <1>6, <2>2
    <3>2. /\ h.start[k] \in live
          /\ h.entries[h.start[k]].hindex = k /\ h.entries[h.start[k]].prev = NULL
      BY <1>9, <3>1 DEF ListsSound
    <3>3. h.start[k] # first /\ h.start[k] \in Slot \ {e}
      BY <1>3, <1>9, <2>2, <3>1, <3>2
    <3>4. entries[h.start[k]].prev = h.entries[h.start[k]].prev
      BY <1>5, <3>3
    <3>5. entries[h.start[k]].hindex = h.entries[h.start[k]].hindex
      BY <1>5, <3>3
    <3> HIDE DEF first
    <3> QED
      BY <3>1, <3>2, <3>4, <3>5
  <2> QED
    BY <2>1, <2>2
<1>10. ListsSound(l, live \union {e})
  BY <1>6, <1>7, <1>8, <1>9 DEF ListsSound
<1> QED
  BY <1>1, <1>5, <1>7, <1>10

LEMMA KeyInRange ==
  ASSUME Source \in Seq(0 .. ByteCount - 1), NEW d \in Nat, d < Len(Source)
  PROVE  pglz_hist_idx(d) \in Keys
<1>1. \A q \in Nat : q < Len(Source) => Char(q) \in 0 .. ByteCount - 1
  <2> TAKE q \in Nat
  <2>1. q < Len(Source) => q + 1 \in 1 .. Len(Source)
    OBVIOUS
  <2> QED
    BY <2>1, ElementOfSeq DEF Char
<1>2. CASE Len(Source) - d < 4
  <2>1. \A m \in Nat, n \in Nat : n > 0 => m % n \in 0 .. n - 1
    OBVIOUS
  <2>2. Char(d) \in Nat
    BY <1>1, Sizes
  <2> QED
    BY <1>2, <2>1, <2>2, Sizes DEF pglz_hist_idx, Keys
<1>3. CASE ~ (Len(Source) - d < 4)
  <2>1. /\ Char(d) \in 0 .. ByteCount - 1 /\ Char(d + 1) \in 0 .. ByteCount - 1
        /\ Char(d + 2) \in 0 .. ByteCount - 1 /\ Char(d + 3) \in 0 .. ByteCount - 1
    BY <1>1, <1>3
  <2> QED
    BY <1>3, <2>1, CompressAssumption DEF pglz_hist_idx, Keys
<1> QED
  BY <1>2, <1>3

(* Of a full table the entry that is used again is the oldest: its list    *)
(* ends with it.                                                           *)
LEMMA OldestIsLast ==
  ASSUME NEW h \in Table, NEW d \in Nat, Window(h, d), h.recycle
  PROVE  h.entries[h.next].next = NULL
<1>1. Live(h) = Slot /\ h.next \in Slot /\ h.next \in Live(h) /\ HistSize \in Nat
  BY Sizes DEF Live, Table
<1>2. \A f \in Slot : h.entries[f].pos = Position(h, d, f)
  BY <1>1 DEF Window
<1>3. \A f \in Slot : Position(h, d, f) >= Position(h, d, h.next)
  BY <1>1 DEF Position, Slot
<1>4. h.entries[h.next].next # NULL =>
        /\ h.entries[h.next].next \in Slot
        /\ h.entries[h.entries[h.next].next].pos < h.entries[h.next].pos
  BY <1>1 DEF Window, ListsSound
<1>5. \A f \in Slot : Position(h, d, f) \in Int
  BY <1>1 DEF Position, Slot
<1> QED
  BY <1>1, <1>2, <1>3, <1>4, <1>5

(* The table with the place of the next entry free.                        *)
Freed(h) == IF h.recycle THEN Delink(h, h.next) ELSE h

LEMMA FreedKeepsLists ==
  ASSUME NEW h \in Table, NEW d \in Nat, Window(h, d)
  PROVE  /\ Freed(h) \in Table /\ Freed(h).next = h.next /\ Freed(h).recycle = h.recycle
         /\ ListsSound(Freed(h), Live(h) \ {h.next})
         /\ \A f \in Live(h) : /\ Freed(h).entries[f].pos = Position(h, d, f)
                               /\ Freed(h).entries[f].hindex = pglz_hist_idx(Position(h, d, f))
<1>1. Live(h) \in SUBSET Slot /\ h.next \in Slot
  BY Sizes DEF Live, Table, Slot
<1>2. CASE h.recycle
  <2>1. h.next \in Live(h) /\ h.entries[h.next].next = NULL /\ ListsSound(h, Live(h))
    BY <1>1, <1>2, OldestIsLast DEF Live, Window
  <2> QED
    BY <1>1, <1>2, <2>1, Delinked DEF Freed, Window
<1>3. CASE ~ h.recycle
  <2>1. Live(h) \ {h.next} = Live(h)
    BY <1>1, <1>3 DEF Live, Slot
  <2> QED
    BY <1>3, <2>1 DEF Freed, Window
<1> QED
  BY <1>2, <1>3

(* Entering a character moves the window on by one.                        *)
LEMMA Added ==
  ASSUME NEW h \in Table, NEW d \in Nat, Window(h, d),
         Source \in Seq(0 .. ByteCount - 1), d < Len(Source)
  PROVE  pglz_hist_add(h, d) \in Table /\ Window(pglz_hist_add(h, d), d + 1)
<1> DEFINE e == h.next
           rest == Live(h) \ {e}
           l == Link(Freed(h), e, pglz_hist_idx(d), d)
           a == pglz_hist_add(h, d)
<1>1. /\ a = Advance(l) /\ e \in Slot /\ rest \in SUBSET Slot /\ e \notin rest
      /\ HistSize \in Nat /\ HistSize > 0 /\ e \in 0 .. HistSize - 1 /\ h.recycle \in BOOLEAN
  BY Sizes DEF pglz_hist_add, Freed, Live, Table, Slot
<1>2. /\ h.recycle = (d >= HistSize) /\ (~ h.recycle => e = d)
  BY DEF Window
<1>3. \A f \in rest : Position(h, d, f) \in Int /\ Position(h, d, f) < d
  BY <1>1 DEF Position, Slot
<1>4. /\ l \in Table /\ l.next = e /\ l.recycle = h.recycle
      /\ ListsSound(l, rest \union {e})
      /\ l.entries[e].pos = d /\ l.entries[e].hindex = pglz_hist_idx(d)
      /\ \A f \in rest : /\ l.entries[f].pos = Position(h, d, f)
                         /\ l.entries[f].hindex = pglz_hist_idx(Position(h, d, f))
  <2>1. /\ Freed(h) \in Table /\ Freed(h).next = e /\ Freed(h).recycle = h.recycle
        /\ ListsSound(Freed(h), rest)
        /\ \A f \in rest : /\ Freed(h).entries[f].pos = Position(h, d, f)
                           /\ Freed(h).entries[f].hindex = pglz_hist_idx(Position(h, d, f))
    BY FreedKeepsLists
  <2>2. \A f \in rest : Freed(h).entries[f].pos < d
    BY <1>3, <2>1
  <2>3. pglz_hist_idx(d) \in Keys /\ d \in Int
    BY KeyInRange
  <2>e. e \in Slot /\ e \notin rest /\ rest \in SUBSET Slot
    BY <1>1
  <2> HIDE DEF e, rest
  <2>f. PICK g \in Table, key \in Keys : g = Freed(h) /\ key = pglz_hist_idx(d)
    BY <2>1, <2>3
  <2>g. ListsSound(g, rest) /\ \A f \in rest : g.entries[f].pos < d
    BY <2>1, <2>2, <2>f
  <2>h. l = Link(g, e, key, d)
    BY <2>f
  <2> HIDE DEF l
  <2>4. /\ l \in Table /\ l.next = Freed(h).next /\ l.recycle = Freed(h).recycle
        /\ ListsSound(l, rest \union {e})
        /\ l.entries[e].pos = d /\ l.entries[e].hindex = pglz_hist_idx(d)
        /\ \A f \in rest : /\ l.entries[f].pos = Freed(h).entries[f].pos
                           /\ l.entries[f].hindex = Freed(h).entries[f].hindex
    <3>1. /\ Link(g, e, key, d) \in Table
          /\ Link(g, e, key, d).next = g.next /\ Link(g, e, key, d).recycle = g.recycle
          /\ Link(g, e, key, d).entries[e].pos = d
          /\ Link(g, e, key, d).entries[e].hindex = key
          /\ \A f \in rest : /\ Link(g, e, key, d).entries[f].pos = g.entries[f].pos
                             /\ Link(g, e, key, d).entries[f].hindex = g.entries[f].hindex
          /\ ListsSound(Link(g, e, key, d), rest \union {e})
      BY <2>3, <2>e, <2>g, Linked
    <3> QED
      BY <2>f, <2>h, <3>1
  <2> QED
    BY <2>1, <2>4
<1>5. /\ a \in Table /\ a.entries = l.entries /\ a.start = l.start
      /\ a.next = IF e + 1 >= HistSize THEN 0 ELSE e + 1
      /\ a.recycle = (h.recycle \/ e + 1 >= HistSize)
  <2> HIDE DEF a, l, e
  <2>1. CASE e + 1 >= HistSize
    <3>1. a = [l EXCEPT !.next = 0, !.recycle = TRUE]
      BY <1>1, <1>4, <2>1 DEF Advance
    <3>2. 0 \in Slot
      BY <1>1 DEF Slot
    <3>3. a \in Table /\ a.recycle = TRUE /\ a.next = 0 /\ a.entries = l.entries /\ a.start = l.start
      BY <1>4, <3>1, <3>2 DEF Table
    <3>4. (h.recycle \/ e + 1 >= HistSize) = TRUE
      BY <2>1
    <3> QED
      BY <2>1, <3>3, <3>4
  <2>2. CASE ~ (e + 1 >= HistSize)
    <3>1. a = [l EXCEPT !.next = e + 1]
      BY <1>1, <1>4, <2>2 DEF Advance
    <3>2. e + 1 \in Slot
      BY <1>1, <2>2 DEF Slot
    <3>3. a.recycle = h.recycle /\ a.next = e + 1
      BY <1>4, <3>1 DEF Table
    <3> QED
      BY <1>1, <1>4, <2>2, <3>1, <3>2, <3>3 DEF Table
  <2> QED
    BY <2>1, <2>2
<1> HIDE DEF a, l
<1> HIDE DEF e
<1>c. \/ h.recycle /\ a.recycle /\ d >= HistSize
      \/ ~ h.recycle /\ a.recycle /\ e = d /\ e + 1 = HistSize /\ a.next = 0
      \/ ~ h.recycle /\ ~ a.recycle /\ e = d /\ a.next = e + 1 /\ e + 1 < HistSize
  <2>1. CASE h.recycle
    <3>1. a.recycle
      BY <1>5, <2>1
    <3>2. d >= HistSize
      BY <1>2, <2>1
    <3> QED
      BY <2>1, <3>1, <3>2
  <2>2. CASE ~ h.recycle /\ e + 1 >= HistSize
    <3>1. a.recycle
      BY <1>5, <2>2
    <3> QED
      BY <1>1, <1>2, <1>5, <2>2, <3>1
  <2>3. CASE ~ h.recycle /\ ~ (e + 1 >= HistSize)
    <3>1. ~ a.recycle
      BY <1>5, <2>3
    <3> QED
      BY <1>1, <1>2, <1>5, <2>3, <3>1
  <2> QED
    BY <2>1, <2>2, <2>3
<1>l. /\ h.recycle => Live(h) = 0 .. HistSize - 1
      /\ ~ h.recycle => Live(h) = 0 .. e - 1
      /\ a.recycle => Live(a) = 0 .. HistSize - 1
      /\ ~ a.recycle => Live(a) = 0 .. a.next - 1
  BY DEF Live, Slot, e
<1>6. Live(a) = rest \union {e}
  BY <1>1, <1>c, <1>l
<1>7. /\ a.recycle = (d + 1 >= HistSize) /\ (~ a.recycle => a.next = d + 1)
  <2>1. a.recycle \in BOOLEAN
    BY <1>5 DEF Table
  <2>2. a.recycle <=> d + 1 >= HistSize
    BY <1>1, <1>c
  <2> QED
    BY <1>c, <2>1, <2>2
<1>8. /\ Position(a, d + 1, e) = d
      /\ \A f \in rest : Position(a, d + 1, f) = Position(h, d, f)
  <2>1. \A f \in rest : f \in 0 .. HistSize - 1 /\ f # e
    BY <1>1 DEF Slot
  <2>2. \A f : Position(h, d, f) = d - e + f - (IF f < e THEN 0 ELSE HistSize)
    BY DEF Position, e
  <2>3. \A f : Position(a, d + 1, f)
               = (d + 1) - a.next + f - (IF f < a.next THEN 0 ELSE HistSize)
    BY DEF Position
  <2>4. CASE e + 1 >= HistSize
    <3>1. a.next = 0 /\ e = HistSize - 1
      BY <1>1, <1>5, <2>4
    <3> QED
      BY <1>1, <2>1, <2>2, <2>3, <3>1
  <2>5. CASE e + 1 < HistSize
    <3>1. a.next = e + 1
      BY <1>1, <1>5, <2>5
    <3> QED
      BY <1>1, <2>1, <2>2, <2>3, <3>1
  <2> QED
    BY <1>1, <2>4, <2>5
<1>9. ListsSound(a, Live(a))
  BY <1>4, <1>5, <1>6 DEF ListsSound
<1>10. \A f \in Live(a) : /\ a.entries[f].pos = Position(a, d + 1, f)
                          /\ a.entries[f].hindex = pglz_hist_idx(Position(a, d + 1, f))
  BY <1>4, <1>5, <1>6, <1>8
<1> QED
  BY <1>5, <1>7, <1>9, <1>10 DEF Window, a

-----------------------------------------------------------------------------

MatchFields == {"hent", "len", "off", "good"}

(* While a call runs, its place is in its source, a match does not reach   *)
(* past the end of the source, and the history is the window.              *)
CompressInv ==
  /\ calls \in Seq([source: Seq(0 .. ByteCount - 1), strategy: Strategy])
  /\ hist \in Table
  /\ DOMAIN match = MatchFields
  /\ Running \/ pc \in Ended => calls # << >>
  /\ Running =>
       /\ dp \in Nat /\ dp <= Len(Source)
       /\ Window(hist, dp)
  /\ pc \in {"search", "emit"} =>
       /\ dp < Len(Source)
       /\ match.len \in Nat /\ dp + match.len <= Len(Source)
  /\ pc = "add" => left \in Nat /\ dp + left <= Len(Source)

LEMMA SourceType ==
  ASSUME calls \in Seq([source: Seq(0 .. ByteCount - 1), strategy: Strategy]), calls # << >>
  PROVE  Source \in Seq(0 .. ByteCount - 1) /\ Len(Source) \in Nat
<1>1. Head(calls) \in [source: Seq(0 .. ByteCount - 1), strategy: Strategy]
  BY HeadTailProperties
<1> QED
  BY <1>1, LenProperties DEF Source

LEMMA InitInv == Init => CompressInv
<1> SUFFICES ASSUME Init PROVE CompressInv
  OBVIOUS
<1>1. calls \in Seq([source: Seq(0 .. ByteCount - 1), strategy: Strategy])
  BY CompressAssumption DEF Init
<1>2. hist \in Table
  BY Sizes DEF Init, Table, NoLists, Entry, SlotOrNull, Keys, Slot
<1>3. DOMAIN match = MatchFields
  BY DEF Init, NoMatch, MatchFields
<1> QED
  BY <1>1, <1>2, <1>3 DEF Init, CompressInv, Running, Ended

(* A step between two characters moves neither the table nor the place.    *)
LEMMA QuietStep ==
  ASSUME CompressInv, UNCHANGED <<calls, hist, dp>>, Running
  PROVE  /\ calls' \in Seq([source: Seq(0 .. ByteCount - 1), strategy: Strategy])
         /\ hist' \in Table /\ Source' = Source
         /\ calls' # << >> /\ dp' \in Nat /\ dp' <= Len(Source)
         /\ Window(hist, dp)'
  BY DEF CompressInv, Window, pglz_hist_idx, Char, Source

(* So does entering the character at dp, but for the window it moves.      *)
LEMMA AddStep ==
  ASSUME CompressInv, Running, calls' = calls, dp < Len(Source),
         hist' = pglz_hist_add(hist, dp), dp' = dp + 1
  PROVE  /\ calls' \in Seq([source: Seq(0 .. ByteCount - 1), strategy: Strategy])
         /\ hist' \in Table /\ Source' = Source
         /\ calls' # << >> /\ dp' \in Nat /\ dp' <= Len(Source)
         /\ Window(hist, dp)'
<1>1. Source \in Seq(0 .. ByteCount - 1) /\ Len(Source) \in Nat
  BY SourceType DEF CompressInv
<1>2. hist \in Table /\ dp \in Nat /\ Window(hist, dp)
  BY DEF CompressInv
<1>3. PICK g \in Table, d \in Nat : g = hist /\ d = dp
  BY <1>2
<1>4. pglz_hist_add(g, d) \in Table /\ Window(pglz_hist_add(g, d), d + 1)
  BY <1>1, <1>2, <1>3, Added
<1>5. hist' \in Table /\ Window(hist', dp')
  BY <1>3, <1>4
<1>6. Source' = Source
  BY DEF Source
<1>7. Window(hist, dp)'
  BY <1>5, <1>6 DEF Window, pglz_hist_idx, Char
<1> QED
  BY <1>1, <1>2, <1>5, <1>6, <1>7 DEF CompressInv

LEMMA StepInv == CompressInv /\ [Next]_vars => CompressInv'
<1> SUFFICES ASSUME CompressInv, [Next]_vars PROVE CompressInv'
  OBVIOUS
<1> USE DEF Running, Ended
<1>1. CASE Refuse
  BY <1>1 DEF Refuse, Return, CompressInv, Ended
<1>2. CASE Begin
  <2>1. /\ calls' \in Seq([source: Seq(0 .. ByteCount - 1), strategy: Strategy])
        /\ calls' # << >> /\ dp' = 0 /\ pc' = "loop" /\ Len(Source') \in Nat
    <3>1. calls' = calls /\ calls # << >> /\ Source' = Source
      BY <1>2 DEF Begin, Source
    <3> QED
      BY <1>2, <3>1, SourceType DEF Begin, CompressInv
  <2>2. hist' = [hist EXCEPT !.start = NoLists, !.next = 0, !.recycle = FALSE]
    BY <1>2 DEF Begin
  <2>3. /\ hist' \in Table /\ hist'.start = NoLists
        /\ hist'.next = 0 /\ hist'.recycle = FALSE
    <3>1. NoLists \in [Keys -> SlotOrNull] /\ 0 \in Slot
      BY Sizes DEF NoLists, Keys, SlotOrNull, Slot
    <3>2. hist \in Table
      BY DEF CompressInv
    <3> QED
      BY <2>2, <3>1, <3>2 DEF Table
  <2>4. Live(hist') = {}
    BY <2>3 DEF Live
  <2>5. ListsSound(hist', {})
    BY <2>3 DEF ListsSound, NoLists
  <2>6. (dp' >= HistSize) = FALSE
    BY <2>1, Sizes
  <2>7. Window(hist, dp)'
    BY <2>1, <2>3, <2>4, <2>5, <2>6 DEF Window
  <2> QED
    BY <1>2, <2>1, <2>3, <2>7 DEF Begin, CompressInv
<1>3. CASE GiveUp
  BY <1>3 DEF GiveUp, Return, CompressInv, Ended
<1>4. CASE Search
  <2>1. pc = "loop" /\ UNCHANGED <<calls, hist, dp>> /\ dp < Len(Source) /\ pc' = "search"
    BY <1>4 DEF Search
  <2>2. DOMAIN match' = MatchFields /\ match'.len = 0
    BY <1>4 DEF Search, NoMatch, MatchFields
  <2> QED
    BY <2>1, <2>2, QuietStep DEF CompressInv
<1>5. CASE StopSearch
  <2>1. pc = "search" /\ UNCHANGED <<calls, hist, dp, match>> /\ pc' = "emit"
    BY <1>5 DEF StopSearch
  <2> QED
    BY <2>1, QuietStep DEF CompressInv
<1>6. CASE Visit
  <2>1. /\ pc = "search" /\ UNCHANGED <<calls, hist, dp>>
        /\ pc' \in {"search", "emit"}
    BY <1>6 DEF Visit
  <2>2. Source' = Source /\ Len(Source) \in Nat /\ dp \in Nat /\ dp < Len(Source)
    BY <2>1, SourceType DEF CompressInv, Source
  <2>3. DOMAIN match' = MatchFields /\ match'.len \in Nat /\ dp + match'.len <= Len(Source)
    <3> DEFINE After == hist.entries[match.hent].next
               Best(n) == IF n > match.len THEN [match EXCEPT !.len = n, !.off = Offset]
                                           ELSE match
               Stop(n) == After # NULL /\ Best(n).len >= Best(n).good
               Good(n) == IF After = NULL \/ Stop(n) THEN Best(n).good
                          ELSE Best(n).good - (Best(n).good * GoodDrop) \div 100
    <3>0. PICK n \in 0 .. Clamp(Len(Source) - dp, 0, MaxMatch) :
            match' = [Best(n) EXCEPT !.hent = After, !.good = Good(n)]
      BY <1>6 DEF Visit
    <3>a. PICK best, next, good : best = Best(n) /\ next = After /\ good = Good(n)
      OBVIOUS
    <3>1. /\ best = IF n > match.len THEN [match EXCEPT !.len = n, !.off = Offset] ELSE match
          /\ match' = [best EXCEPT !.hent = next, !.good = good]
      BY <3>0, <3>a
    <3> HIDE DEF After, Best, Stop, Good
    <3>2. n \in Nat /\ dp + n <= Len(Source)
      BY <2>2, Sizes DEF Clamp
    <3>3. /\ DOMAIN match = MatchFields
          /\ match.len \in Nat /\ dp + match.len <= Len(Source)
      BY <2>1 DEF CompressInv
    <3>4. DOMAIN best = MatchFields /\ best.len \in {n, match.len}
      BY <3>1, <3>3 DEF MatchFields
    <3>5. DOMAIN match' = MatchFields /\ match'.len = best.len
      BY <3>1, <3>4 DEF MatchFields
    <3> QED
      BY <3>2, <3>3, <3>4, <3>5
  <2> QED
    BY <2>1, <2>2, <2>3, QuietStep DEF CompressInv
<1>7. CASE EmitTag
  <2>1. /\ pc = "emit" /\ UNCHANGED <<calls, hist, dp, match>> /\ pc' = "add"
        /\ left' = match.len
    BY <1>7 DEF EmitTag
  <2> QED
    BY <2>1, QuietStep DEF CompressInv
<1>8. CASE AddMatched
  <2>1. /\ pc = "add" /\ left > 0 /\ calls' = calls /\ UNCHANGED <<match, pc>>
        /\ hist' = pglz_hist_add(hist, dp) /\ dp' = dp + 1 /\ left' = left - 1
    BY <1>8 DEF AddMatched
  <2>2. /\ dp \in Nat /\ left \in Nat /\ dp + left <= Len(Source)
        /\ Len(Source) \in Nat
    BY <2>1, SourceType DEF CompressInv
  <2>3. dp < Len(Source) /\ left' \in Nat /\ dp' + left' <= Len(Source)
    BY <2>1, <2>2
  <2> QED
    BY <2>1, <2>3, AddStep DEF CompressInv
<1>9. CASE AddedAll
  <2>1. pc = "add" /\ UNCHANGED <<calls, hist, dp, match>> /\ pc' = "loop"
    BY <1>9 DEF AddedAll, Return
  <2> QED
    BY <2>1, QuietStep DEF CompressInv
<1>10. CASE EmitLiteral
  <2>1. /\ pc = "emit" /\ calls' = calls /\ match' = match /\ pc' = "loop"
        /\ hist' = pglz_hist_add(hist, dp) /\ dp' = dp + 1
    BY <1>10 DEF EmitLiteral
  <2> QED
    BY <2>1, AddStep DEF CompressInv
<1>11. CASE Finish
  BY <1>11 DEF Finish, CompressInv, Ended
<1>12. CASE NextCall
  <2>1. /\ pc' = "call" /\ calls' = Tail(calls) /\ UNCHANGED <<hist, match>>
        /\ calls # << >>
    BY <1>12 DEF NextCall, CompressInv
  <2>2. calls' \in Seq([source: Seq(0 .. ByteCount - 1), strategy: Strategy])
    BY <2>1, HeadTailProperties DEF CompressInv
  <2> QED
    BY <2>1, <2>2 DEF CompressInv
<1>13. CASE UNCHANGED vars
  <2>1. CASE Running
    BY <1>13, <2>1, QuietStep DEF vars, CompressInv
  <2>2. CASE ~ Running
    BY <1>13, <2>2 DEF vars, CompressInv
  <2> QED
    BY <2>1, <2>2
<1> QED
  BY <1>1, <1>2, <1>3, <1>4, <1>5, <1>6, <1>7, <1>8, <1>9, <1>10, <1>11, <1>12, <1>13
  DEF Next, Step, Terminated

(* For every list of calls the history table is the window of the last     *)
(* characters of the current one: a search of pglz_find_match never meets  *)
(* an entry of an earlier call, although pglz_compress clears only         *)
(* hist_start, and the recycled entries leave their old lists.             *)
THEOREM HistoryIsTheWindow == Spec => []HistoryIsWindow
<1>1. CompressInv => HistoryIsWindow
  BY DEF CompressInv, HistoryIsWindow
<1> QED
  BY <1>1, InitInv, StepInv, PTL DEF Spec

-----------------------------------------------------------------------------

(* The output is a sequence of numbers, with the place of the control byte *)
(* inside it once there is one.                                            *)
Sound(output) ==
  /\ output \in [buf: Seq(Int), ctrlp: Nat, ctrlb: Int, ctrl: Int]
  /\ output.ctrlp <= Len(output.buf)

LEMMA ControlStored ==
  ASSUME NEW x, Sound(x)
  PROVE  WriteControl(x) \in Seq(Int) /\ Len(WriteControl(x)) = Len(x.buf)
<1>1. x.buf \in Seq(Int) /\ x.ctrlp \in Nat /\ x.ctrlb \in Int /\ x.ctrlp <= Len(x.buf)
  BY DEF Sound
<1>2. CASE x.ctrlp = 0
  BY <1>1, <1>2 DEF WriteControl
<1>3. CASE x.ctrlp # 0
  <2>1. x.ctrlp \in 1 .. Len(x.buf)
    BY <1>1, <1>3
  <2>2. [x.buf EXCEPT ![x.ctrlp] = x.ctrlb] \in Seq(Int)
    BY <1>1, <2>1
  <2>3. Len([x.buf EXCEPT ![x.ctrlp] = x.ctrlb]) = Len(x.buf)
    BY <1>1, <2>1, <2>2
  <2> QED
    BY <1>3, <2>2, <2>3 DEF WriteControl
<1> QED
  BY <1>2, <1>3

LEMMA ControlReserved ==
  ASSUME NEW x, Sound(x)
  PROVE  /\ Sound(OutCtrl(x))
         /\ Len(OutCtrl(x).buf) <= Len(x.buf) + 1
<1>1. x.buf \in Seq(Int) /\ Len(x.buf) \in Nat
  BY LenProperties DEF Sound
<1>2. CASE x.ctrl = 0
  <2>1. /\ Append(WriteControl(x), 0) \in Seq(Int)
        /\ Len(Append(WriteControl(x), 0)) = Len(x.buf) + 1
    BY <1>1, ControlStored, AppendProperties
  <2> QED
    BY <1>1, <1>2, <2>1 DEF OutCtrl, Sound
<1>3. CASE x.ctrl # 0
  BY <1>1, <1>3 DEF OutCtrl
<1> QED
  BY <1>2, <1>3

(* An item takes at most the three bytes of a tag and a control byte.      *)
LEMMA ItemIsShort ==
  ASSUME NEW x, Sound(x)
  PROVE  /\ \A b \in Int : /\ Sound(OutLiteral(x, b))
                           /\ Len(OutLiteral(x, b).buf) <= Len(x.buf) + 4
         /\ \A n, f \in Int : /\ Sound(OutTag(x, n, f))
                              /\ Len(OutTag(x, n, f).buf) <= Len(x.buf) + 4
<1> DEFINE c == OutCtrl(x)
<1>1. Sound(c) /\ Len(c.buf) <= Len(x.buf) + 1
  BY ControlReserved
<1>2. /\ c \in [buf: Seq(Int), ctrlp: Nat, ctrlb: Int, ctrl: Int]
      /\ c.buf \in Seq(Int) /\ c.ctrlp \in Nat /\ c.ctrlb \in Int /\ c.ctrl \in Int
      /\ c.ctrlp <= Len(c.buf) /\ Len(c.buf) \in Nat /\ Len(x.buf) \in Nat
  BY <1>1, LenProperties DEF Sound
<1>3. ByteCount \in Nat /\ ByteCount > 0 /\ Nibble \in Nat
  <2>1. Nibble \in Nat /\ Nibble >= 2
    BY CompressAssumption
  <2>2. \A n \in Nat : n >= 2 => n * n \in Nat /\ n * n > 0
    OBVIOUS
  <2> QED
    BY <2>1, <2>2 DEF ByteCount
<1>4. Shift(c.ctrl) \in Int
  BY <1>2, <1>3 DEF Shift
<1>5. ASSUME NEW tail \in Seq(Int), Len(tail) <= 3
      PROVE  c.buf \o tail \in Seq(Int) /\ Len(c.buf \o tail) \in Len(c.buf) .. Len(x.buf) + 4
  <2>1. Len(tail) \in Nat
    BY <1>5, LenProperties
  <2>2. c.buf \o tail \in Seq(Int) /\ Len(c.buf \o tail) = Len(c.buf) + Len(tail)
    BY <1>2, <1>5, ConcatProperties
  <2> QED
    BY <1>1, <1>2, <1>5, <2>1, <2>2
<1>6. ASSUME NEW b \in Int
      PROVE  Sound(OutLiteral(x, b)) /\ Len(OutLiteral(x, b).buf) <= Len(x.buf) + 4
  <2>1. OutLiteral(x, b) = [c EXCEPT !.buf = Append(c.buf, b), !.ctrl = Shift(c.ctrl)]
    BY DEF OutLiteral
  <2>2. Append(c.buf, b) \in Seq(Int) /\ Len(Append(c.buf, b)) = Len(c.buf) + 1
    BY <1>2, AppendProperties
  <2>3. PICK y, s, k : y = c /\ s = Append(c.buf, b) /\ k = Shift(c.ctrl)
    OBVIOUS
  <2>4. /\ y \in [buf: Seq(Int), ctrlp: Nat, ctrlb: Int, ctrl: Int]
        /\ s \in Seq(Int) /\ k \in Int /\ y.ctrlp \in Nat
        /\ y.ctrlp <= Len(s) /\ Len(s) <= Len(x.buf) + 4
    BY <1>1, <1>2, <1>4, <2>2, <2>3
  <2>5. OutLiteral(x, b) = [y EXCEPT !.buf = s, !.ctrl = k]
    BY <2>1, <2>3
  <2> HIDE DEF c
  <2> QED
    BY <2>4, <2>5 DEF Sound
<1>7. ASSUME NEW n \in Int, NEW f \in Int
      PROVE  Sound(OutTag(x, n, f)) /\ Len(OutTag(x, n, f).buf) <= Len(x.buf) + 4
  <2>1. OutTag(x, n, f) = [c EXCEPT !.ctrlb = c.ctrlb + c.ctrl, !.ctrl = Shift(c.ctrl),
                                    !.buf = c.buf \o TagBytes(n, f)]
    BY DEF OutTag
  <2>2. TagBytes(n, f) \in Seq(Int) /\ Len(TagBytes(n, f)) <= 3
    <3> DEFINE high == (f \div ByteCount) * Nibble
               low == f % ByteCount
    <3>1. high \in Int /\ low \in Int
      BY <1>3
    <3>2. PICK i, j, k, m :
            /\ i = high + (Nibble - 1) /\ j = low /\ k = n - (Nibble + 2) /\ m = high + (n - 3)
      OBVIOUS
    <3>3. i \in Int /\ j \in Int /\ k \in Int /\ m \in Int
      BY <1>3, <3>1, <3>2
    <3>4. TagBytes(n, f) = <<i, j, k>> \/ TagBytes(n, f) = <<m, j>>
      BY <3>2 DEF TagBytes
    <3> HIDE DEF high, low
    <3>5. CASE TagBytes(n, f) = <<i, j, k>>
      <4>1. <<i, j, k>> \in Seq(Int) /\ Len(<<i, j, k>>) = 3
        BY <3>3
      <4>2. TagBytes(n, f) \in Seq(Int) /\ Len(TagBytes(n, f)) = 3
        BY <3>5, <4>1, Zenon
      <4> QED
        BY <4>2
    <3>6. CASE TagBytes(n, f) = <<m, j>>
      <4>1. <<m, j>> \in Seq(Int) /\ Len(<<m, j>>) = 2
        BY <3>3
      <4>2. TagBytes(n, f) \in Seq(Int) /\ Len(TagBytes(n, f)) = 2
        BY <3>6, <4>1, Zenon
      <4> QED
        BY <4>2
    <3> QED
      BY <3>4, <3>5, <3>6
  <2>3. /\ c.buf \o TagBytes(n, f) \in Seq(Int)
        /\ Len(c.buf \o TagBytes(n, f)) \in Len(c.buf) .. Len(x.buf) + 4
    BY <1>5, <2>2
  <2>4. c.ctrlb + c.ctrl \in Int
    BY <1>2
  <2>5. PICK y, s, k, m : /\ y = c /\ s = c.buf \o TagBytes(n, f)
                          /\ k = Shift(c.ctrl) /\ m = c.ctrlb + c.ctrl
    OBVIOUS
  <2>6. /\ y \in [buf: Seq(Int), ctrlp: Nat, ctrlb: Int, ctrl: Int]
        /\ s \in Seq(Int) /\ k \in Int /\ m \in Int /\ y.ctrlp \in Nat
        /\ y.ctrlp <= Len(s) /\ Len(s) <= Len(x.buf) + 4
    <3>1. \A i, l, j, r \in Int : r \in i .. j /\ l <= i => l <= r /\ r <= j
      OBVIOUS
    <3>2. Len(x.buf) + 4 \in Int /\ Len(s) \in Len(c.buf) .. Len(x.buf) + 4
      BY <1>2, <2>3, <2>5
    <3> QED
      BY <1>2, <1>4, <2>3, <2>4, <2>5, <3>1, <3>2
  <2>7. OutTag(x, n, f) = [y EXCEPT !.ctrlb = m, !.ctrl = k, !.buf = s]
    BY <2>1, <2>5
  <2> HIDE DEF c
  <2> QED
    BY <2>6, <2>7 DEF Sound
<1> QED
  BY <1>6, <1>7

(* The wanted size is never more than the source.                          *)
LEMMA WantedIsShort ==
  ASSUME calls \in Seq([source: Seq(0 .. ByteCount - 1), strategy: Strategy]), calls # << >>
  PROVE  ResultMax \in Int /\ ResultMax <= Len(Source)
<1> DEFINE rate == Clamp(strategy.min_comp_rate, 0, 99)
<1>1. Len(Source) \in Nat
  BY SourceType
<1>2. strategy.min_comp_rate \in Int
  <2>1. Head(calls) \in [source: Seq(0 .. ByteCount - 1), strategy: Strategy]
    BY HeadTailProperties
  <2> QED
    BY <2>1 DEF strategy, Strategy
<1>3. rate \in 0 .. 99
  <2>1. \A n \in Int : Clamp(n, 0, 99) \in 0 .. 99
    BY DEF Clamp
  <2> QED
    BY <1>2, <2>1
<1>4. \A m \in Nat, k \in 0 .. 100 : m * k \in Nat /\ m * k <= m * 100
  OBVIOUS
<1>5. \A a, m \in Nat : a <= m * 100 => a \div 100 <= m /\ a \div 100 \in Nat
  OBVIOUS
<1>6. 100 - rate \in 0 .. 100
  <2>1. \A n \in 0 .. 99 : 100 - n \in 0 .. 100
    OBVIOUS
  <2> QED
    BY <1>3, <2>1
<1> HIDE DEF rate
<1>7. /\ Len(Source) * (100 - rate) \in Nat
      /\ Len(Source) * (100 - rate) <= Len(Source) * 100
  BY <1>1, <1>4, <1>6
<1>8. (Len(Source) * (100 - rate)) \div 100 \in Nat
      /\ (Len(Source) * (100 - rate)) \div 100 <= Len(Source)
  BY <1>1, <1>5, <1>7
<1>9. (Len(Source) \div 100) * (100 - rate) \in Nat
      /\ (Len(Source) \div 100) * (100 - rate) <= Len(Source)
  <2>1. \A m \in Nat : m \div 100 \in Nat /\ (m \div 100) * 100 <= m
    OBVIOUS
  <2>2. PICK q \in Nat : q = Len(Source) \div 100 /\ q * 100 <= Len(Source)
    BY <1>1, <2>1
  <2>3. q * (100 - rate) \in Nat /\ q * (100 - rate) <= q * 100
    BY <1>4, <1>6
  <2> QED
    BY <1>1, <2>2, <2>3
<1> QED
  BY <1>8, <1>9 DEF ResultMax, rate

(* While an item is searched for, the output is shorter than wanted; the   *)
(* item takes it at most four bytes further before it is looked at again.  *)
BufferInv ==
  /\ Running => Sound(o)
  /\ pc \in {"loop", "add"} => Len(o.buf) <= Len(Source) + 3
  /\ pc \in {"search", "emit"} =>
       /\ Len(o.buf) < Len(Source)
       /\ match.hent \in SlotOrNull /\ match.off \in Int
  /\ pc \in {"failed", "compressed"} => Len(o.buf) <= Len(Source) + 3
  /\ pc = "compressed" => Len(o.buf) < ResultMax

LEMMA BufferInit == Init => BufferInv
  BY DEF Init, BufferInv, Running

LEMMA BufferStep == CompressInv /\ BufferInv /\ [Next]_vars => BufferInv'
<1> SUFFICES ASSUME CompressInv, BufferInv, [Next]_vars PROVE BufferInv'
  OBVIOUS
<1> USE DEF Running, Ended
<1>s. calls \in Seq([source: Seq(0 .. ByteCount - 1), strategy: Strategy])
  BY DEF CompressInv
<1>k. calls' = calls => Source' = Source /\ ResultMax' = ResultMax
  BY DEF Source, ResultMax, strategy
<1>l. calls # << >> => Len(Source) \in Nat /\ ResultMax \in Int /\ ResultMax <= Len(Source)
  BY <1>s, SourceType, WantedIsShort
<1>o. Sound(o) => Len(o.buf) \in Nat
  BY LenProperties DEF Sound
<1>1. CASE Refuse
  BY <1>1 DEF Refuse, Return, BufferInv
<1>2. CASE Begin
  <2>1. o' = NoOutput /\ pc' = "loop" /\ calls' = calls /\ calls # << >>
    BY <1>2 DEF Begin
  <2>2. Sound(o') /\ Len(o'.buf) = 0
    BY <2>1 DEF NoOutput, Sound
  <2> QED
    BY <1>k, <1>l, <2>1, <2>2 DEF BufferInv, Sound
<1>3. CASE GiveUp
  BY <1>3, <1>k DEF GiveUp, Return, out, BufferInv
<1>4. CASE Search
  <2>1. /\ pc = "loop" /\ pc' = "search" /\ calls' = calls /\ o' = o /\ ~ TooLarge
        /\ match' = [NoMatch EXCEPT !.hent = hist.start[pglz_hist_idx(dp)], !.good = GoodMatch]
        /\ dp < Len(Source)
    BY <1>4 DEF Search, out
  <2>2. calls # << >> /\ hist \in Table /\ dp \in Nat
    BY <2>1 DEF CompressInv
  <2>3. Sound(o) /\ Len(o.buf) < Len(Source)
    BY <1>l, <1>o, <2>1, <2>2 DEF BufferInv, TooLarge
  <2>4. match'.hent \in SlotOrNull /\ match'.off = 0
    <3>1. pglz_hist_idx(dp) \in Keys
      BY <1>s, <2>1, <2>2, SourceType, KeyInRange
    <3> QED
      BY <2>1, <2>2, <3>1 DEF Table, NoMatch
  <2> QED
    BY <1>k, <2>1, <2>3, <2>4 DEF BufferInv, Sound
<1>5. CASE StopSearch
  BY <1>5, <1>k DEF StopSearch, out, BufferInv, Sound
<1>6. CASE Visit
  <2>1. /\ pc = "search" /\ pc' \in {"search", "emit"} /\ UNCHANGED <<calls, o>>
        /\ match.hent # NULL
    BY <1>6 DEF Visit, out
  <2>2. match'.hent \in SlotOrNull /\ match'.off \in Int
    <3> DEFINE After == hist.entries[match.hent].next
               Best(n) == IF n > match.len THEN [match EXCEPT !.len = n, !.off = Offset]
                                           ELSE match
               Stop(n) == After # NULL /\ Best(n).len >= Best(n).good
               Good(n) == IF After = NULL \/ Stop(n) THEN Best(n).good
                          ELSE Best(n).good - (Best(n).good * GoodDrop) \div 100
    <3>0. PICK n \in 0 .. Clamp(Len(Source) - dp, 0, MaxMatch) :
            match' = [Best(n) EXCEPT !.hent = After, !.good = Good(n)]
      BY <1>6 DEF Visit
    <3>1. /\ match.hent \in Slot /\ hist \in Table /\ dp \in Nat
          /\ DOMAIN match = MatchFields /\ match.off \in Int
      BY <2>1 DEF CompressInv, BufferInv, SlotOrNull
    <3>2. After \in SlotOrNull /\ Offset \in Int
      BY <3>1 DEF Table, Entry, Offset
    <3>a. PICK best, next, good : best = Best(n) /\ next = After /\ good = Good(n)
      OBVIOUS
    <3>3. /\ best = IF n > match.len THEN [match EXCEPT !.len = n, !.off = Offset] ELSE match
          /\ match' = [best EXCEPT !.hent = next, !.good = good] /\ next \in SlotOrNull
      BY <3>0, <3>2, <3>a
    <3> HIDE DEF After, Best, Stop, Good
    <3>4. DOMAIN best = MatchFields /\ best.off \in Int
      BY <3>1, <3>2, <3>3 DEF MatchFields
    <3> QED
      BY <3>3, <3>4 DEF MatchFields
  <2> QED
    BY <1>k, <2>1, <2>2 DEF BufferInv, Sound
<1>7. CASE EmitTag
  <2>1. /\ pc = "emit" /\ pc' = "add" /\ calls' = calls
        /\ o' = OutTag(o, match.len, match.off)
    BY <1>7 DEF EmitTag
  <2>2. /\ Sound(o) /\ Len(o.buf) < Len(Source) /\ match.off \in Int /\ match.len \in Int
        /\ calls # << >>
    BY <2>1 DEF BufferInv, CompressInv
  <2>3. Sound(o') /\ Len(o'.buf) <= Len(o.buf) + 4
    BY <2>1, <2>2, ItemIsShort
  <2>4. Len(o'.buf) <= Len(Source) + 3
    <3>1. Len(o'.buf) \in Nat
      BY <2>3, LenProperties DEF Sound
    <3> QED
      BY <1>l, <1>o, <2>2, <2>3, <3>1
  <2> QED
    BY <1>k, <2>1, <2>3, <2>4 DEF BufferInv, Sound
<1>8. CASE AddMatched
  BY <1>8, <1>k DEF AddMatched, out, BufferInv, Sound
<1>9. CASE AddedAll
  BY <1>9, <1>k DEF AddedAll, Return, out, BufferInv, Sound
<1>10. CASE EmitLiteral
  <2>1. /\ pc = "emit" /\ pc' = "loop" /\ calls' = calls
        /\ o' = OutLiteral(o, Char(dp))
    BY <1>10 DEF EmitLiteral
  <2>2. /\ Sound(o) /\ Len(o.buf) < Len(Source) /\ dp \in Nat /\ dp < Len(Source)
        /\ calls # << >>
    BY <2>1 DEF BufferInv, CompressInv
  <2>3. Char(dp) \in Int
    <3>1. Source \in Seq(0 .. ByteCount - 1) /\ dp + 1 \in 1 .. Len(Source)
      BY <1>s, <2>2, SourceType
    <3>2. Char(dp) \in 0 .. ByteCount - 1
      BY <3>1, ElementOfSeq DEF Char
    <3> QED
      BY <3>2
  <2>4. Sound(o') /\ Len(o'.buf) <= Len(o.buf) + 4
    BY <2>1, <2>2, <2>3, ItemIsShort
  <2>5. Len(o'.buf) <= Len(Source) + 3
    <3>1. Len(o'.buf) \in Nat
      BY <2>4, LenProperties DEF Sound
    <3> QED
      BY <1>l, <1>o, <2>2, <2>4, <3>1
  <2> QED
    BY <1>k, <2>1, <2>4, <2>5 DEF BufferInv, Sound
<1>11. CASE Finish
  <2>1. /\ pc = "loop" /\ calls' = calls
        /\ o' = [o EXCEPT !.buf = WriteControl(o)]
        /\ pc' = IF Len(o.buf) >= ResultMax THEN "failed" ELSE "compressed"
    BY <1>11 DEF Finish
  <2>2. Sound(o) /\ Len(o.buf) <= Len(Source) + 3 /\ calls # << >>
    BY <2>1 DEF BufferInv, CompressInv
  <2>3. Len(o'.buf) = Len(o.buf)
    BY <2>1, <2>2, ControlStored DEF Sound
  <2> QED
    BY <1>k, <1>l, <1>o, <2>1, <2>2, <2>3 DEF BufferInv
<1>12. CASE NextCall
  BY <1>12 DEF NextCall, BufferInv
<1>13. CASE UNCHANGED vars
  BY <1>13, <1>k DEF vars, BufferInv, Sound
<1> QED
  BY <1>1, <1>2, <1>3, <1>4, <1>5, <1>6, <1>7, <1>8, <1>9, <1>10, <1>11, <1>12, <1>13
  DEF Next, Step, Terminated

(* The four bytes of overrun PGLZ_MAX_OUTPUT allows are never exceeded,    *)
(* for any strategy and any source, and a call that succeeds wrote less    *)
(* than the strategy wants: the size is looked at once per item, and what  *)
(* an item adds is a control byte and three bytes of a tag at most.        *)
THEOREM OutputStaysInBuffer == Spec => []StaysInBuffer
<1>1. CompressInv /\ BufferInv => StaysInBuffer
  <2> SUFFICES ASSUME CompressInv, BufferInv, Running \/ pc \in {"failed", "compressed"}
               PROVE  /\ Len(o.buf) <= Len(Source) + 4
                      /\ pc = "compressed" => Len(o.buf) < ResultMax
    BY DEF StaysInBuffer
  <2>1. Len(Source) \in Nat
    BY SourceType DEF CompressInv, Ended
  <2>2. Len(o.buf) \in Int
    BY LenProperties DEF BufferInv, Sound
  <2> QED
    BY <2>1, <2>2 DEF BufferInv, Running
<1> QED
  BY <1>1, InitInv, StepInv, BufferInit, BufferStep, PTL DEF Spec

-----------------------------------------------------------------------------
(* A run over characters that are the same f back reads them from there.   *)
LEMMA SourceRepeats ==
  ASSUME NEW X, NEW s \in Seq(X), NEW d \in Nat, NEW n \in Nat, NEW f \in 1 .. d,
         d + n <= Len(s), \A j \in 0 .. n - 1 : s[d + j + 1] = s[d + j - f + 1]
  PROVE  \A j \in 0 .. n - 1 : s[d + j + 1] = s[d - f + 1 + (j % f)]
<1> DEFINE Repeats(j) == s[d + j + 1] = s[d - f + 1 + (j % f)]
           S == {m \in 0 .. n : \A j \in 0 .. m - 1 : Repeats(j)}
<1>0. ASSUME NEW m \in 0 .. n - 1, \A j \in 0 .. m - 1 : Repeats(j)
      PROVE  Repeats(m)
  <2>1. s[d + m + 1] = s[d + m - f + 1]
    OBVIOUS
  <2>2. f \in Nat \ {0} /\ m \in Nat
    OBVIOUS
  <2>3. CASE m < f
    <3>1. m % f = m
      BY <2>2, <2>3, RemainderBack
    <3>2. d + m - f + 1 = d - f + 1 + m
      OBVIOUS
    <3> QED
      BY <2>1, <3>1, <3>2
  <2>4. CASE m >= f
    <3>1. (m - f) % f = m % f
      BY <2>2, <2>4, RemainderBack
    <3>2. m - f \in 0 .. m - 1 /\ d + (m - f) + 1 = d + m - f + 1
      BY <2>4
    <3>3. s[d + (m - f) + 1] = s[d - f + 1 + ((m - f) % f)]
      BY <1>0, <3>2
    <3> QED
      BY <2>1, <3>1, <3>2, <3>3
  <2> QED
    BY <2>2, <2>3, <2>4
<1> HIDE DEF Repeats
<1>1. 0 \in S
  OBVIOUS
<1>2. \A m \in 0 .. n - 1 : m \in S => m + 1 \in S
  BY <1>0
<1> HIDE DEF S
<1>3. 0 .. n \subseteq S
  BY <1>1, <1>2, IntervalInduction
<1>4. n \in S
  BY <1>3
<1> QED
  BY <1>4 DEF S, Repeats

(* So it extends the text before it to the text as far as the run goes.    *)
LEMMA RunTakes ==
  ASSUME NEW X, NEW s \in Seq(X), NEW d \in Nat, NEW n \in Nat, NEW f \in 1 .. d,
         d + n <= Len(s), \A j \in 0 .. n - 1 : s[d + j + 1] = s[d + j - f + 1]
  PROVE  Extend(SubSeq(s, 1, d), Run(n, f)) = SubSeq(s, 1, d + n)
<1> DEFINE text == SubSeq(s, 1, d)
           copy == [k \in 1 .. n |-> text[d - f + 1 + ((k - 1) % f)]]
           whole == SubSeq(s, 1, d + n)
<1>1. Len(s) \in Nat /\ d \in 0 .. Len(s)
  BY LenProperties
<1>2. text \in Seq(X) /\ Len(text) = d /\ \A k \in 1 .. d : text[k] = s[k]
  BY <1>1
<1>3. whole \in Seq(X) /\ Len(whole) = d + n /\ \A k \in 1 .. d + n : whole[k] = s[k]
  BY <1>1
<1>4. \A k \in 1 .. n : copy[k] = s[d + k]
  <2> SUFFICES ASSUME NEW k \in 1 .. n
               PROVE  copy[k] = s[d + k]
    OBVIOUS
  <2>1. k - 1 \in 0 .. n - 1 /\ f \in Nat \ {0} /\ k - 1 \in Nat
    OBVIOUS
  <2>2. (k - 1) % f \in 0 .. f - 1
    BY <2>1, RemainderBack
  <2>3. s[d + (k - 1) + 1] = s[d - f + 1 + ((k - 1) % f)]
    <3>1. \A j \in 0 .. n - 1 : s[d + j + 1] = s[d - f + 1 + (j % f)]
      BY SourceRepeats
    <3> QED
      BY <2>1, <3>1
  <2>4. d + (k - 1) + 1 = d + k
    OBVIOUS
  <2> DEFINE r == (k - 1) % f
  <2> HIDE DEF r, text, whole
  <2>5. d - f + 1 + r \in 1 .. d
    BY <2>2 DEF r
  <2>6. copy[k] = text[d - f + 1 + r]
    BY DEF r
  <2> QED
    BY <1>2, <2>3, <2>4, <2>5, <2>6 DEF r
<1>5. copy \in Seq(X) /\ Len(copy) = n
  <2>1. \A k \in 1 .. n : copy[k] \in X
    <3>1. \A k \in 1 .. n : d + k \in 1 .. Len(s)
      BY <1>1
    <3> HIDE DEF copy
    <3> QED
      BY <1>4, <3>1, ElementOfSeq
  <2>2. copy \in [1 .. n -> X]
    BY <2>1
  <2> HIDE DEF copy
  <2> QED
    BY <2>2
<1>6. Extend(text, Run(n, f)) = text \o copy
  BY <1>2 DEF Extend, Run
<1> HIDE DEF text, copy, whole
<1>7. /\ text \o copy \in Seq(X) /\ Len(text \o copy) = d + n
      /\ \A k \in 1 .. d + n : (text \o copy)[k] = IF k <= d THEN text[k] ELSE copy[k - d]
  BY <1>2, <1>5, ConcatProperties
<1>8. \A k \in 1 .. d + n : (text \o copy)[k] = s[k]
  <2> SUFFICES ASSUME NEW k \in 1 .. d + n
               PROVE  (text \o copy)[k] = s[k]
    OBVIOUS
  <2>1. CASE k <= d
    BY <1>2, <1>7, <2>1
  <2>2. CASE k > d
    <3>1. k - d \in 1 .. n /\ d + (k - d) = k
      BY <2>2
    <3>2. copy[k - d] = s[k]
      BY <1>4, <3>1
    <3>3. ~ (k <= d)
      BY <2>2
    <3> QED
      BY <1>7, <3>2, <3>3
  <2>3. k <= d \/ k > d
    OBVIOUS
  <2> QED
    BY <2>1, <2>2, <2>3
<1>9. text \o copy = whole
  BY <1>3, <1>7, <1>8, SeqEqual
<1> QED
  BY <1>6, <1>9 DEF text, whole

LEMMA LiteralTakes ==
  ASSUME NEW X, NEW s \in Seq(X), NEW d \in Nat, d < Len(s)
  PROVE  Extend(SubSeq(s, 1, d), Lit(s[d + 1])) = SubSeq(s, 1, d + 1)
<1>1. Extend(SubSeq(s, 1, d), Lit(s[d + 1])) = Append(SubSeq(s, 1, d), s[d + 1])
  BY DEF Extend, Lit
<1>2. Append(SubSeq(s, 1, d), s[d + 1]) = SubSeq(s, 1, d + 1)
  OBVIOUS
<1> QED
  BY <1>1, <1>2

-----------------------------------------------------------------------------
(* What was written stands for the characters passed.                      *)

WrittenItem == [kind: {"literal"}, byte: Int] \union [kind: {"run"}, len: Nat, off: Nat]

(* The match found so far repeats the characters at dp, and begins in this *)
(* call's text, near enough for a tag.                                     *)
Found ==
  match.len > 0 =>
    /\ match.len <= MaxMatch
    /\ match.off \in 1 .. dp /\ match.off < MaxOffset
    /\ Same(match.off, match.len)

WritesInv ==
  /\ pc # "add" => left = 0
  /\ items \in Seq(WrittenItem)
  /\ Running \/ pc = "compressed" =>
       /\ WellFormedItems(items)
       /\ Expand(items) = SubSeq(Source, 1, dp + left)
  /\ Running => Emitted(items) = o
  /\ pc \in {"search", "emit"} => Found
  /\ pc = "search" => match.hent \in Live(hist) \union {NULL}
  /\ pc = "compressed" => dp = Len(Source) /\ o.buf = Encode(items)

(* The entries of the window are for characters before the current one.    *)
LEMMA PositionBefore ==
  ASSUME NEW h \in Table, NEW d \in Nat, Window(h, d), NEW e \in Live(h)
  PROVE  e \in Slot /\ h.entries[e].pos \in 0 .. d - 1
<1>1. h.next \in Slot /\ HistSize \in Nat
  BY Sizes DEF Table
<1>2. h.entries[e].pos = Position(h, d, e) /\ (h.recycle = (d >= HistSize)) /\ (~ h.recycle => h.next = d)
  BY DEF Window
<1>3. CASE h.recycle
  <2>1. e \in Slot
    BY <1>3 DEF Live
  <2>2. d >= HistSize
    BY <1>2, <1>3
  <2> QED
    BY <1>1, <1>2, <2>1, <2>2 DEF Position, Slot
<1>4. CASE ~ h.recycle
  <2>1. e \in 0 .. h.next - 1 /\ h.next = d
    BY <1>2, <1>4 DEF Live
  <2> QED
    BY <1>1, <1>2, <2>1 DEF Position, Slot
<1> QED
  BY <1>3, <1>4

(* A list leads through the window only.                                   *)
LEMMA ListsStayLive ==
  ASSUME NEW h \in Table, NEW d, Window(h, d)
  PROVE  /\ \A k \in Keys : h.start[k] \in Live(h) \union {NULL}
         /\ \A e \in Live(h) : h.entries[e].next \in Live(h) \union {NULL}
<1>1. ListsSound(h, Live(h)) /\ DOMAIN h.start = Keys
  BY DEF Window, Table
<1> QED
  BY <1>1 DEF ListsSound

LEMMA WritesInit == Init => WritesInv
<1> SUFFICES ASSUME Init PROVE WritesInv
  OBVIOUS
<1>1. items = << >> /\ items \in Seq(WrittenItem) /\ left = 0 /\ pc = "call"
  BY DEF Init
<1> QED
  BY <1>1 DEF WritesInv, Running

(* The search moves to a longer match only if it is one.                   *)
LEMMA VisitFinds ==
  ASSUME CompressInv, WritesInv, Visit
  PROVE  Found' /\ match'.hent \in Live(hist) \union {NULL}
<1> DEFINE After == hist.entries[match.hent].next
           Best(n) == IF n > match.len THEN [match EXCEPT !.len = n, !.off = Offset]
                                       ELSE match
           Stop(n) == After # NULL /\ Best(n).len >= Best(n).good
           Good(n) == IF After = NULL \/ Stop(n) THEN Best(n).good
                      ELSE Best(n).good - (Best(n).good * GoodDrop) \div 100
<1>1. PICK n \in 0 .. Clamp(Len(Source) - dp, 0, MaxMatch) :
        /\ match' = [Best(n) EXCEPT !.hent = After, !.good = Good(n)]
        /\ Matches(Offset, n)
  BY DEF Visit
<1>2. PICK best, next, good : best = Best(n) /\ next = After /\ good = Good(n)
  OBVIOUS
<1>3. /\ best = IF n > match.len THEN [match EXCEPT !.len = n, !.off = Offset] ELSE match
      /\ match' = [best EXCEPT !.hent = next, !.good = good] /\ next = After
  BY <1>1, <1>2
<1>4. /\ pc = "search" /\ match.hent # NULL /\ InReach /\ UNCHANGED <<calls, hist, dp>>
      /\ DOMAIN match = MatchFields /\ match.len \in Nat
      /\ hist \in Table /\ dp \in Nat /\ dp < Len(Source) /\ Window(hist, dp)
      /\ Len(Source) \in Nat /\ MaxMatch \in Nat /\ Found
      /\ match.hent \in Live(hist)
  <2>1. calls # << >> /\ calls \in Seq([source: Seq(0 .. ByteCount - 1), strategy: Strategy])
    BY DEF CompressInv, Visit, Running
  <2>2. Len(Source) \in Nat
    BY <2>1, SourceType
  <2> QED
    BY <2>2, Sizes DEF CompressInv, WritesInv, Visit, Running
<1>5. After \in Live(hist) \union {NULL}
  BY <1>4, ListsStayLive
<1>6. hist.entries[match.hent].pos \in 0 .. dp - 1
  BY <1>4, PositionBefore
<1>7. Offset \in 1 .. dp /\ Offset < MaxOffset
  BY <1>4, <1>6 DEF Offset, InReach
<1>8. Same(Offset, n)
  BY <1>1 DEF Matches
<1>9. n \in Nat /\ n <= MaxMatch
  BY <1>4 DEF Clamp
<1> HIDE DEF After, Best, Stop, Good
<1>10. /\ match'.hent = next
       /\ \/ n > match.len /\ match'.len = n /\ match'.off = Offset
          \/ match'.len = match.len /\ match'.off = match.off
  <2>1. DOMAIN best = MatchFields
    BY <1>3, <1>4 DEF MatchFields
  <2>2. match'.hent = next /\ match'.len = best.len /\ match'.off = best.off
    BY <1>3, <2>1 DEF MatchFields
  <2>3. CASE n > match.len
    BY <1>3, <1>4, <2>2, <2>3 DEF MatchFields
  <2>4. CASE ~ (n > match.len)
    BY <1>3, <2>2, <2>4
  <2> QED
    BY <2>3, <2>4
<1>11. PICK f, l : f = match'.off /\ l = match'.len
  OBVIOUS
<1>12. l > 0 => l <= MaxMatch /\ f \in 1 .. dp /\ f < MaxOffset /\ Same(f, l)
  <2>1. CASE l = n /\ f = Offset
    BY <1>7, <1>8, <1>9, <2>1
  <2>2. CASE l = match.len /\ f = match.off
    BY <1>4, <2>2 DEF Found
  <2> QED
    BY <1>10, <1>11, <2>1, <2>2
<1>13. \A a, b : Same(a, b)' <=> Same(a, b)
  BY <1>4 DEF Same, Char, Source
<1>14. Found'
  BY <1>4, <1>11, <1>12, <1>13 DEF Found, MaxMatch, MaxOffset, HistSize, ByteCount
<1> QED
  BY <1>3, <1>5, <1>10, <1>14 DEF After

(* The text written is not disturbed by a step that writes nothing.        *)
LEMMA QuietWrites ==
  ASSUME WritesInv, Running, UNCHANGED <<calls, dp, left, o, items>>
  PROVE  /\ items' \in Seq(WrittenItem) /\ WellFormedItems(items')
         /\ Expand(items') = SubSeq(Source', 1, dp' + left')
         /\ Emitted(items') = o'
  BY DEF WritesInv, Source

(* A tag stands for the characters of the match.                           *)
LEMMA TagWrites ==
  ASSUME CompressInv, BufferInv, WritesInv, EmitTag
  PROVE  WritesInv'
<1>1. /\ pc = "emit" /\ pc' = "add" /\ match.len > 2 /\ UNCHANGED <<calls, dp>>
      /\ o' = OutTag(o, match.len, match.off) /\ left' = match.len
      /\ items' = Append(items, Run(match.len, match.off))
  BY DEF EmitTag
<1>2. /\ calls # << >> /\ calls \in Seq([source: Seq(0 .. ByteCount - 1), strategy: Strategy])
      /\ dp \in Nat /\ match.len \in Nat /\ dp + match.len <= Len(Source)
  BY <1>1 DEF CompressInv, Running
<1>3. Source \in Seq(0 .. ByteCount - 1) /\ Len(Source) \in Nat /\ Source' = Source
  BY <1>1, <1>2, SourceType DEF Source
<1>4. /\ items \in Seq(WrittenItem) /\ WellFormedItems(items) /\ Emitted(items) = o
      /\ Expand(items) = SubSeq(Source, 1, dp)
  <2>1. left = 0 /\ dp + 0 = dp
    BY <1>1, <1>2 DEF WritesInv
  <2> QED
    BY <1>1, <2>1 DEF WritesInv, Running
<1>5. /\ match.len <= MaxMatch /\ match.off \in 1 .. dp /\ match.off < MaxOffset
      /\ Same(match.off, match.len)
  BY <1>1, <1>2 DEF WritesInv, Found
<1> DEFINE item == Run(match.len, match.off)
<1>6. item \in WrittenItem /\ item.kind = "run" /\ item.len = match.len /\ item.off = match.off
  BY <1>2, <1>5 DEF Run, WrittenItem
<1>7. RunFits(Expand(items), item)
  <2>1. Len(SubSeq(Source, 1, dp)) = dp
    BY <1>2, <1>3
  <2> HIDE DEF item
  <2>2. item.len \in 3 .. Nibble + 1 + ByteCount
    BY <1>1, <1>2, <1>5, <1>6, CompressAssumption, Sizes DEF MaxMatch
  <2>3. item.off < Nibble * ByteCount - 1
    BY <1>5, <1>6 DEF MaxOffset, HistSize
  <2> QED
    BY <1>4, <1>5, <1>6, <2>1, <2>2, <2>3 DEF RunFits
<1>8. Extend(SubSeq(Source, 1, dp), Run(match.len, match.off)) = SubSeq(Source, 1, dp + match.len)
  <2>1. PICK src, l, f : src = Source /\ l = match.len /\ f = match.off
    OBVIOUS
  <2>2. \A j \in 0 .. l - 1 : src[dp + j + 1] = src[dp + j - f + 1]
    BY <1>5, <2>1 DEF Same, Char
  <2>3. /\ src \in Seq(0 .. ByteCount - 1) /\ l \in Nat /\ f \in 1 .. dp /\ dp + l <= Len(src)
    BY <1>2, <1>3, <1>5, <2>1
  <2>4. Extend(SubSeq(src, 1, dp), Run(l, f)) = SubSeq(src, 1, dp + l)
    BY <1>2, <2>2, <2>3, RunTakes
  <2> QED
    BY <2>1, <2>4
<1> HIDE DEF item
<1>9. items' = Append(items, item)
  BY <1>1 DEF item
<1>10. items' \in Seq(WrittenItem)
  BY <1>4, <1>6, <1>9, AppendProperties
<1>11. /\ Expand(items') = Extend(Expand(items), item)
       /\ Emitted(items') = Emit(Emitted(items), item)
  BY <1>4, <1>6, <1>9, OneMoreItem
<1>12. WellFormedItems(items')
  BY <1>4, <1>6, <1>7, <1>9, WellFormedAppend
<1>13. Emitted(items') = o'
  BY <1>1, <1>4, <1>6, <1>11 DEF Emit
<1>14. Expand(items') = SubSeq(Source', 1, dp' + left')
  BY <1>1, <1>3, <1>4, <1>8, <1>11 DEF item
<1> QED
  BY <1>1, <1>10, <1>12, <1>13, <1>14 DEF WritesInv, Running

LEMMA LiteralWrites ==
  ASSUME CompressInv, BufferInv, WritesInv, EmitLiteral
  PROVE  WritesInv'
<1>1. /\ pc = "emit" /\ pc' = "loop" /\ UNCHANGED <<calls, left>> /\ dp' = dp + 1
      /\ o' = OutLiteral(o, Char(dp)) /\ items' = Append(items, Lit(Char(dp)))
  BY DEF EmitLiteral
<1>2. /\ calls # << >> /\ calls \in Seq([source: Seq(0 .. ByteCount - 1), strategy: Strategy])
      /\ dp \in Nat /\ dp < Len(Source)
  BY <1>1 DEF CompressInv, Running
<1>3. Source \in Seq(0 .. ByteCount - 1) /\ Len(Source) \in Nat /\ Source' = Source
  BY <1>1, <1>2, SourceType DEF Source
<1>4. /\ items \in Seq(WrittenItem) /\ WellFormedItems(items) /\ Emitted(items) = o
      /\ Expand(items) = SubSeq(Source, 1, dp) /\ left = 0
  <2>1. left = 0 /\ dp + 0 = dp
    BY <1>1, <1>2 DEF WritesInv
  <2> QED
    BY <1>1, <2>1 DEF WritesInv, Running
<1> DEFINE item == Lit(Char(dp))
<1>5. item \in WrittenItem /\ item.kind = "literal" /\ item.byte = Char(dp)
  <2>1. dp + 1 \in 1 .. Len(Source)
    BY <1>2, <1>3
  <2>2. Char(dp) \in 0 .. ByteCount - 1
    BY <1>3, <2>1, ElementOfSeq DEF Char
  <2>3. Char(dp) \in Int
    BY <2>2
  <2> QED
    BY <2>3 DEF Lit, WrittenItem
<1>6. Extend(SubSeq(Source, 1, dp), item) = SubSeq(Source, 1, dp + 1)
  BY <1>2, <1>3, LiteralTakes DEF Char
<1> HIDE DEF item
<1>7. items' = Append(items, item)
  BY <1>1 DEF item
<1>8. items' \in Seq(WrittenItem)
  BY <1>4, <1>5, <1>7, AppendProperties
<1>9. /\ Expand(items') = Extend(Expand(items), item)
      /\ Emitted(items') = Emit(Emitted(items), item)
  BY <1>4, <1>5, <1>7, OneMoreItem
<1>10. WellFormedItems(items')
  BY <1>4, <1>5, <1>7, WellFormedAppend
<1>11. Emitted(items') = o'
  BY <1>1, <1>4, <1>5, <1>9 DEF Emit
<1>12. Expand(items') = SubSeq(Source', 1, dp' + left')
  <2>1. dp' + left' = dp + 1
    BY <1>1, <1>2, <1>4
  <2> QED
    BY <1>3, <1>4, <1>6, <1>9, <2>1
<1> QED
  BY <1>1, <1>4, <1>8, <1>10, <1>11, <1>12 DEF WritesInv, Running

LEMMA WritesStep == CompressInv /\ BufferInv /\ WritesInv /\ [Next]_vars => WritesInv'
<1> SUFFICES ASSUME CompressInv, BufferInv, WritesInv, [Next]_vars PROVE WritesInv'
  OBVIOUS
<1> USE DEF Running, Ended
<1>k. UNCHANGED <<calls, dp, match>> => (Found' <=> Found)
  BY DEF Found, Same, Char, Source, MaxMatch, MaxOffset, HistSize, ByteCount
<1>1. CASE Refuse
  BY <1>1 DEF Refuse, Return, out, WritesInv
<1>2. CASE Begin
  <2>1. /\ pc = "call" /\ pc' = "loop" /\ dp' = 0 /\ o' = NoOutput /\ items' = << >>
        /\ left' = left
    BY <1>2 DEF Begin
  <2>2. items' \in Seq(WrittenItem)
    BY <2>1
  <2>3. WellFormedItems(items')
    BY <2>1 DEF WellFormedItems
  <2>4. SubSeq(Source', 1, 0) = << >>
    <3>1. Source \in Seq(0 .. ByteCount - 1) /\ Source' = Source
      BY <1>2, SourceType DEF Begin, CompressInv, Source
    <3> QED
      BY <3>1
  <2>5. left = 0 /\ dp' + left' = 0
    BY <2>1 DEF WritesInv
  <2>6. Expand(items') = SubSeq(Source', 1, dp' + left') /\ Emitted(items') = o'
    BY <2>1, <2>4, <2>5, NoItems
  <2> QED
    BY <2>1, <2>2, <2>3, <2>5, <2>6 DEF WritesInv
<1>3. CASE GiveUp
  BY <1>3 DEF GiveUp, Return, out, WritesInv
<1>4. CASE Search
  <2>1. /\ pc = "loop" /\ pc' = "search" /\ UNCHANGED <<calls, hist, dp, o, items, left>>
        /\ match' = [NoMatch EXCEPT !.hent = hist.start[pglz_hist_idx(dp)], !.good = GoodMatch]
        /\ dp < Len(Source)
    BY <1>4 DEF Search, out
  <2>2. /\ calls # << >> /\ calls \in Seq([source: Seq(0 .. ByteCount - 1), strategy: Strategy])
        /\ hist \in Table /\ dp \in Nat /\ Window(hist, dp)
    BY <2>1 DEF CompressInv
  <2>3. pglz_hist_idx(dp) \in Keys
    BY <2>1, <2>2, SourceType, KeyInRange
  <2>4. match'.len = 0 /\ match'.hent = hist.start[pglz_hist_idx(dp)]
    BY <2>1 DEF NoMatch
  <2>5. match'.hent \in Live(hist) \union {NULL}
    BY <2>2, <2>3, <2>4, ListsStayLive
  <2>6. Live(hist)' = Live(hist)
    BY <2>1 DEF Live
  <2>7. Found'
    BY <2>4 DEF Found
  <2>8. left' = 0
    BY <2>1 DEF WritesInv
  <2> QED
    BY <2>1, <2>5, <2>6, <2>7, <2>8, QuietWrites DEF WritesInv
<1>5. CASE StopSearch
  <2>1. pc = "search" /\ pc' = "emit" /\ UNCHANGED <<calls, dp, o, items, left, match>>
    BY <1>5 DEF StopSearch, out
  <2> QED
    BY <1>k, <2>1, QuietWrites DEF WritesInv
<1>6. CASE Visit
  <2>1. /\ pc = "search" /\ pc' \in {"search", "emit"}
        /\ UNCHANGED <<calls, dp, o, items, left, hist>>
    BY <1>6 DEF Visit, out
  <2>2. Found' /\ match'.hent \in Live(hist) \union {NULL}
    BY <1>6, VisitFinds
  <2>3. Live(hist)' = Live(hist)
    BY <2>1 DEF Live
  <2> QED
    BY <2>1, <2>2, <2>3, QuietWrites DEF WritesInv
<1>7. CASE EmitTag
  BY <1>7, TagWrites
<1>8. CASE AddMatched
  <2>1. /\ pc = "add" /\ left > 0 /\ UNCHANGED <<calls, o, items, pc>>
        /\ dp' = dp + 1 /\ left' = left - 1
    BY <1>8 DEF AddMatched, out
  <2>2. dp \in Nat /\ left \in Nat /\ Source' = Source
    BY <2>1 DEF CompressInv, Source
  <2>3. dp' + left' = dp + left
    BY <2>1, <2>2
  <2> QED
    BY <2>1, <2>2, <2>3 DEF WritesInv
<1>9. CASE AddedAll
  <2>1. /\ pc = "add" /\ pc' = "loop" /\ left = 0
        /\ UNCHANGED <<calls, dp, o, items, left>>
    BY <1>9 DEF AddedAll, Return, out
  <2> QED
    BY <2>1, QuietWrites DEF WritesInv
<1>10. CASE EmitLiteral
  BY <1>10, LiteralWrites
<1>11. CASE Finish
  <2>1. /\ pc = "loop" /\ pc' \in {"failed", "compressed"} /\ dp >= Len(Source)
        /\ UNCHANGED <<calls, dp, items, left>>
        /\ o' = [o EXCEPT !.buf = WriteControl(o)]
    BY <1>11 DEF Finish
  <2>2. dp = Len(Source) /\ Source' = Source
    <3>1. dp \in Nat /\ dp <= Len(Source) /\ Len(Source) \in Nat
      BY <2>1, SourceType DEF CompressInv
    <3> QED
      BY <2>1, <3>1 DEF Source
  <2>3. o'.buf = WriteControl(o) /\ Emitted(items) = o
    BY <2>1 DEF BufferInv, Sound, WritesInv
  <2>4. o'.buf = Encode(items')
    BY <2>1, <2>3 DEF Encode
  <2> QED
    BY <2>1, <2>2, <2>4 DEF WritesInv
<1>12. CASE NextCall
  BY <1>12 DEF NextCall, out, WritesInv
<1>13. CASE UNCHANGED vars
  <2>1. UNCHANGED <<calls, hist, dp, o, match, left, items, pc>>
    BY <1>13 DEF vars
  <2>2. Live(hist)' = Live(hist) /\ Source' = Source
    BY <2>1 DEF Live, Source
  <2> QED
    BY <1>k, <2>1, <2>2 DEF WritesInv
<1> QED
  BY <1>1, <1>2, <1>3, <1>4, <1>5, <1>6, <1>7, <1>8, <1>9, <1>10, <1>11, <1>12, <1>13
  DEF Next, Step, Terminated

(* For every list of calls, all strategies and all texts: what is written  *)
(* stands for the characters passed, every run is one a tag can hold, and  *)
(* a call that succeeds has written its whole source.                      *)
THEOREM CompressionIsLossless == Spec => []WritesItsSource
<1>1. WritesInv => WritesItsSource
  BY DEF WritesInv, WritesItsSource
<1> QED
  BY <1>1, InitInv, StepInv, BufferInit, BufferStep, WritesInit, WritesStep, PTL DEF Spec

=============================================================================
