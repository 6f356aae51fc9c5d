--------------------------- MODULE TableDumpProofs ---------------------------
(***************************************************************************)
(* The table dump for every file, every page geometry and every batch      *)
(* size: the variables keep their ranges, the count that drives the        *)
(* batches is the number of rows in the script, no row printed behind a    *)
(* page whose read broke off is a new one, the rows are those of the file  *)
(* in its order, the statements are full, and loading the script loads the *)
(* rows printed, all of them or, if the dump was interrupted, none.        *)
(***************************************************************************)
EXTENDS TableDump, Induction, SequenceTheorems, FiniteSetTheorems, TLAPS

-----------------------------------------------------------------------------

LEMMA Remainder ==
  ASSUME NEW a \in Nat, NEW m \in Nat \ {0}
  PROVE  a % m \in Nat /\ a % m <= a
  <1>1. a % m \in Nat /\ a \div m \in Nat
    OBVIOUS
  <1>2. a = m * (a \div m) + (a % m)
    OBVIOUS
  <1>3. m * (a \div m) >= 0
    BY <1>1
  <1>4. QED  BY <1>1, <1>2, <1>3

(* The pages main counts are pages of the file.                            *)
LEMMA PagesInFile ==
  ASSUME call \in Call
  PROVE  Pages \in Nat /\ Pages <= Len(call.file)
  <1> DEFINE n == Len(call.file)
             w == Word(FileBytes)
  <1>1. /\ n \in Nat /\ call.tail \in 0 .. PageSize - 1
        /\ PageSize \in Nat \ {0} /\ WordMod \in Nat \ {0}
    BY PageAssumption DEF Call
  <1>2. PageSize * n \in Nat /\ FileBytes = PageSize * n + call.tail
    BY <1>1 DEF FileBytes
  <1>3. w \in Nat /\ w <= FileBytes
    BY <1>1, <1>2, Remainder DEF Word
  <1>4. w < PageSize * n + PageSize
    BY <1>1, <1>2, <1>3
  <1> HIDE DEF n, w
  <1>5. /\ w \div PageSize \in Nat
        /\ PageSize * (w \div PageSize) <= w
    BY <1>1, <1>3
  <1>6. ASSUME w \div PageSize >= n + 1
        PROVE  FALSE
    <2>1. PageSize * (w \div PageSize) >= PageSize * (n + 1)
      BY <1>1, <1>5, <1>6
    <2>2. PageSize * (n + 1) = PageSize * n + PageSize
      BY <1>1
    <2>3. QED  BY <1>1, <1>2, <1>3, <1>4, <1>5, <2>1, <2>2
  <1>7. w \div PageSize <= n
    BY <1>1, <1>5, <1>6
  <1>8. QED  BY <1>5, <1>7 DEF Pages, w, n

(* What read_page_buffer may hold: a page, or parts of two.                *)
BufferPage == [lower: Nat, linp: Seq(TupleItem \union {ZeroItem})]

LEMMA PagesAreBuffers == TablePage \subseteq BufferPage /\ ZeroPage \in BufferPage
  BY DEF TablePage, BufferPage, ZeroPage

(* A line pointer that is followed is that of a tuple.                     *)
LEMMA FollowedItem ==
  ASSUME NEW page \in BufferPage, NEW j \in Nat, Followed(LinePointer(page, j))
  PROVE  LinePointer(page, j) \in TupleItem
  <1>1. ~ Followed(ZeroItem)
    BY DEF ZeroItem, Followed, LP_UNUSED, LP_NORMAL
  <1>2. page.linp \in Seq(TupleItem \union {ZeroItem})
    BY DEF BufferPage
  <1>3. LinePointer(page, j) \in TupleItem \union {ZeroItem}
    BY <1>2 DEF LinePointer
  <1>4. QED  BY <1>1, <1>3

LEMMA LinePointerTyped ==
  ASSUME NEW page \in BufferPage, NEW j \in Nat
  PROVE  LinePointer(page, j) \in TupleItem \union {ZeroItem}
  BY DEF LinePointer, BufferPage

(* Whatever a read that breaks off leaves in the buffer is made of tuples. *)
LEMMA TornTyped ==
  ASSUME NEW new \in BufferPage, NEW old \in BufferPage, NEW n \in Nat,
         NEW page \in Torn(new, old, n, Mixed)
  PROVE  page \in BufferPage
  <1> DEFINE m == IF Len(new.linp) >= Len(old.linp) THEN Len(new.linp) ELSE Len(old.linp)
             items == [k \in 1 .. m |-> TornItem(new, old, n, Mixed, k - 1)]
             Any == TupleItem \union {ZeroItem}
  <1>1. m \in Nat
    BY DEF BufferPage
  <1>2. ASSUME NEW k \in 1 .. m
        PROVE  items[k] \subseteq Any
    <2>1. k - 1 \in Nat
      BY <1>1
    <2>2. LinePointer(new, k - 1) \in Any /\ LinePointer(old, k - 1) \in Any
      BY <2>1, LinePointerTyped
    <2>3. TornItem(new, old, n, Mixed, k - 1) \subseteq Any
      BY <2>2, MixedAssumption DEF TornItem
    <2>4. QED  BY <2>3
  <1>3. TornLower(new, old, n) \subseteq Nat
    <2>1. new.lower \in Nat /\ old.lower \in Nat
      BY DEF BufferPage
    <2>2. (old.lower \div 256) * 256 + (new.lower % 256) \in Nat
      BY <2>1
    <2>3. QED  BY <2>1, <2>2 DEF TornLower
  <1>4. /\ page \in [lower : TornLower(new, old, n),
                     linp : [1 .. m -> UNION {items[k] : k \in 1 .. m}]]
        /\ \A k \in 1 .. m : page.linp[k] \in items[k]
    BY DEF Torn
  <1> HIDE DEF m, items
  <1>5. page.linp \in [1 .. m -> Any]
    BY <1>2, <1>4
  <1>6. page.linp \in Seq(Any)
    BY <1>1, <1>5
  <1>7. page = [lower |-> page.lower, linp |-> page.linp] /\ page.lower \in Nat
    BY <1>3, <1>4
  <1>8. QED  BY <1>6, <1>7 DEF BufferPage

LEMMA TokensTyped ==
  /\ BEGIN \in ScriptToken /\ COMMIT \in ScriptToken
  /\ INSERT \in ScriptToken /\ COMMA \in ScriptToken /\ SEMICOLON \in ScriptToken
  /\ \A row \in Row : RowToken(row) \in ScriptToken
  BY DEF BEGIN, COMMIT, INSERT, COMMA, SEMICOLON, Token, RowToken, NoRow, ScriptToken, Row

LEMMA SeparatorTyped ==
  ASSUME NEW n \in Nat
  PROVE  Separator(n) \in Seq(ScriptToken)
  BY TokensTyped DEF Separator

-----------------------------------------------------------------------------

LEMMA InitTyped == Init => DumpTypeOK
  <1> SUFFICES ASSUME Init
               PROVE  DumpTypeOK
    OBVIOUS
  <1> USE DEF Init
  <1>0. call \in Call /\ buffer \in BufferPage
    BY CallsAssumption, PagesAreBuffers
  <1>1. Pages \in Nat
    BY <1>0, PagesInFile
  <1>2. << >> \in Seq(ScriptToken) /\ << >> \in Seq(Row) /\ Len(<< >>) = 0
    OBVIOUS
  <1>3. QED  BY <1>0, <1>1, <1>2 DEF DumpTypeOK, BufferPage

(* What a lost output buffer leaves is a prefix of the script.             *)
LEMMA AbortTyped ==
  ASSUME DumpTypeOK, NEW how \in Ended, Abort(how)
  PROVE  DumpTypeOK'
  <1>1. PICK n \in 0 .. Len(out) : out' = SubSeq(out, 1, n)
    BY DEF Abort
  <1>2. out' \in Seq(ScriptToken)
    BY <1>1, SubSeqProperties DEF DumpTypeOK
  <1>3. QED  BY <1>2 DEF Abort, DumpTypeOK, Pages, FileBytes

AbortStep == NotOpened \/ ToastMapFails \/ BadCount \/ OffPage \/ AssertionFails \/ ReadsOffPage

(* The steps that end the program abnormally.                              *)
LEMMA HowStepsAbort ==
  ASSUME DumpTypeOK, AbortStep
  PROVE  \E how \in {"aborted", "undefined"} : Abort(how)
  <1>1. call.toast \in {"ok", "aborted", "undefined"}
    BY DEF DumpTypeOK, Call
  <1>2. CASE ToastMapFails
    BY <1>1, <1>2 DEF ToastMapFails
  <1>3. CASE AbortStep /\ ~ ToastMapFails
    BY <1>3 DEF AbortStep, NotOpened, BadCount, OffPage, AssertionFails, ReadsOffPage
  <1>4. QED  BY <1>2, <1>3

(* The items looked at are those of a page inside the file.                *)
OnFilePage == pc = "items" => which_page < Pages

LEMMA NextPageTyped ==
  ASSUME DumpTypeOK, AtPage
  PROVE  call.file[which_page + 1] \in BufferPage
  <1>1. Pages \in Nat /\ Pages <= Len(call.file) /\ call.file \in Seq(TablePage)
    BY PagesInFile DEF DumpTypeOK, Call
  <1>2. which_page + 1 \in 1 .. Len(call.file)
    BY <1>1 DEF AtPage, DumpTypeOK
  <1>3. QED  BY <1>1, <1>2, PagesAreBuffers

LEMMA StepTyped == DumpTypeOK /\ OnFilePage /\ [Next]_vars => DumpTypeOK'
  <1> SUFFICES ASSUME DumpTypeOK, OnFilePage, [Next]_vars
               PROVE  DumpTypeOK'
    OBVIOUS
  <1>0. Pages \in Nat /\ Pages <= Len(call.file) /\ call.file \in Seq(TablePage)
    BY PagesInFile DEF DumpTypeOK, Call
  <1>1. CASE AbortStep
    <2>1. Abort("aborted") \/ Abort("undefined")
      BY <1>1, HowStepsAbort
    <2>2. QED  BY <2>1, AbortTyped DEF Ended
  <1>2. CASE Refused
    BY <1>2 DEF Refused, DumpTypeOK, Pages, FileBytes, Ended
  <1>3. CASE user_code_setup
    <2>1. <<BEGIN>> \in Seq(ScriptToken)
      BY TokensTyped
    <2>2. QED  BY <1>3, <2>1 DEF user_code_setup, DumpTypeOK, Pages, FileBytes
  <1>4. CASE read_page
    <2>1. call.file[which_page + 1] \in BufferPage
      BY <1>0, <1>4, NextPageTyped DEF read_page
    <2>2. QED  BY <1>4, <2>1 DEF read_page, DumpTypeOK, BufferPage, Pages, FileBytes
  <1>5. CASE ReadFails
    <2>1. call.file[which_page + 1] \in BufferPage
      BY <1>0, <1>5, NextPageTyped DEF ReadFails
    <2>2. PICK n \in 0 .. PageSize - 1 : buffer' \in Torn(call.file[which_page + 1], buffer, n, Mixed)
      BY <1>5 DEF ReadFails
    <2>3. buffer \in BufferPage
      BY DEF DumpTypeOK, BufferPage
    <2>4. buffer' \in BufferPage
      BY <2>1, <2>2, <2>3, TornTyped
    <2>5. which_page \in Nat
      BY DEF DumpTypeOK
    <2>6. QED  BY <1>5, <2>4, <2>5 DEF ReadFails, DumpTypeOK, BufferPage, Pages, FileBytes
  <1>12. CASE ReadRefused
    BY <1>12 DEF ReadRefused, DumpTypeOK, Pages, FileBytes
  <1>6. CASE SkipItem \/ SkipRow
    BY <1>6 DEF SkipItem, SkipRow, DumpTypeOK, Pages, FileBytes
  <1>7. CASE PrintRow
    <2>1. buffer \in BufferPage /\ i \in Nat
      BY DEF DumpTypeOK, BufferPage
    <2>2. Item \in TupleItem
      BY <1>7, <2>1, FollowedItem DEF PrintRow, AtTuple, Item
    <2>3. RowText(Item) \in Row
      BY <2>2 DEF RowText, TupleItem, Row
    <2>4. insertion_count \in Nat
      BY DEF DumpTypeOK
    <2>5. out' \in Seq(ScriptToken)
      <3>1. Separator(insertion_count) \in Seq(ScriptToken)
        BY <2>4, SeparatorTyped
      <3>2. <<RowToken(RowText(Item))>> \in Seq(ScriptToken)
        BY <2>3, TokensTyped
      <3>3. QED  BY <1>7, <3>1, <3>2 DEF PrintRow, DumpTypeOK
    <2>6. written' \in Seq(Row) /\ insertion_count' = Len(written')
      BY <1>7, <2>3 DEF PrintRow, DumpTypeOK
    <2>7. QED  BY <1>7, <2>1, <2>5, <2>6 DEF PrintRow, DumpTypeOK, Pages, FileBytes
  <1>8. CASE NextPage
    <2>1. which_page + 1 \in 0 .. Pages
      BY <1>0, <1>8 DEF NextPage, DumpTypeOK, OnFilePage
    <2>2. QED  BY <1>8, <2>1 DEF NextPage, DumpTypeOK, Pages, FileBytes
  <1>9. CASE user_code_finish
    <2>1. out \o <<SEMICOLON, COMMIT>> \in Seq(ScriptToken)
      BY TokensTyped DEF DumpTypeOK
    <2>2. QED  BY <1>9, <2>1 DEF user_code_finish, DumpTypeOK, Pages, FileBytes, Ended
  <1>10. CASE UNCHANGED vars
    BY <1>10 DEF vars, DumpTypeOK, Pages, FileBytes
  <1>11. QED
    BY <1>1, <1>2, <1>3, <1>4, <1>5, <1>6, <1>7, <1>8, <1>9, <1>10, <1>12
    DEF Next, Step, Terminated, AbortStep

LEMMA StepOnFilePage == DumpTypeOK /\ OnFilePage /\ [Next]_vars => OnFilePage'
  <1> SUFFICES ASSUME DumpTypeOK, OnFilePage, [Next]_vars
               PROVE  OnFilePage'
    OBVIOUS
  <1>1. CASE AbortStep
    BY <1>1, HowStepsAbort DEF Abort, OnFilePage
  <1>2. CASE read_page \/ ReadFails \/ ReadRefused
    BY <1>2 DEF read_page, ReadFails, ReadRefused, AtPage, OnFilePage, Pages, FileBytes
  <1>3. CASE SkipItem \/ SkipRow \/ PrintRow
    BY <1>3 DEF SkipItem, SkipRow, PrintRow, OnFilePage, Pages, FileBytes
  <1>4. CASE Refused \/ user_code_setup \/ NextPage \/ user_code_finish
    BY <1>4 DEF Refused, user_code_setup, NextPage, user_code_finish, OnFilePage
  <1>5. CASE UNCHANGED vars
    BY <1>5 DEF vars, OnFilePage, Pages, FileBytes
  <1>6. QED  BY <1>1, <1>2, <1>3, <1>4, <1>5 DEF Next, Step, Terminated, AbortStep

LEMMA SpecTyped == Spec => [](DumpTypeOK /\ OnFilePage)
  <1>1. Init => OnFilePage
    BY DEF Init, OnFilePage
  <1>2. QED  BY <1>1, InitTyped, StepTyped, StepOnFilePage, PTL DEF Spec

(* Every variable keeps its range, and the count that decides where a      *)
(* statement ends is the number of rows of the script.                     *)
THEOREM DumpTypeCorrect == Spec => []DumpTypeOK
  BY SpecTyped, PTL

-----------------------------------------------------------------------------

(* The row of line pointer j of the buffer, if it has one, is in the       *)
(* script.                                                                 *)
RowWritten(j) ==
  OnPage(j) /\ Dumpable(LinePointer(buffer, j)) =>
    \E k \in DOMAIN written : written[k] = RowText(LinePointer(buffer, j))

(* While a page is scanned its rows before the loop counter are written;   *)
(* between pages, and for good behind the page whose read broke off, all   *)
(* of them are.                                                            *)
BeforeCounter == pc = "items" => \A j \in Nat : j < i => RowWritten(j)
WholeBuffer ==
  pc \in {"start", "read"} \/ (~ good /\ which_page > broke) =>
    \A j \in Nat : j < ItemIdCount(buffer) => RowWritten(j)

LEMMA CountIsNat ==
  ASSUME NEW page \in BufferPage
  PROVE  ItemIdCount(page) \in Nat
  <1>1. page.lower \in Nat
    BY DEF BufferPage
  <1>2. /\ PageHeaderSize \in Nat /\ ItemIdSize \in Nat \ {0}
        /\ WordMod \in Nat \ {0}
    BY PageAssumption
  <1>3. page.lower - PageHeaderSize \in Int
    BY <1>1, <1>2
  <1>4. LinePointerBytes(page) \in Nat
    BY <1>2, <1>3 DEF LinePointerBytes, Word
  <1>5. QED  BY <1>2, <1>4 DEF ItemIdCount

LEMMA ZeroPageWritten ==
  ASSUME buffer = ZeroPage, NEW j \in Nat
  PROVE  RowWritten(j)
  BY DEF RowWritten, Dumpable, Followed, LinePointer, ZeroPage, ZeroItem,
         LP_UNUSED, LP_NORMAL

(* Steps that change neither the buffer nor the script.                    *)
LEMMA RowWrittenKept ==
  ASSUME UNCHANGED <<buffer, written>>, NEW j \in Nat, RowWritten(j)
  PROVE  RowWritten(j)'
  BY DEF RowWritten, LinePointer

(* Printing a row adds it to the script and removes none.                  *)
LEMMA PrintWrites ==
  ASSUME DumpTypeOK, PrintRow, NEW j \in Nat, RowWritten(j) \/ j = i
  PROVE  RowWritten(j)'
  <1>1. /\ written' = Append(written, RowText(Item)) /\ buffer' = buffer
        /\ written \in Seq(Row)
    BY DEF PrintRow, DumpTypeOK
  <1>2. DOMAIN written \subseteq DOMAIN written' /\ Len(written) + 1 \in DOMAIN written'
    BY <1>1
  <1>3. /\ \A k \in DOMAIN written : written'[k] = written[k]
        /\ written'[Len(written) + 1] = RowText(Item)
    BY <1>1
  <1>4. CASE RowWritten(j)
    BY <1>1, <1>2, <1>3, <1>4 DEF RowWritten, LinePointer
  <1>5. CASE j = i
    BY <1>1, <1>2, <1>3, <1>5 DEF RowWritten, LinePointer, Item
  <1>6. QED  BY <1>4, <1>5

LEMMA InitWritten == Init => BeforeCounter /\ WholeBuffer
  BY ZeroPageWritten DEF Init, BeforeCounter, WholeBuffer

LEMMA StepWritten ==
  DumpTypeOK /\ BeforeCounter /\ WholeBuffer /\ [Next]_vars
    => BeforeCounter' /\ WholeBuffer'
  <1> SUFFICES ASSUME DumpTypeOK, BeforeCounter, WholeBuffer, [Next]_vars
               PROVE  BeforeCounter' /\ WholeBuffer'
    OBVIOUS
  <1>0. ItemIdCount(buffer) \in Nat /\ i \in Nat
    <2>1. buffer \in BufferPage
      BY DEF DumpTypeOK, BufferPage
    <2>2. QED  BY <2>1, CountIsNat DEF DumpTypeOK
  <1>1. CASE AbortStep
    <2>1. UNCHANGED <<buffer, written, good, which_page, broke>> /\ pc' \notin {"start", "read", "items"}
      BY <1>1, HowStepsAbort DEF Abort
    <2>2. QED
      BY <2>1, RowWrittenKept DEF BeforeCounter, WholeBuffer, ItemIdCount, LinePointerBytes
  <1>2. CASE Refused \/ user_code_finish
    <2>1. UNCHANGED <<buffer, written, good, which_page, broke>> /\ pc' \notin {"start", "read", "items"}
      BY <1>2 DEF Refused, user_code_finish
    <2>2. QED
      BY <2>1, RowWrittenKept DEF BeforeCounter, WholeBuffer, ItemIdCount, LinePointerBytes
  <1>3. CASE read_page
    BY <1>3 DEF read_page, BeforeCounter, WholeBuffer
  <1>4. CASE ReadFails
    <2>1. /\ BeforeCounter'
          /\ which_page' = broke' /\ which_page' \in Nat /\ pc' = "items"
      BY <1>4 DEF ReadFails, BeforeCounter, DumpTypeOK
    <2>2. QED  BY <2>1 DEF WholeBuffer
  <1>11. CASE ReadRefused
    <2>1. BeforeCounter'
      BY <1>11 DEF ReadRefused, BeforeCounter
    <2>2. UNCHANGED <<buffer, written>> /\ pc = "read"
      BY <1>11 DEF ReadRefused, AtPage
    <2>3. QED
      BY <2>1, <2>2, RowWrittenKept DEF WholeBuffer, ItemIdCount, LinePointerBytes
  <1>5. CASE SkipItem \/ SkipRow
    <2>1. UNCHANGED <<buffer, written, good, which_page, broke, pc>> /\ i' = i + 1 /\ pc = "items"
      BY <1>5 DEF SkipItem, SkipRow, AtTuple, AtItem
    <2>2. RowWritten(i)
      BY <1>5 DEF SkipItem, SkipRow, RowWritten, Dumpable, Item
    <2>3. BeforeCounter'
      BY <1>0, <2>1, <2>2, RowWrittenKept DEF BeforeCounter
    <2>4. QED
      BY <2>1, <2>3, RowWrittenKept DEF WholeBuffer, ItemIdCount, LinePointerBytes
  <1>6. CASE PrintRow
    <2>1. UNCHANGED <<buffer, good, which_page, broke, pc>> /\ i' = i + 1 /\ pc = "items"
      BY <1>6 DEF PrintRow, AtTuple, AtItem
    <2>2. BeforeCounter'
      BY <1>0, <1>6, <2>1, PrintWrites DEF BeforeCounter
    <2>3. QED
      BY <1>6, <2>1, <2>2, PrintWrites DEF WholeBuffer, ItemIdCount, LinePointerBytes
  <1>7. CASE NextPage
    <2>1. /\ UNCHANGED <<buffer, written>> /\ pc = "items" /\ pc' = "read"
          /\ i >= ItemIdCount(buffer)
      BY <1>7 DEF NextPage
    <2>2. \A j \in Nat : j < ItemIdCount(buffer) => RowWritten(j)
      BY <1>0, <2>1 DEF BeforeCounter
    <2>3. QED
      BY <2>1, <2>2, RowWrittenKept
      DEF BeforeCounter, WholeBuffer, ItemIdCount, LinePointerBytes
  <1>8. CASE user_code_setup
    <2>1. /\ UNCHANGED <<buffer, written, good, which_page, broke>>
          /\ pc = "start" /\ pc' = "read"
      BY <1>8 DEF user_code_setup, Accepted
    <2>2. QED
      BY <2>1, RowWrittenKept DEF BeforeCounter, WholeBuffer, ItemIdCount, LinePointerBytes
  <1>9. CASE UNCHANGED vars
    <2>1. UNCHANGED <<buffer, written, good, which_page, broke, pc, i>>
      BY <1>9 DEF vars
    <2>2. QED
      BY <2>1, RowWrittenKept DEF BeforeCounter, WholeBuffer, ItemIdCount, LinePointerBytes
  <1>10. QED
    BY <1>1, <1>2, <1>3, <1>4, <1>5, <1>6, <1>7, <1>8, <1>9, <1>11
    DEF Next, Step, Terminated, AbortStep

LEMMA StepStale ==
  DumpTypeOK /\ WholeBuffer /\ [Next]_vars =>
    [~ good /\ which_page > broke /\ Len(written') > Len(written) =>
       \E k \in DOMAIN written : written[k] = written'[Len(written')]]_vars
  <1> SUFFICES ASSUME DumpTypeOK, WholeBuffer, Next, ~ good, which_page > broke,
                      Len(written') > Len(written)
               PROVE  \E k \in DOMAIN written : written[k] = written'[Len(written')]
    BY DEF vars
  <1>1. PrintRow
    BY DEF Next, Step, Terminated, vars, NotOpened, Refused, ToastMapFails,
           user_code_setup, read_page, ReadFails, ReadRefused, BadCount, OffPage, SkipItem,
           AssertionFails, ReadsOffPage, SkipRow, NextPage, user_code_finish, Abort, DumpTypeOK
  <1>2. written' = Append(written, RowText(Item)) /\ written \in Seq(Row)
    BY <1>1 DEF PrintRow, DumpTypeOK
  <1>3. written'[Len(written')] = RowText(Item)
    BY <1>2
  <1>4. RowWritten(i)
    BY <1>1 DEF PrintRow, AtTuple, AtItem, WholeBuffer, DumpTypeOK
  <1>5. \E k \in DOMAIN written : written[k] = RowText(Item)
    BY <1>1, <1>4 DEF PrintRow, AtTuple, RowWritten, Dumpable, Item
  <1>6. QED  BY <1>3, <1>5

(* Wherever in a page a read breaks off, and whatever the parts of the two *)
(* pages in the buffer make of their tuples: every row that is printed     *)
(* after that page repeats one that was printed before.                    *)
THEOREM StaleReadsRepeat == Spec => StaleRowsAreRepeats
  <1>1. Spec => [](DumpTypeOK /\ BeforeCounter /\ WholeBuffer)
    BY SpecTyped, InitWritten, StepWritten, PTL DEF Spec
  <1>2. QED  BY <1>1, StepStale, PTL DEF Spec, StaleRowsAreRepeats

-----------------------------------------------------------------------------
(* What the loading session makes of a script, token by token.             *)

IsSession(f, script, m) ==
  f = [n \in 0 .. m |-> IF n = 0 THEN NewSession ELSE Feed(f[n - 1], script[n])]

LEMMA SessionStep ==
  ASSUME NEW script, NEW m \in Nat, NEW f, IsSession(f, script, m), NEW k \in 0 .. m - 1
  PROVE  f[k + 1] = Feed(f[k], script[k + 1])
  <1>1. k + 1 \in 0 .. m /\ k + 1 # 0 /\ (k + 1) - 1 = k
    OBVIOUS
  <1>2. QED  BY <1>1 DEF IsSession

LEMMA SessionExists ==
  ASSUME NEW script, NEW n \in Nat
  PROVE  \E f : IsSession(f, script, n)
  <1> DEFINE S == {m \in 0 .. n : \E f : IsSession(f, script, m)}
  <1>1. 0 \in S
    <2>1. IsSession([k \in 0 .. 0 |-> NewSession], script, 0)
      BY DEF IsSession
    <2>2. QED  BY <2>1
  <1>2. \A m \in 0 .. n - 1 : m \in S => m + 1 \in S
    <2> SUFFICES ASSUME NEW m \in 0 .. n - 1, NEW f, IsSession(f, script, m)
                 PROVE  \E g : IsSession(g, script, m + 1)
      OBVIOUS
    <2> DEFINE g == [k \in 0 .. m + 1 |->
                       IF k = m + 1 THEN Feed(f[m], script[m + 1]) ELSE f[k]]
    <2>1. IsSession(g, script, m + 1)
      BY DEF IsSession
    <2>2. QED  BY <2>1
  <1> HIDE DEF S
  <1>3. 0 .. n \subseteq S
    BY <1>1, <1>2, IntervalInduction
  <1>4. QED  BY <1>3 DEF S

(* Load is the last of the sessions.                                       *)
LEMMA LoadIsSession ==
  ASSUME NEW script, Len(script) \in Nat
  PROVE  \E f : IsSession(f, script, Len(script)) /\ Load(script) = f[Len(script)]
  <1> DEFINE f == CHOOSE f : IsSession(f, script, Len(script))
  <1>1. IsSession(f, script, Len(script))
    BY SessionExists
  <1>2. Load(script) = f[Len(script)]
    BY DEF Load, IsSession
  <1>3. QED  BY <1>1, <1>2

(* Sessions over the same tokens agree.                                    *)
LEMMA SessionsAgree ==
  ASSUME NEW n \in Nat, NEW m \in Nat, n <= m,
         NEW s, NEW t, \A k \in 1 .. n : s[k] = t[k],
         NEW f, IsSession(f, s, n), NEW g, IsSession(g, t, m)
  PROVE  f[n] = g[n]
  <1> DEFINE S == {k \in 0 .. n : f[k] = g[k]}
  <1>1. 0 \in S
    BY DEF IsSession
  <1>2. \A k \in 0 .. n - 1 : k \in S => k + 1 \in S
    <2> SUFFICES ASSUME NEW k \in 0 .. n - 1, f[k] = g[k]
                 PROVE  f[k + 1] = g[k + 1]
      OBVIOUS
    <2>1. f[k + 1] = Feed(f[k], s[k + 1])
      BY SessionStep
    <2>2. g[k + 1] = Feed(g[k], t[k + 1])
      BY SessionStep
    <2>3. QED  BY <2>1, <2>2
  <1> HIDE DEF S
  <1>3. n \in S
    BY <1>1, <1>2, IntervalInduction
  <1>4. QED  BY <1>3 DEF S

LEMMA LoadEmpty == Load(<< >>) = NewSession
  <1>1. PICK f : IsSession(f, << >>, 0) /\ Load(<< >>) = f[0]
    BY LoadIsSession
  <1>2. QED  BY <1>1 DEF IsSession

(* One more token is fed to the session of those before it.                *)
LEMMA LoadAppend ==
  ASSUME NEW script \in Seq(ScriptToken), NEW token \in ScriptToken
  PROVE  Load(Append(script, token)) = Feed(Load(script), token)
  <1> DEFINE n == Len(script)
             longer == Append(script, token)
  <1>1. /\ n \in Nat /\ Len(longer) = n + 1 /\ longer[n + 1] = token
        /\ \A k \in 1 .. n : script[k] = longer[k]
    OBVIOUS
  <1>2. PICK f : IsSession(f, script, n) /\ Load(script) = f[n]
    BY <1>1, LoadIsSession
  <1> HIDE DEF longer
  <1>3. PICK g : IsSession(g, longer, n + 1) /\ Load(longer) = g[n + 1]
    <2>1. Len(longer) \in Nat /\ Len(longer) = n + 1
      BY <1>1
    <2>2. \E g : IsSession(g, longer, Len(longer)) /\ Load(longer) = g[Len(longer)]
      BY <2>1, LoadIsSession, Zenon
    <2>3. QED  BY <2>1, <2>2, Zenon
  <1>4. f[n] = g[n]
    <2>1. n \in Nat /\ n + 1 \in Nat /\ n <= n + 1
      BY <1>1
    <2> HIDE DEF n
    <2>2. QED  BY ONLY <1>1, <1>2, <1>3, <2>1, SessionsAgree
  <1>5. g[n + 1] = Feed(g[n], longer[n + 1])
    BY <1>1, <1>3, SessionStep
  <1>6. QED  BY <1>1, <1>2, <1>3, <1>4, <1>5 DEF longer

-----------------------------------------------------------------------------
(* The session after w rows, of which the first b are in full statements   *)
(* and m are in the one not yet ended.                                     *)

Session ==
  [stmt: Seq(ScriptToken), tx: {"none", "open", "failed"}, pending: Seq(Row), table: Seq(Row)]

AllValid(w, n) == \A k \in 1 .. n : w[k].valid

BatchOpen(s, w, b, m) ==
  /\ s \in Session /\ s.table = << >>
  /\ b % Batch = 0 /\ Len(w) = b + m /\ (m = 0 => b = 0)
  /\ Len(s.stmt) = 2 * m
  /\ m > 0 => s.stmt[1] = INSERT
  /\ \A k \in 1 .. m : s.stmt[2 * k] = RowToken(w[b + k])
  /\ \A k \in 1 .. m - 1 : s.stmt[2 * k + 1] = COMMA
  /\ s.tx = IF AllValid(w, b) THEN "open" ELSE "failed"
  /\ s.tx = "open" => s.pending = SubSeq(w, 1, b)

LEMMA TokensDiffer ==
  /\ SEMICOLON # BEGIN /\ SEMICOLON # COMMIT /\ BEGIN # COMMIT
  /\ \A token \in ScriptToken : token.kind \in {"INSERT", ",", "row"} =>
       token # SEMICOLON /\ token # BEGIN /\ token # COMMIT
  <1>1. SEMICOLON.kind = ";" /\ BEGIN.kind = "BEGIN;" /\ COMMIT.kind = "COMMIT;"
    BY DEF SEMICOLON, BEGIN, COMMIT, Token
  <1>2. QED  BY <1>1

LEMMA FeedText ==
  ASSUME NEW s \in Session, NEW token \in ScriptToken, token.kind \in {"INSERT", ",", "row"}
  PROVE  Feed(s, token) = [s EXCEPT !.stmt = Append(s.stmt, token)]
  <1>1. token # SEMICOLON /\ token # BEGIN /\ token # COMMIT
    BY TokensDiffer
  <1>2. token \notin {BEGIN, COMMIT}
    BY <1>1
  <1>3. QED  BY <1>1, <1>2 DEF Feed

LEMMA FeedSemicolon ==
  ASSUME NEW s
  PROVE  Feed(s, SEMICOLON) = Run(s)
  BY TokensDiffer DEF Feed

LEMMA FeedCommit ==
  ASSUME NEW s \in Session, s.stmt = << >>
  PROVE  Feed(s, COMMIT) = Commit(s)
  BY TokensDiffer DEF Feed

(* The statement of an open batch inserts its rows if all of them can be   *)
(* evaluated.                                                              *)
LEMMA BatchInserts ==
  ASSUME NEW w \in Seq(Row), NEW b \in Nat, NEW m \in Nat, m > 0,
         NEW s, BatchOpen(s, w, b, m)
  PROVE  /\ ValidInsert(s.stmt) <=> \A k \in 1 .. m : w[b + k].valid
         /\ RowsOf(s.stmt) = [k \in 1 .. m |-> w[b + k]]
         /\ s.stmt # << >>
  <1>1. Len(s.stmt) = 2 * m /\ (2 * m) % 2 = 0 /\ (2 * m) \div 2 = m
    BY DEF BatchOpen
  <1>2. \A k \in 1 .. m : s.stmt[2 * k].kind = "row" /\ s.stmt[2 * k].row = w[b + k]
    <2>1. \A x : RowToken(x).kind = "row" /\ RowToken(x).row = x
      BY DEF RowToken
    <2>2. QED  BY <2>1 DEF BatchOpen
  <1>3. RowsOf(s.stmt) = [k \in 1 .. m |-> w[b + k]]
    BY <1>1, <1>2 DEF RowsOf
  <1>4. ASSUME ValidInsert(s.stmt), NEW k \in 1 .. m
        PROVE  w[b + k].valid
    <2>1. 2 * k \in 2 .. Len(s.stmt) /\ (2 * k) % 2 = 0
      BY <1>1
    <2>2. s.stmt[2 * k].row.valid
      BY <1>4, <2>1 DEF ValidInsert
    <2>3. QED  BY <1>2, <2>2
  <1>5. ASSUME \A k \in 1 .. m : w[b + k].valid
        PROVE  ValidInsert(s.stmt)
    <2>1. ASSUME NEW k \in 2 .. 2 * m, k % 2 = 0
          PROVE  s.stmt[k].kind = "row" /\ s.stmt[k].row.valid
      <3>1. PICK j \in 1 .. m : k = 2 * j
        <4>1. k \div 2 \in 1 .. m /\ k = 2 * (k \div 2)
          BY <2>1
        <4>2. QED  BY <4>1
      <3>2. QED  BY <1>2, <1>5, <3>1
    <2>2. ASSUME NEW k \in 2 .. 2 * m, k % 2 # 0
          PROVE  s.stmt[k] = COMMA
      <3>1. PICK j \in 1 .. m - 1 : k = 2 * j + 1
        <4>1. k \div 2 \in 1 .. m - 1 /\ k = 2 * (k \div 2) + 1
          BY <2>2
        <4>2. QED  BY <4>1
      <3>2. QED  BY <3>1 DEF BatchOpen
    <2>3. s.stmt[1] = INSERT
      BY DEF BatchOpen
    <2>4. QED  BY <1>1, <2>1, <2>2, <2>3 DEF ValidInsert
  <1>6. s.stmt # << >>
    BY <1>1
  <1>7. ValidInsert(s.stmt) <=> \A k \in 1 .. m : w[b + k].valid
    BY <1>4, <1>5
  <1>8. QED  BY <1>3, <1>6, <1>7

(* At its semicolon the rows wait for the commit, or one that is not valid *)
(* has failed the transaction.                                             *)
LEMMA BatchEnds ==
  ASSUME NEW w \in Seq(Row), NEW b \in Nat, NEW m \in Nat,
         NEW s, BatchOpen(s, w, b, m)
  PROVE  /\ Run(s) \in Session /\ Run(s).stmt = << >> /\ Run(s).table = << >>
         /\ Run(s).tx = IF AllValid(w, Len(w)) THEN "open" ELSE "failed"
         /\ Run(s).tx = "open" => Run(s).pending = w
  <1>1. CASE m = 0
    <2>1. s.stmt = << >> /\ b = 0 /\ Len(w) = 0 /\ w = << >>
      BY <1>1 DEF BatchOpen, Session
    <2>2. Run(s) = s
      BY <2>1 DEF Run
    <2>3. SubSeq(w, 1, b) = w
      BY <2>1
    <2>4. QED  BY <2>1, <2>2, <2>3 DEF BatchOpen
  <1>2. CASE m > 0
    <2> DEFINE rows == [k \in 1 .. m |-> w[b + k]]
               done == [s EXCEPT !.stmt = << >>]
    <2>1. /\ s \in Session /\ s.table = << >> /\ Len(w) = b + m
          /\ s.tx = IF AllValid(w, b) THEN "open" ELSE "failed"
          /\ s.tx = "open" => s.pending = SubSeq(w, 1, b)
      BY DEF BatchOpen
    <2>2. /\ ValidInsert(s.stmt) <=> \A k \in 1 .. m : w[b + k].valid
          /\ RowsOf(s.stmt) = rows /\ s.stmt # << >>
      BY <1>2, BatchInserts
    <2>3. rows \in Seq(Row) /\ w = SubSeq(w, 1, b) \o rows
      <3>1. Len(w) = b + m
        BY <2>1
      <3>2. \A k \in 1 .. m : b + k \in 1 .. Len(w)
        BY <3>1
      <3>3. rows \in Seq(Row)
        BY <3>2
      <3>4. w = SubSeq(w, 1, b) \o rows
        BY <3>1
      <3>5. QED  BY <3>3, <3>4
    <2>4. AllValid(w, Len(w)) <=> AllValid(w, b) /\ \A k \in 1 .. m : w[b + k].valid
      <3>1. \A k \in 1 .. m : b + k \in 1 .. b + m
        OBVIOUS
      <3>2. \A k \in 1 .. b : k \in 1 .. b + m
        OBVIOUS
      <3>3. \A k \in 1 .. b + m : k \in 1 .. b \/ (k - b \in 1 .. m /\ b + (k - b) = k)
        OBVIOUS
      <3>4. ASSUME AllValid(w, b), \A k \in 1 .. m : w[b + k].valid, NEW k \in 1 .. b + m
            PROVE  w[k].valid
        <4>1. CASE k \in 1 .. b
          BY <3>4, <4>1 DEF AllValid
        <4>2. CASE k - b \in 1 .. m /\ b + (k - b) = k
          <5>1. w[b + (k - b)].valid
            BY <3>4, <4>2
          <5>2. QED  BY <4>2, <5>1
        <4>3. QED  BY <3>3, <4>1, <4>2
      <3>5. QED  BY <2>1, <3>1, <3>2, <3>4 DEF AllValid
    <2>5. done \in Session /\ done.stmt = << >> /\ done.table = << >> /\ done.tx = s.tx
          /\ done.pending = s.pending
      <3>1. << >> \in Seq(ScriptToken)
        OBVIOUS
      <3>2. QED  BY <2>1, <3>1 DEF Session
    <2> HIDE DEF rows, done
    <2>6. CASE s.tx = "open" /\ ValidInsert(s.stmt)
      <3>1. Run(s) = [done EXCEPT !.pending = s.pending \o rows]
        BY <2>2, <2>5, <2>6 DEF Run, done
      <3>2. QED  BY <2>1, <2>2, <2>3, <2>4, <2>5, <2>6, <3>1 DEF Session
    <2>7. CASE s.tx = "open" /\ ~ ValidInsert(s.stmt)
      <3>1. Run(s) = [done EXCEPT !.tx = "failed"]
        BY <2>2, <2>5, <2>7 DEF Run, done
      <3>2. QED  BY <2>1, <2>2, <2>4, <2>5, <2>7, <3>1 DEF Session
    <2>8. CASE s.tx = "failed"
      <3>1. Run(s) = done
        BY <2>2, <2>5, <2>8 DEF Run, done
      <3>2. QED  BY <2>1, <2>4, <2>5, <2>8, <3>1
    <2>9. QED  BY <2>1, <2>6, <2>7, <2>8
  <1>3. QED  BY <1>1, <1>2

LEMMA MultipleAfter ==
  ASSUME NEW n \in Nat \ {0}, NEW b \in Nat, b % n = 0
  PROVE  (b + n) % n = 0
  <1> DEFINE q == b \div n
  <1>1. q \in Nat /\ b = n * q
    OBVIOUS
  <1> HIDE DEF q
  <1>2. b + n = n * (q + 1)
    BY <1>1
  <1>3. \A k \in Nat : (n * k) % n = 0
    OBVIOUS
  <1>4. (n * (q + 1)) % n = 0
    BY <1>1, <1>3
  <1>5. QED  BY <1>2, <1>4

LEMMA RemainderAfter ==
  ASSUME NEW n \in Nat \ {0}, NEW b \in Nat, b % n = 0, NEW m \in 0 .. n - 1
  PROVE  (b + m) % n = m
  <1> DEFINE q == b \div n
  <1>1. q \in Nat /\ b = n * q
    OBVIOUS
  <1> HIDE DEF q
  <1>2. \A k \in Nat : (n * k + m) % n = m
    OBVIOUS
  <1>3. QED  BY <1>1, <1>2

LEMMA AppendTwo ==
  ASSUME NEW q \in Seq(ScriptToken), NEW x \in ScriptToken, NEW y \in ScriptToken,
         NEW one, one = Append(q, x), NEW both, both = Append(one, y)
  PROVE  /\ one \in Seq(ScriptToken) /\ both \in Seq(ScriptToken)
         /\ Len(both) = Len(q) + 2
         /\ \A k \in 1 .. Len(q) : both[k] = q[k]
         /\ both[Len(q) + 1] = x /\ both[Len(q) + 2] = y
  <1>1. /\ one \in Seq(ScriptToken) /\ Len(one) = Len(q) + 1 /\ one[Len(q) + 1] = x
        /\ \A k \in 1 .. Len(q) : one[k] = q[k]
    OBVIOUS
  <1>2. /\ both \in Seq(ScriptToken) /\ Len(both) = Len(one) + 1 /\ both[Len(one) + 1] = y
        /\ \A k \in 1 .. Len(one) : both[k] = one[k]
    BY <1>1
  <1>3. QED  BY <1>1, <1>2

LEMMA AllValidAppend ==
  ASSUME NEW w \in Seq(Row), NEW row \in Row, NEW b \in 0 .. Len(w)
  PROVE  /\ AllValid(Append(w, row), b) <=> AllValid(w, b)
         /\ SubSeq(Append(w, row), 1, b) = SubSeq(w, 1, b)
  <1>1. \A k \in 1 .. b : Append(w, row)[k] = w[k]
    OBVIOUS
  <1>2. QED  BY <1>1 DEF AllValid

(* A statement that begins with the rows before it waiting.                *)
LEMMA StatementBegins ==
  ASSUME NEW w \in Seq(Row), NEW row \in Row,
         NEW s \in Session, s.stmt = << >>, s.table = << >>,
         Len(w) % Batch = 0,
         s.tx = IF AllValid(w, Len(w)) THEN "open" ELSE "failed",
         s.tx = "open" => s.pending = w
  PROVE  BatchOpen(Feed(Feed(s, INSERT), RowToken(row)), Append(w, row), Len(w), 1)
  <1> DEFINE text == Append(s.stmt, INSERT)
             both == Append(text, RowToken(row))
             longer == Append(w, row)
             t == [s EXCEPT !.stmt = text]
             u == [t EXCEPT !.stmt = both]
  <1>1. /\ INSERT \in ScriptToken /\ INSERT.kind = "INSERT"
        /\ RowToken(row) \in ScriptToken /\ RowToken(row).kind = "row"
    BY TokensTyped DEF INSERT, Token, RowToken
  <1>2. /\ text \in Seq(ScriptToken) /\ both \in Seq(ScriptToken) /\ longer \in Seq(Row)
        /\ Len(both) = 2 /\ both[1] = INSERT /\ both[2] = RowToken(row)
    <2>1. s.stmt \in Seq(ScriptToken) /\ Len(s.stmt) = 0
      BY DEF Session
    <2>2. text = Append(s.stmt, INSERT) /\ both = Append(text, RowToken(row)) /\ longer \in Seq(Row)
      OBVIOUS
    <2> HIDE DEF text, both, longer
    <2>3. QED  BY <1>1, <2>1, <2>2, AppendTwo
  <1>4. Feed(s, INSERT) = t
    BY <1>1, FeedText
  <1>5. t \in Session /\ t.stmt = text
    BY <1>2 DEF Session
  <1>6. Feed(t, RowToken(row)) = u
    <2> HIDE DEF t, text
    <2>1. Feed(t, RowToken(row)) = [t EXCEPT !.stmt = Append(t.stmt, RowToken(row))]
      BY <1>1, <1>5, FeedText
    <2>2. QED  BY <2>1, <1>5
  <1>7. /\ u \in Session /\ u.stmt = both /\ u.table = << >>
        /\ u.tx = s.tx /\ u.pending = s.pending
    BY <1>2 DEF Session
  <1>8. Len(longer) = Len(w) + 1 /\ longer[Len(w) + 1] = row
    OBVIOUS
  <1>9. /\ AllValid(longer, Len(w)) <=> AllValid(w, Len(w))
        /\ SubSeq(longer, 1, Len(w)) = w
    <2>1. Len(w) \in 0 .. Len(w) /\ SubSeq(w, 1, Len(w)) = w
      OBVIOUS
    <2>2. QED  BY <2>1, AllValidAppend
  <1> HIDE DEF text, both, longer, t, u
  <1>10. \A k \in 1 .. 1 : u.stmt[2 * k] = RowToken(longer[Len(w) + k])
    BY <1>2, <1>7, <1>8
  <1>11. BatchOpen(u, longer, Len(w), 1)
    BY <1>2, <1>7, <1>8, <1>9, <1>10 DEF BatchOpen
  <1>12. QED  BY <1>4, <1>6, <1>11 DEF longer

(* A statement that goes on.                                               *)
LEMMA StatementGoesOn ==
  ASSUME NEW w \in Seq(Row), NEW row \in Row, NEW b \in Nat, NEW m \in Nat, m > 0,
         NEW s, BatchOpen(s, w, b, m)
  PROVE  BatchOpen(Feed(Feed(s, COMMA), RowToken(row)), Append(w, row), b, m + 1)
  <1> DEFINE text == Append(s.stmt, COMMA)
             both == Append(text, RowToken(row))
             longer == Append(w, row)
             t == [s EXCEPT !.stmt = text]
             u == [t EXCEPT !.stmt = both]
  <1>1. /\ COMMA \in ScriptToken /\ COMMA.kind = ","
        /\ RowToken(row) \in ScriptToken /\ RowToken(row).kind = "row"
    BY TokensTyped DEF COMMA, Token, RowToken
  <1>2. /\ s \in Session /\ s.stmt \in Seq(ScriptToken) /\ Len(s.stmt) = 2 * m
        /\ Len(w) = b + m /\ b \in 0 .. Len(w)
    BY DEF BatchOpen, Session
  <1>3. /\ text \in Seq(ScriptToken) /\ both \in Seq(ScriptToken) /\ Len(both) = 2 * m + 2
        /\ \A k \in 1 .. 2 * m : both[k] = s.stmt[k]
        /\ both[2 * m + 1] = COMMA /\ both[2 * m + 2] = RowToken(row)
    <2>1. COMMA \in ScriptToken /\ RowToken(row) \in ScriptToken
      BY <1>1
    <2>2. s.stmt \in Seq(ScriptToken) /\ Len(s.stmt) = 2 * m
      BY <1>2
    <2>3. PICK q \in Seq(ScriptToken) : q = s.stmt
      BY <2>2
    <2>4. text = Append(q, COMMA) /\ both = Append(text, RowToken(row))
      BY <2>3
    <2> HIDE DEF text, both
    <2>5. /\ text \in Seq(ScriptToken) /\ both \in Seq(ScriptToken)
          /\ Len(both) = Len(q) + 2
          /\ \A k \in 1 .. Len(q) : both[k] = q[k]
          /\ both[Len(q) + 1] = COMMA /\ both[Len(q) + 2] = RowToken(row)
      BY ONLY <2>1, <2>4, AppendTwo
    <2>6. QED  BY <2>2, <2>3, <2>5
  <1>4. Feed(s, COMMA) = t
    BY <1>1, <1>2, FeedText
  <1>5. t \in Session /\ t.stmt = text
    BY <1>2, <1>3 DEF Session
  <1>6. Feed(t, RowToken(row)) = u
    <2> HIDE DEF t, text
    <2>1. Feed(t, RowToken(row)) = [t EXCEPT !.stmt = Append(t.stmt, RowToken(row))]
      BY <1>1, <1>5, FeedText
    <2>2. QED  BY <2>1, <1>5
  <1>7. /\ u \in Session /\ u.stmt = both /\ u.table = s.table
        /\ u.tx = s.tx /\ u.pending = s.pending
    BY <1>2, <1>3 DEF Session
  <1>8. /\ Len(both) = 2 * (m + 1)
        /\ \A k \in 1 .. 2 * m : both[k] = s.stmt[k]
        /\ both[2 * m + 1] = COMMA /\ both[2 * m + 2] = RowToken(row)
    BY <1>3
  <1>9. /\ longer \in Seq(Row) /\ Len(longer) = b + (m + 1) /\ longer[b + (m + 1)] = row
        /\ \A k \in 1 .. b + m : longer[k] = w[k]
    BY <1>2
  <1>10. /\ AllValid(longer, b) <=> AllValid(w, b)
         /\ SubSeq(longer, 1, b) = SubSeq(w, 1, b)
    BY <1>2, AllValidAppend
  <1> HIDE DEF text, both, longer, t, u
  <1>11. /\ s.table = << >> /\ b % Batch = 0 /\ s.stmt[1] = INSERT
         /\ \A k \in 1 .. m : s.stmt[2 * k] = RowToken(w[b + k])
         /\ \A k \in 1 .. m - 1 : s.stmt[2 * k + 1] = COMMA
         /\ s.tx = IF AllValid(w, b) THEN "open" ELSE "failed"
         /\ s.tx = "open" => s.pending = SubSeq(w, 1, b)
    BY DEF BatchOpen
  <1>12. \A k \in 1 .. m + 1 : both[2 * k] = RowToken(longer[b + k])
    <2>1. ASSUME NEW k \in 1 .. m
          PROVE  both[2 * k] = RowToken(longer[b + k])
      <3>1. 2 * k \in 1 .. 2 * m /\ b + k \in 1 .. b + m
        OBVIOUS
      <3>2. QED  BY <1>8, <1>9, <1>11, <3>1
    <2>2. both[2 * (m + 1)] = RowToken(longer[b + (m + 1)])
      BY <1>8, <1>9
    <2>3. \A k \in 1 .. m + 1 : k \in 1 .. m \/ k = m + 1
      OBVIOUS
    <2>4. QED  BY <2>1, <2>2, <2>3
  <1>13. \A k \in 1 .. m : both[2 * k + 1] = COMMA
    <2>1. ASSUME NEW k \in 1 .. m - 1
          PROVE  both[2 * k + 1] = COMMA
      <3>1. 2 * k + 1 \in 1 .. 2 * m
        OBVIOUS
      <3>2. QED  BY <1>8, <1>11, <3>1
    <2>2. \A k \in 1 .. m : k \in 1 .. m - 1 \/ k = m
      OBVIOUS
    <2>3. QED  BY <1>8, <2>1, <2>2
  <1>14. both[1] = INSERT
    <2>1. 1 \in 1 .. 2 * m
      OBVIOUS
    <2>2. QED  BY <1>8, <1>11, <2>1
  <1>15. (m + 1) - 1 = m
    OBVIOUS
  <1>16. BatchOpen(u, longer, b, m + 1)
    <2>1. /\ u \in Session /\ u.table = << >> /\ b % Batch = 0
          /\ Len(longer) = b + (m + 1) /\ (m + 1 = 0 => b = 0) /\ Len(u.stmt) = 2 * (m + 1)
      BY <1>7, <1>8, <1>9, <1>11
    <2>2. /\ m + 1 > 0 => u.stmt[1] = INSERT
          /\ \A k \in 1 .. m + 1 : u.stmt[2 * k] = RowToken(longer[b + k])
          /\ \A k \in 1 .. (m + 1) - 1 : u.stmt[2 * k + 1] = COMMA
      BY <1>7, <1>12, <1>13, <1>14, <1>15
    <2>3. /\ u.tx = IF AllValid(longer, b) THEN "open" ELSE "failed"
          /\ u.tx = "open" => u.pending = SubSeq(longer, 1, b)
      BY <1>7, <1>10, <1>11
    <2>4. QED  BY <2>1, <2>2, <2>3 DEF BatchOpen
  <1>17. QED  BY <1>4, <1>6, <1>16 DEF longer

(* Whatever the number of rows already there, a row and the separator      *)
(* before it leave the session in a batch that is open.                    *)
OpenScript(script, w) == \E b, m \in Nat : m <= Batch /\ BatchOpen(Load(script), w, b, m)

LEMMA RowExtends ==
  ASSUME NEW script \in Seq(ScriptToken), NEW w \in Seq(Row), NEW row \in Row,
         OpenScript(script, w)
  PROVE  OpenScript(script \o Separator(Len(w)) \o <<RowToken(row)>>, Append(w, row))
  <1> DEFINE longer == script \o Separator(Len(w)) \o <<RowToken(row)>>
             token == RowToken(row)
             s == Load(script)
  <1>1. PICK b \in Nat, m \in Nat : m <= Batch /\ BatchOpen(s, w, b, m)
    BY DEF OpenScript
  <1>2. /\ Batch \in Nat \ {0} /\ b % Batch = 0 /\ Len(w) = b + m /\ (m = 0 => b = 0)
        /\ s \in Session
    BY <1>1, BatchAssumption DEF BatchOpen
  <1>3. /\ INSERT \in ScriptToken /\ COMMA \in ScriptToken /\ SEMICOLON \in ScriptToken
        /\ token \in ScriptToken
    BY TokensTyped
  <1> HIDE DEF s, token
  <1>4. ASSUME NEW k \in ScriptToken
        PROVE  /\ script \o <<k>> = Append(script, k)
               /\ Append(script, k) \in Seq(ScriptToken)
    OBVIOUS
  <1>5. Len(w) = 0 <=> m = 0
    BY <1>2
  <1>6. CASE m = 0
    <2>1. Separator(Len(w)) = <<INSERT>>
      <3>1. 0 % Batch = 0
        BY <1>2
      <3>2. QED  BY <1>5, <1>6, <3>1 DEF Separator
    <2>2. Load(longer) = Feed(Feed(s, INSERT), token)
      <3>1. longer = Append(Append(script, INSERT), token)
        BY <1>3, <1>4, <2>1 DEF token
      <3>2. QED  BY <1>3, <1>4, <3>1, LoadAppend DEF s
    <2>3. /\ s.stmt = << >> /\ s.table = << >> /\ w = << >> /\ Len(w) % Batch = 0
          /\ s.tx = (IF AllValid(w, Len(w)) THEN "open" ELSE "failed")
          /\ s.tx = "open" => s.pending = w
      <3>1. s.stmt = << >>
        BY <1>1, <1>6 DEF BatchOpen, Session
      <3>2. w = << >> /\ b = 0 /\ Len(w) = 0 /\ SubSeq(w, 1, b) = w
        BY <1>2, <1>6
      <3>3. QED  BY <1>1, <3>1, <3>2 DEF BatchOpen
    <2>4. BatchOpen(Load(longer), Append(w, row), Len(w), 1)
      BY <1>2, <2>2, <2>3, StatementBegins DEF token
    <2>5. QED  BY <1>2, <2>4 DEF OpenScript
  <1>7. CASE m > 0 /\ m < Batch
    <2>1. Separator(Len(w)) = <<COMMA>>
      <3>1. Len(w) % Batch = m
        <4>1. m \in 0 .. Batch - 1
          BY <1>2, <1>7
        <4>2. QED  BY <1>2, <4>1, RemainderAfter
      <3>2. QED  BY <1>7, <3>1 DEF Separator
    <2>2. Load(longer) = Feed(Feed(s, COMMA), token)
      <3>1. longer = Append(Append(script, COMMA), token)
        BY <1>3, <1>4, <2>1 DEF token
      <3>2. QED  BY <1>3, <1>4, <3>1, LoadAppend DEF s
    <2>3. BatchOpen(Load(longer), Append(w, row), b, m + 1)
      BY <1>1, <1>7, <2>2, StatementGoesOn DEF token
    <2>4. m + 1 \in Nat /\ m + 1 <= Batch
      BY <1>2, <1>7
    <2>5. QED  BY <2>3, <2>4 DEF OpenScript
  <1>8. CASE m = Batch
    <2>1. Len(w) % Batch = 0 /\ Len(w) # 0
      <3>1. (b + Batch) % Batch = 0
        BY <1>2, MultipleAfter
      <3>2. Len(w) = b + Batch /\ Batch # 0 /\ b \in Nat /\ Batch \in Nat
        BY <1>2, <1>8
      <3>3. QED  BY <3>1, <3>2
    <2>2. Separator(Len(w)) = <<SEMICOLON, INSERT>>
      BY <2>1 DEF Separator
    <2>3. Load(longer) = Feed(Feed(Run(s), INSERT), token)
      <3> DEFINE one == Append(script, SEMICOLON)
                 two == Append(one, INSERT)
      <3>1. longer = Append(two, token)
        BY <1>3, <2>2 DEF token
      <3>2. one \in Seq(ScriptToken) /\ two \in Seq(ScriptToken)
        BY <1>3
      <3>3. Load(one) = Run(s)
        BY <1>3, LoadAppend, FeedSemicolon DEF s
      <3> HIDE DEF one
      <3>4. Load(two) = Feed(Run(s), INSERT)
        BY <1>3, <3>2, <3>3, LoadAppend
      <3> HIDE DEF two
      <3>5. Load(Append(two, token)) = Feed(Feed(Run(s), INSERT), token)
        BY <1>3, <3>2, <3>4, LoadAppend
      <3>6. QED  BY <3>1, <3>5
    <2>4. BatchOpen(Load(longer), Append(w, row), Len(w), 1)
      BY <1>1, <2>1, <2>3, BatchEnds, StatementBegins DEF token
    <2>5. QED  BY <1>2, <2>4 DEF OpenScript
  <1>9. QED  BY <1>1, <1>2, <1>6, <1>7, <1>8

(* The two tokens that end the script commit the rows, or roll them back   *)
(* if one of them failed the transaction.                                  *)
LEMMA ScriptEnds ==
  ASSUME NEW script \in Seq(ScriptToken), NEW w \in Seq(Row), OpenScript(script, w)
  PROVE  Loaded(script \o <<SEMICOLON, COMMIT>>)
           = IF AllValid(w, Len(w)) THEN w ELSE << >>
  <1> DEFINE one == Append(script, SEMICOLON)
             s == Load(script)
             t == Run(s)
  <1>1. PICK b \in Nat, m \in Nat : m <= Batch /\ BatchOpen(s, w, b, m)
    BY DEF OpenScript
  <1>2. SEMICOLON \in ScriptToken /\ COMMIT \in ScriptToken
    BY TokensTyped
  <1>3. script \o <<SEMICOLON, COMMIT>> = Append(one, COMMIT) /\ one \in Seq(ScriptToken)
    BY <1>2
  <1>4. Load(one) = t
    BY <1>2, LoadAppend, FeedSemicolon
  <1>5. /\ t \in Session /\ t.stmt = << >> /\ t.table = << >>
        /\ t.tx = IF AllValid(w, Len(w)) THEN "open" ELSE "failed"
        /\ t.tx = "open" => t.pending = w
    <2> HIDE DEF s
    <2>1. QED  BY <1>1, BatchEnds
  <1> HIDE DEF one, t
  <1>6. Load(Append(one, COMMIT)) = Commit(t)
    BY <1>2, <1>3, <1>4, <1>5, LoadAppend, FeedCommit
  <1>7. Commit(t).table = IF t.tx = "open" THEN t.table \o t.pending ELSE t.table
    BY DEF Commit, NewSession
  <1>8. << >> \o w = w
    OBVIOUS
  <1>9. QED  BY <1>3, <1>5, <1>6, <1>7, <1>8 DEF Loaded

LEMMA TransactionBegins == OpenScript(<<BEGIN>>, << >>)
  <1> DEFINE s == [NewSession EXCEPT !.tx = "open"]
  <1>1. BEGIN \in ScriptToken /\ BEGIN # SEMICOLON
    BY TokensTyped, TokensDiffer
  <1>2. <<BEGIN>> = Append(<< >>, BEGIN) /\ << >> \in Seq(ScriptToken)
    OBVIOUS
  <1>3. Load(<<BEGIN>>) = Feed(NewSession, BEGIN)
    BY <1>1, <1>2, LoadAppend, LoadEmpty
  <1>4. Feed(NewSession, BEGIN) = s
    BY TokensDiffer DEF Feed, NewSession
  <1>5. /\ s \in Session /\ s.stmt = << >> /\ s.table = << >> /\ s.tx = "open"
        /\ s.pending = << >>
    <2>1. << >> \in Seq(ScriptToken) /\ << >> \in Seq(Row)
      OBVIOUS
    <2>2. s = [stmt |-> << >>, tx |-> "open", pending |-> << >>, table |-> << >>]
      BY DEF NewSession
    <2> HIDE DEF s
    <2>3. QED  BY <2>1, <2>2 DEF Session
  <1>6. /\ SubSeq(<< >>, 1, 0) = << >> /\ AllValid(<< >>, 0) /\ 0 % Batch = 0
        /\ Batch \in Nat /\ Len(<< >>) = 0
    BY BatchAssumption DEF AllValid
  <1> HIDE DEF s
  <1>7. BatchOpen(s, << >>, 0, 0)
    BY <1>5, <1>6 DEF BatchOpen
  <1>8. QED  BY <1>3, <1>4, <1>6, <1>7 DEF OpenScript

-----------------------------------------------------------------------------
(* A script that has begun its transaction and not committed it loads      *)
(* nothing.                                                                *)

Unfinished(script) ==
  script # << >> =>
    script[1] = BEGIN /\ \A k \in 2 .. Len(script) : script[k] \notin {BEGIN, COMMIT}

Waiting(s) == s \in Session /\ s.table = << >> /\ s.tx # "none"

LEMMA RowsTyped ==
  ASSUME NEW stmt \in Seq(ScriptToken)
  PROVE  RowsOf(stmt) \in Seq(Row)
  <1> DEFINE n == Len(stmt)
             half == n \div 2
  <1>1. n \in Nat
    OBVIOUS
  <1> HIDE DEF n
  <1>2. half \in Nat /\ 2 * half <= n
    BY <1>1
  <1> HIDE DEF half
  <1>3. ASSUME NEW k \in 1 .. half
        PROVE  stmt[2 * k].row \in Row
    <2>1. 2 * k \in 1 .. n
      BY <1>1, <1>2
    <2>2. stmt[2 * k] \in ScriptToken
      BY <2>1, ElementOfSeq DEF n
    <2>3. QED  BY <2>2 DEF ScriptToken
  <1>4. [k \in 1 .. half |-> stmt[2 * k].row] \in Seq(Row)
    BY <1>2, <1>3
  <1>5. QED  BY <1>4 DEF RowsOf, half, n

(* Whatever statement is run in a transaction, the table waits for the     *)
(* commit.                                                                 *)
LEMMA RunWaits ==
  ASSUME NEW s, Waiting(s)
  PROVE  Waiting(Run(s))
  <1> DEFINE rows == RowsOf(s.stmt)
             done == [s EXCEPT !.stmt = << >>]
  <1>1. /\ s \in Session /\ s.stmt \in Seq(ScriptToken) /\ s.table = << >>
        /\ s.tx \in {"open", "failed"} /\ s.pending \in Seq(Row)
    BY DEF Waiting, Session
  <1>2. rows \in Seq(Row)
    BY <1>1, RowsTyped
  <1>3. /\ done \in Session /\ done.stmt = << >> /\ done.table = << >> /\ done.tx = s.tx
        /\ done.pending = s.pending
    <2>1. << >> \in Seq(ScriptToken)
      OBVIOUS
    <2>2. QED  BY <1>1, <2>1 DEF Session
  <1> HIDE DEF rows, done
  <1>4. CASE s.stmt = << >>
    BY <1>4 DEF Run
  <1>5. CASE s.stmt # << >> /\ s.tx = "open" /\ ValidInsert(s.stmt)
    <2>1. Run(s) = [done EXCEPT !.pending = s.pending \o rows]
      BY <1>3, <1>5 DEF Run, done, rows
    <2>2. s.pending \o rows \in Seq(Row)
      BY <1>1, <1>2
    <2>3. QED  BY <1>1, <1>3, <2>1, <2>2 DEF Session, Waiting
  <1>6. CASE s.stmt # << >> /\ s.tx = "open" /\ ~ ValidInsert(s.stmt)
    <2>1. Run(s) = [done EXCEPT !.tx = "failed"]
      BY <1>3, <1>6 DEF Run, done
    <2>2. QED  BY <1>1, <1>3, <2>1 DEF Session, Waiting
  <1>7. CASE s.stmt # << >> /\ s.tx = "failed"
    <2>1. Run(s) = done
      BY <1>7 DEF Run, done
    <2>2. QED  BY <1>1, <1>3, <2>1 DEF Waiting
  <1>8. QED  BY <1>1, <1>4, <1>5, <1>6, <1>7

LEMMA FeedWaits ==
  ASSUME NEW s, Waiting(s), NEW token \in ScriptToken, token \notin {BEGIN, COMMIT}
  PROVE  Waiting(Feed(s, token))
  <1>1. CASE token = SEMICOLON
    BY <1>1, RunWaits, FeedSemicolon
  <1>2. CASE token # SEMICOLON
    <2>1. Feed(s, token) = [s EXCEPT !.stmt = Append(s.stmt, token)]
      BY <1>2 DEF Feed
    <2>2. Append(s.stmt, token) \in Seq(ScriptToken)
      BY DEF Waiting, Session
    <2>3. QED  BY <2>1, <2>2 DEF Waiting, Session
  <1>3. QED  BY <1>1, <1>2

LEMMA UnfinishedLoadsNothing ==
  ASSUME NEW script \in Seq(ScriptToken), Unfinished(script)
  PROVE  Loaded(script) = << >>
  <1>1. CASE script = << >>
    BY <1>1, LoadEmpty DEF Loaded, NewSession
  <1>2. CASE script # << >>
    <2> DEFINE n == Len(script) - 1
    <2>1. n \in Nat /\ Len(script) = n + 1
      BY <1>2
    <2> HIDE DEF n
    <2>2. PICK f : IsSession(f, script, n + 1) /\ Load(script) = f[n + 1]
      BY <2>1, LoadIsSession
    <2> DEFINE S == {k \in 0 .. n : Waiting(f[k + 1])}
    <2>3. 0 \in S
      <3>1. f[0] = NewSession
        BY <2>1, <2>2 DEF IsSession
      <3>2. f[0 + 1] = Feed(f[0], script[0 + 1])
        BY <2>1, <2>2, SessionStep
      <3>3. f[1] = [NewSession EXCEPT !.tx = "open"]
        <4>1. script[1] = BEGIN
          BY <1>2 DEF Unfinished
        <4>2. Feed(NewSession, BEGIN) = [NewSession EXCEPT !.tx = "open"]
          BY TokensDiffer DEF Feed, NewSession
        <4>3. QED  BY <3>1, <3>2, <4>1, <4>2
      <3>4. << >> \in Seq(ScriptToken) /\ << >> \in Seq(Row)
        OBVIOUS
      <3>5. f[1] = [stmt |-> << >>, tx |-> "open", pending |-> << >>, table |-> << >>]
        BY <3>3 DEF NewSession
      <3>6. Waiting(f[1])
        BY <3>4, <3>5 DEF Waiting, Session
      <3>7. QED  BY <2>1, <3>6
    <2>4. \A k \in 0 .. n - 1 : k \in S => k + 1 \in S
      <3> SUFFICES ASSUME NEW k \in 0 .. n - 1, Waiting(f[k + 1])
                   PROVE  Waiting(f[(k + 1) + 1])
        BY <2>1
      <3>1. k + 1 \in 0 .. (n + 1) - 1 /\ (k + 1) + 1 \in 2 .. Len(script)
        BY <2>1
      <3>2. f[(k + 1) + 1] = Feed(f[k + 1], script[(k + 1) + 1])
        BY <2>1, <2>2, <3>1, SessionStep
      <3>3. script[(k + 1) + 1] \in ScriptToken
        <4>1. (k + 1) + 1 \in 1 .. Len(script)
          BY <3>1
        <4>2. QED  BY <4>1, ElementOfSeq
      <3>4. script[(k + 1) + 1] \notin {BEGIN, COMMIT}
        BY <1>2, <3>1 DEF Unfinished
      <3>5. QED  BY <3>2, <3>3, <3>4, FeedWaits
    <2> HIDE DEF S
    <2>5. n \in S
      BY <2>1, <2>3, <2>4, IntervalInduction
    <2>6. QED  BY <2>2, <2>5 DEF S, Waiting, Loaded
  <1>3. QED  BY <1>1, <1>2

LEMMA UnfinishedPrefix ==
  ASSUME NEW script \in Seq(ScriptToken), Unfinished(script), NEW n \in 0 .. Len(script)
  PROVE  Unfinished(SubSeq(script, 1, n))
  BY DEF Unfinished

LEMMA UnfinishedGrows ==
  ASSUME NEW script \in Seq(ScriptToken), script # << >>, Unfinished(script),
         NEW count, NEW row \in Row
  PROVE  Unfinished(script \o Separator(count) \o <<RowToken(row)>>)
  <1> DEFINE q == Separator(count) \o <<RowToken(row)>>
  <1>1. /\ INSERT \notin {BEGIN, COMMIT} /\ COMMA \notin {BEGIN, COMMIT}
        /\ SEMICOLON \notin {BEGIN, COMMIT} /\ RowToken(row) \notin {BEGIN, COMMIT}
    BY DEF INSERT, COMMA, SEMICOLON, BEGIN, COMMIT, Token, RowToken
  <1>2. /\ INSERT \in ScriptToken /\ COMMA \in ScriptToken /\ SEMICOLON \in ScriptToken
        /\ RowToken(row) \in ScriptToken
    BY TokensTyped
  <1>3. q \in Seq(ScriptToken) /\ \A k \in 1 .. Len(q) : q[k] \notin {BEGIN, COMMIT}
    BY <1>1, <1>2 DEF Separator
  <1>4. script \o Separator(count) \o <<RowToken(row)>> = script \o q
    <2>1. Separator(count) \in Seq(ScriptToken) /\ <<RowToken(row)>> \in Seq(ScriptToken)
      BY <1>2 DEF Separator
    <2>2. QED  BY <2>1, ConcatAssociative
  <1> HIDE DEF q
  <1>5. /\ script \o q # << >> /\ (script \o q)[1] = script[1]
        /\ \A k \in 1 .. Len(script) : (script \o q)[k] = script[k]
        /\ \A k \in Len(script) + 1 .. Len(script \o q) :
             k - Len(script) \in 1 .. Len(q) /\ (script \o q)[k] = q[k - Len(script)]
    BY <1>3
  <1>6. \A k \in 2 .. Len(script \o q) :
          k \in 2 .. Len(script) \/ k \in Len(script) + 1 .. Len(script \o q)
    BY <1>3
  <1>7. Unfinished(script \o q)
    BY <1>3, <1>5, <1>6 DEF Unfinished
  <1>8. QED  BY <1>4, <1>7

-----------------------------------------------------------------------------
(* What the script is worth at every step of the dump.                     *)

ScriptInv ==
  /\ pc = "start" => out = << >> /\ written = << >>
  /\ pc \in {"read", "items"} => out # << >> /\ OpenScript(out, written)
  /\ pc = "returned" =>
       Loaded(out) = IF AllValid(written, Len(written)) THEN written ELSE << >>
  /\ pc # "returned" => Unfinished(out)

LEMMA AbortScript ==
  ASSUME DumpTypeOK, ScriptInv, pc # "returned", NEW how \in {"aborted", "undefined"},
         Abort(how)
  PROVE  ScriptInv'
  <1>1. PICK n \in 0 .. Len(out) : out' = SubSeq(out, 1, n)
    BY DEF Abort
  <1>2. Unfinished(out)' <=> Unfinished(out')
    BY DEF Unfinished
  <1>3. Unfinished(out')
    BY <1>1, UnfinishedPrefix DEF DumpTypeOK, ScriptInv
  <1>4. pc' = how
    BY DEF Abort
  <1>5. QED  BY <1>2, <1>3, <1>4 DEF ScriptInv

LEMMA StepScript == DumpTypeOK /\ DumpTypeOK' /\ ScriptInv /\ [Next]_vars => ScriptInv'
  <1> SUFFICES ASSUME DumpTypeOK, DumpTypeOK', ScriptInv, [Next]_vars
               PROVE  ScriptInv'
    OBVIOUS
  <1>0. out \in Seq(ScriptToken) /\ written \in Seq(Row) /\ insertion_count = Len(written)
    BY DEF DumpTypeOK
  <1>1. CASE AbortStep
    <2>1. pc # "returned"
      BY <1>1 DEF AbortStep, NotOpened, ToastMapFails, Accepted, BadCount, OffPage,
                  AssertionFails, ReadsOffPage, AtTuple, AtItem
    <2>2. QED  BY <1>1, <2>1, HowStepsAbort, AbortScript
  <1>2. CASE Refused
    BY <1>2 DEF Refused, ScriptInv, Unfinished
  <1>3. CASE user_code_setup
    <2>1. out' = <<BEGIN>> /\ written' = << >> /\ pc' = "read"
      BY <1>3 DEF user_code_setup, Accepted, ScriptInv
    <2>2. Unfinished(<<BEGIN>>) /\ <<BEGIN>> # << >>
      BY DEF Unfinished
    <2>3. QED  BY <2>1, <2>2, TransactionBegins DEF ScriptInv
  <1>4. CASE read_page \/ ReadFails \/ ReadRefused \/ SkipItem \/ SkipRow \/ NextPage
    <2>1. /\ UNCHANGED <<out, written>>
          /\ pc \in {"read", "items"} /\ pc' \in {"read", "items"}
      BY <1>4 DEF read_page, ReadFails, ReadRefused, AtPage, SkipItem, SkipRow, AtTuple, AtItem,
                  NextPage
    <2>2. QED  BY <2>1 DEF ScriptInv
  <1>5. CASE PrintRow
    <2> DEFINE row == RowText(Item)
               longer == out \o Separator(insertion_count) \o <<RowToken(row)>>
               rows == Append(written, row)
    <2>1. out' = longer /\ written' = rows /\ pc = "items" /\ pc' = "items"
      BY <1>5 DEF PrintRow, AtTuple, AtItem
    <2>2. row \in Row
      <3>1. rows \in Seq(Row) /\ Len(rows) = Len(written) + 1 /\ rows[Len(written) + 1] = row
        BY <1>0, <2>1 DEF DumpTypeOK
      <3> HIDE DEF rows, row
      <3>2. Len(written) + 1 \in 1 .. Len(rows)
        BY <1>0, <3>1
      <3>3. QED  BY <3>1, <3>2, ElementOfSeq
    <2> HIDE DEF row
    <2>3. OpenScript(longer, rows)
      BY <1>0, <2>1, <2>2, RowExtends DEF ScriptInv
    <2>4. Unfinished(longer)
      BY <1>0, <2>1, <2>2, UnfinishedGrows DEF ScriptInv
    <2>5. longer # << >>
      <3>1. RowToken(row) \in ScriptToken /\ Separator(insertion_count) \in Seq(ScriptToken)
        BY <1>0, <2>2, TokensTyped, SeparatorTyped
      <3>2. QED  BY <1>0, <3>1
    <2> HIDE DEF longer, rows
    <2>6. QED  BY <2>1, <2>3, <2>4, <2>5 DEF ScriptInv
  <1>6. CASE user_code_finish
    <2>1. /\ out' = out \o <<SEMICOLON, COMMIT>> /\ UNCHANGED written
          /\ pc = "read" /\ pc' = "returned"
      BY <1>6 DEF user_code_finish
    <2>2. Loaded(out \o <<SEMICOLON, COMMIT>>)
            = IF AllValid(written, Len(written)) THEN written ELSE << >>
      BY <1>0, <2>1, ScriptEnds DEF ScriptInv
    <2>3. QED  BY <2>1, <2>2 DEF ScriptInv
  <1>7. CASE UNCHANGED vars
    BY <1>7 DEF vars, ScriptInv
  <1>8. QED
    BY <1>1, <1>2, <1>3, <1>4, <1>5, <1>6, <1>7 DEF Next, Step, Terminated, AbortStep

LEMMA SpecScript == Spec => [](DumpTypeOK /\ ScriptInv)
  <1>1. Init => ScriptInv
    BY DEF Init, ScriptInv, Unfinished
  <1>2. QED  BY <1>1, SpecTyped, StepScript, PTL DEF Spec

LEMMA EveryRowValid ==
  ASSUME NEW w \in Seq(Row)
  PROVE  AllValid(w, Len(w)) <=> \A k \in DOMAIN w : w[k].valid
  BY DEF AllValid

(* At every row the script, closed there, is one transaction that inserts  *)
(* the rows printed so far in their order and no other, for every batch    *)
(* size and every pattern of skipped rows; one row no server can evaluate  *)
(* and it inserts none.                                                    *)
THEOREM EveryRowLoads == Spec => []ScriptLoadsItsRows
  <1>1. DumpTypeOK /\ ScriptInv => ScriptLoadsItsRows
    <2> SUFFICES ASSUME DumpTypeOK, ScriptInv, pc \in {"read", "items", "returned"}
                 PROVE  Loaded(ClosedScript)
                          = IF \A k \in DOMAIN written : written[k].valid
                              THEN written ELSE << >>
      BY DEF ScriptLoadsItsRows
    <2>1. out \in Seq(ScriptToken) /\ written \in Seq(Row)
      BY DEF DumpTypeOK
    <2>2. Loaded(ClosedScript) = IF AllValid(written, Len(written)) THEN written ELSE << >>
      <3>1. CASE pc = "returned"
        BY <3>1 DEF ScriptInv, ClosedScript
      <3>2. CASE pc \in {"read", "items"}
        BY <2>1, <3>2, ScriptEnds DEF ScriptInv, ClosedScript
      <3>3. QED  BY <3>1, <3>2
    <2>3. QED  BY <2>1, <2>2, EveryRowValid
  <1>2. QED  BY <1>1, SpecScript, PTL

(* Wherever the program stops before its end, and whatever prefix of the   *)
(* script its output buffer lets through, nothing is committed.            *)
THEOREM InterruptionIsSafe == Spec => []InterruptedDumpLoadsNothing
  <1>1. DumpTypeOK /\ ScriptInv => InterruptedDumpLoadsNothing
    BY UnfinishedLoadsNothing DEF DumpTypeOK, ScriptInv, InterruptedDumpLoadsNothing
  <1>2. QED  BY <1>1, SpecScript, PTL

(* The dump implements the atomic one: a row printed is a row collected,   *)
(* the end of the script publishes all of them or none, and no other step  *)
(* changes what a load of the output would leave.                          *)
THEOREM DumpIsAtomic == Spec => ImplementsAtomicDump
  <1>1. Init => Atomic!DumpInit
    BY LoadEmpty DEF Init, Atomic!DumpInit, Loaded, NewSession
  <1>2. DumpTypeOK /\ ScriptInv /\ (DumpTypeOK /\ ScriptInv)' /\ [Next]_vars
          => [Atomic!Collect \/ Atomic!Publish]_(Atomic!dumpVars)
    <2> SUFFICES ASSUME DumpTypeOK, ScriptInv, DumpTypeOK', ScriptInv', [Next]_vars
                 PROVE  [Atomic!Collect \/ Atomic!Publish]_(Atomic!dumpVars)
      OBVIOUS
    <2> USE DEF Atomic!dumpVars, Atomic!Collect, Atomic!Publish
    <2>1. pc # "returned" => Loaded(out) = << >>
      BY UnfinishedLoadsNothing DEF DumpTypeOK, ScriptInv
    <2>2. pc' # "returned" => Loaded(out') = << >>
      <3>1. out' \in Seq(ScriptToken) /\ (pc' # "returned" => Unfinished(out'))
        BY DEF DumpTypeOK, ScriptInv, Unfinished
      <3>2. QED  BY <3>1, UnfinishedLoadsNothing
    <2>3. CASE PrintRow
      <3>1. written' = Append(written, RowText(Item)) /\ pc # "returned" /\ pc' # "returned"
        BY <2>3 DEF PrintRow, AtTuple, AtItem
      <3>2. written \in Seq(Row)
        BY DEF DumpTypeOK
      <3>3. Len(written') = Len(written) + 1 /\ SubSeq(written', 1, Len(written)) = written
        BY <3>1, <3>2
      <3>4. Loaded(out) = << >> /\ Loaded(out)' = Loaded(out)
        BY <2>1, <2>2, <3>1
      <3>5. QED  BY <3>3, <3>4
    <2>4. CASE user_code_finish
      <3>1. pc = "read" /\ pc' = "returned" /\ UNCHANGED written
        BY <2>4 DEF user_code_finish
      <3>2. Loaded(out)' = written \/ Loaded(out)' = << >>
        BY <3>1 DEF ScriptInv
      <3>3. Loaded(out) = << >>
        BY <2>1, <3>1
      <3>4. QED  BY <3>1, <3>2, <3>3
    <2>5. CASE Terminated \/ UNCHANGED vars
      <3>1. UNCHANGED <<out, written>>
        BY <2>5 DEF Terminated, vars
      <3>2. QED  BY <3>1
    <2>6. CASE AbortStep
      <3>1. pc # "returned"
        BY <2>6 DEF AbortStep, NotOpened, ToastMapFails, Accepted, BadCount, OffPage,
                    AssertionFails, ReadsOffPage, AtTuple, AtItem
      <3>2. pc' # "returned" /\ UNCHANGED written
        BY <2>6, HowStepsAbort DEF Abort
      <3>3. QED  BY <2>1, <2>2, <3>1, <3>2
    <2>7. CASE \/ Refused \/ user_code_setup \/ read_page \/ ReadFails \/ ReadRefused
               \/ SkipItem \/ SkipRow \/ NextPage
      <3>1. pc # "returned" /\ pc' # "returned" /\ UNCHANGED written
        BY <2>7 DEF Refused, user_code_setup, Accepted, read_page, ReadFails, ReadRefused, AtPage,
                    SkipItem, SkipRow, AtTuple, AtItem, NextPage
      <3>2. QED  BY <2>1, <2>2, <3>1
    <2>8. QED  BY <2>3, <2>4, <2>5, <2>6, <2>7 DEF Next, Step, AbortStep
  <1>3. QED
    BY <1>1, <1>2, SpecScript, PTL DEF Spec, ImplementsAtomicDump, Atomic!DumpSpec

-----------------------------------------------------------------------------
(* The rows of a page, item by item, and of a file, page by page.          *)

NextItemRow(rows, page, k) ==
  IF Dumpable(LinePointer(page, k)) THEN Append(rows, RowText(LinePointer(page, k))) ELSE rows

IsItemRows(f, page, m) ==
  f = [k \in 0 .. m |-> IF k = 0 THEN << >> ELSE NextItemRow(f[k - 1], page, k - 1)]

LEMMA ItemRowsStep ==
  ASSUME NEW page, NEW m \in Nat, NEW f, IsItemRows(f, page, m), NEW k \in 0 .. m - 1
  PROVE  f[k + 1] = NextItemRow(f[k], page, k)
  <1>1. k + 1 \in 0 .. m /\ k + 1 # 0 /\ (k + 1) - 1 = k
    OBVIOUS
  <1>2. QED  BY <1>1 DEF IsItemRows

LEMMA ItemRowsExist ==
  ASSUME NEW page, NEW n \in Nat
  PROVE  \E f : IsItemRows(f, page, n)
  <1> DEFINE S == {m \in 0 .. n : \E f : IsItemRows(f, page, m)}
  <1>1. 0 \in S
    <2>1. IsItemRows([k \in 0 .. 0 |-> << >>], page, 0)
      BY DEF IsItemRows
    <2>2. QED  BY <2>1
  <1>2. \A m \in 0 .. n - 1 : m \in S => m + 1 \in S
    <2> SUFFICES ASSUME NEW m \in 0 .. n - 1, NEW f, IsItemRows(f, page, m)
                 PROVE  \E g : IsItemRows(g, page, m + 1)
      OBVIOUS
    <2> DEFINE g == [k \in 0 .. m + 1 |->
                       IF k = m + 1 THEN NextItemRow(f[m], page, m) ELSE f[k]]
    <2>1. IsItemRows(g, page, m + 1)
      BY DEF IsItemRows
    <2>2. QED  BY <2>1
  <1> HIDE DEF S
  <1>3. 0 .. n \subseteq S
    BY <1>1, <1>2, IntervalInduction
  <1>4. QED  BY <1>3 DEF S

LEMMA ItemRowsIsLast ==
  ASSUME NEW page, NEW n \in Nat
  PROVE  \E f : IsItemRows(f, page, n) /\ ItemRows(page, n) = f[n]
  <1> DEFINE f == CHOOSE f : IsItemRows(f, page, n)
  <1>1. IsItemRows(f, page, n)
    BY ItemRowsExist
  <1>2. ItemRows(page, n) = f[n]
    BY DEF ItemRows, IsItemRows, NextItemRow
  <1>3. QED  BY <1>1, <1>2

LEMMA ItemRowsAgree ==
  ASSUME NEW page, NEW n \in Nat, NEW m \in Nat, n <= m,
         NEW f, IsItemRows(f, page, n), NEW g, IsItemRows(g, page, m)
  PROVE  f[n] = g[n]
  <1> DEFINE S == {k \in 0 .. n : f[k] = g[k]}
  <1>1. 0 \in S
    BY DEF IsItemRows
  <1>2. \A k \in 0 .. n - 1 : k \in S => k + 1 \in S
    <2> SUFFICES ASSUME NEW k \in 0 .. n - 1, f[k] = g[k]
                 PROVE  f[k + 1] = g[k + 1]
      OBVIOUS
    <2>1. f[k + 1] = NextItemRow(f[k], page, k)
      BY ItemRowsStep
    <2>2. g[k + 1] = NextItemRow(g[k], page, k)
      BY ItemRowsStep
    <2>3. QED  BY <2>1, <2>2
  <1> HIDE DEF S
  <1>3. n \in S
    BY <1>1, <1>2, IntervalInduction
  <1>4. QED  BY <1>3 DEF S

LEMMA NoItemRows ==
  ASSUME NEW page
  PROVE  ItemRows(page, 0) = << >>
  <1>1. PICK f : IsItemRows(f, page, 0) /\ ItemRows(page, 0) = f[0]
    BY ItemRowsIsLast
  <1>2. QED  BY <1>1 DEF IsItemRows

(* One more line pointer adds its row, or none.                            *)
LEMMA OneMoreItem ==
  ASSUME NEW page, NEW n \in Nat
  PROVE  ItemRows(page, n + 1) = NextItemRow(ItemRows(page, n), page, n)
  <1>1. PICK f : IsItemRows(f, page, n) /\ ItemRows(page, n) = f[n]
    BY ItemRowsIsLast
  <1>2. PICK g : IsItemRows(g, page, n + 1) /\ ItemRows(page, n + 1) = g[n + 1]
    BY ItemRowsIsLast
  <1>3. f[n] = g[n]
    BY <1>1, <1>2, ItemRowsAgree
  <1>4. g[n + 1] = NextItemRow(g[n], page, n)
    BY <1>2, ItemRowsStep
  <1>5. QED  BY <1>1, <1>2, <1>3, <1>4

AddPage(rows, file, k) == rows \o ItemRows(file[k], ItemIdCount(file[k]))

IsPageRows(f, file, m) ==
  f = [k \in 0 .. m |-> IF k = 0 THEN << >> ELSE AddPage(f[k - 1], file, k)]

LEMMA PageRowsStep ==
  ASSUME NEW file, NEW m \in Nat, NEW f, IsPageRows(f, file, m), NEW k \in 0 .. m - 1
  PROVE  f[k + 1] = AddPage(f[k], file, k + 1)
  <1>1. k + 1 \in 0 .. m /\ k + 1 # 0 /\ (k + 1) - 1 = k
    OBVIOUS
  <1>2. QED  BY <1>1 DEF IsPageRows

LEMMA PageRowsExist ==
  ASSUME NEW file, NEW n \in Nat
  PROVE  \E f : IsPageRows(f, file, n)
  <1> DEFINE S == {m \in 0 .. n : \E f : IsPageRows(f, file, m)}
  <1>1. 0 \in S
    <2>1. IsPageRows([k \in 0 .. 0 |-> << >>], file, 0)
      BY DEF IsPageRows
    <2>2. QED  BY <2>1
  <1>2. \A m \in 0 .. n - 1 : m \in S => m + 1 \in S
    <2> SUFFICES ASSUME NEW m \in 0 .. n - 1, NEW f, IsPageRows(f, file, m)
                 PROVE  \E g : IsPageRows(g, file, m + 1)
      OBVIOUS
    <2> DEFINE g == [k \in 0 .. m + 1 |->
                       IF k = m + 1 THEN AddPage(f[m], file, m + 1) ELSE f[k]]
    <2>1. IsPageRows(g, file, m + 1)
      BY DEF IsPageRows
    <2>2. QED  BY <2>1
  <1> HIDE DEF S
  <1>3. 0 .. n \subseteq S
    BY <1>1, <1>2, IntervalInduction
  <1>4. QED  BY <1>3 DEF S

LEMMA PageRowsIsLast ==
  ASSUME NEW file, NEW n \in Nat
  PROVE  \E f : IsPageRows(f, file, n) /\ PageRows(file, n) = f[n]
  <1> DEFINE f == CHOOSE f : IsPageRows(f, file, n)
  <1>1. IsPageRows(f, file, n)
    BY PageRowsExist
  <1>2. PageRows(file, n) = f[n]
    BY DEF PageRows, IsPageRows, AddPage
  <1>3. QED  BY <1>1, <1>2

LEMMA PageRowsAgree ==
  ASSUME NEW file, NEW n \in Nat, NEW m \in Nat, n <= m,
         NEW f, IsPageRows(f, file, n), NEW g, IsPageRows(g, file, m)
  PROVE  f[n] = g[n]
  <1> DEFINE S == {k \in 0 .. n : f[k] = g[k]}
  <1>1. 0 \in S
    BY DEF IsPageRows
  <1>2. \A k \in 0 .. n - 1 : k \in S => k + 1 \in S
    <2> SUFFICES ASSUME NEW k \in 0 .. n - 1, f[k] = g[k]
                 PROVE  f[k + 1] = g[k + 1]
      OBVIOUS
    <2>1. f[k + 1] = AddPage(f[k], file, k + 1)
      BY PageRowsStep
    <2>2. g[k + 1] = AddPage(g[k], file, k + 1)
      BY PageRowsStep
    <2>3. QED  BY <2>1, <2>2
  <1> HIDE DEF S
  <1>3. n \in S
    BY <1>1, <1>2, IntervalInduction
  <1>4. QED  BY <1>3 DEF S

LEMMA NoPageRows ==
  ASSUME NEW file
  PROVE  PageRows(file, 0) = << >>
  <1>1. PICK f : IsPageRows(f, file, 0) /\ PageRows(file, 0) = f[0]
    BY PageRowsIsLast
  <1>2. QED  BY <1>1 DEF IsPageRows

(* One more page adds its rows.                                            *)
LEMMA OneMorePage ==
  ASSUME NEW file, NEW n \in Nat
  PROVE  PageRows(file, n + 1)
           = PageRows(file, n) \o ItemRows(file[n + 1], ItemIdCount(file[n + 1]))
  <1>1. PICK f : IsPageRows(f, file, n) /\ PageRows(file, n) = f[n]
    BY PageRowsIsLast
  <1>2. PICK g : IsPageRows(g, file, n + 1) /\ PageRows(file, n + 1) = g[n + 1]
    BY PageRowsIsLast
  <1>3. f[n] = g[n]
    BY <1>1, <1>2, PageRowsAgree
  <1>4. g[n + 1] = AddPage(g[n], file, n + 1)
    BY <1>2, PageRowsStep
  <1>5. QED  BY <1>1, <1>2, <1>3, <1>4 DEF AddPage

LEMMA DumpableRow ==
  ASSUME NEW page \in BufferPage, NEW k \in Nat,
         Dumpable(LinePointer(page, k))
  PROVE  RowText(LinePointer(page, k)) \in Row
  <1>1. LinePointer(page, k) \in TupleItem
    BY FollowedItem DEF Dumpable
  <1>2. QED  BY <1>1 DEF RowText, TupleItem, Row

LEMMA ItemRowsTyped ==
  ASSUME NEW page \in BufferPage, NEW n \in Nat
  PROVE  ItemRows(page, n) \in Seq(Row)
  <1> DEFINE S == {k \in 0 .. n : ItemRows(page, k) \in Seq(Row)}
  <1>1. 0 \in S
    <2>1. << >> \in Seq(Row)
      OBVIOUS
    <2>2. ItemRows(page, 0) \in Seq(Row)
      BY <2>1, NoItemRows
    <2>3. QED  BY <2>2
  <1>2. \A k \in 0 .. n - 1 : k \in S => k + 1 \in S
    <2> SUFFICES ASSUME NEW k \in 0 .. n - 1, ItemRows(page, k) \in Seq(Row)
                 PROVE  ItemRows(page, k + 1) \in Seq(Row)
      OBVIOUS
    <2> DEFINE r == ItemRows(page, k)
               x == RowText(LinePointer(page, k))
    <2>1. ItemRows(page, k + 1) = NextItemRow(r, page, k)
      BY OneMoreItem
    <2>2. r \in Seq(Row) /\ (Dumpable(LinePointer(page, k)) => x \in Row)
      BY DumpableRow
    <2>3. NextItemRow(r, page, k) = IF Dumpable(LinePointer(page, k)) THEN Append(r, x) ELSE r
      BY DEF NextItemRow
    <2> HIDE DEF r, x
    <2>4. NextItemRow(r, page, k) \in Seq(Row)
      BY <2>2, <2>3
    <2>5. QED  BY <2>1, <2>4
  <1> HIDE DEF S
  <1>3. n \in S
    BY <1>1, <1>2, IntervalInduction
  <1>4. QED  BY <1>3 DEF S

LEMMA PageRowsTyped ==
  ASSUME NEW file \in Seq(TablePage), NEW n \in 0 .. Len(file)
  PROVE  PageRows(file, n) \in Seq(Row)
  <1> DEFINE S == {k \in 0 .. n : PageRows(file, k) \in Seq(Row)}
  <1>0. n \in Nat /\ n <= Len(file) /\ Len(file) \in Nat
    OBVIOUS
  <1>1. 0 \in S
    <2>1. << >> \in Seq(Row)
      OBVIOUS
    <2>2. PageRows(file, 0) \in Seq(Row)
      BY <2>1, NoPageRows
    <2>3. QED  BY <1>0, <2>2
  <1>2. \A k \in 0 .. n - 1 : k \in S => k + 1 \in S
    <2> SUFFICES ASSUME NEW k \in 0 .. n - 1, PageRows(file, k) \in Seq(Row)
                 PROVE  PageRows(file, k + 1) \in Seq(Row)
      BY <1>0
    <2> DEFINE page == file[k + 1]
               r == PageRows(file, k)
               new == ItemRows(page, ItemIdCount(page))
    <2>0. k \in Nat /\ k + 1 \in 1 .. Len(file)
      BY <1>0
    <2>1. PageRows(file, k + 1) = r \o new
      BY <2>0, OneMorePage
    <2>2. page \in TablePage
      BY <2>0, ElementOfSeq
    <2>3. r \in Seq(Row)
      OBVIOUS
    <2> HIDE DEF page, r
    <2>4. new \in Seq(Row)
      BY <2>2, PagesAreBuffers, CountIsNat, ItemRowsTyped
    <2> HIDE DEF new
    <2>5. r \o new \in Seq(Row)
      BY <2>3, <2>4
    <2>6. QED  BY <2>1, <2>5
  <1> HIDE DEF S
  <1>3. 0 .. n \subseteq S
    BY <1>0, <1>1, <1>2, IntervalInduction
  <1>4. n \in S
    BY <1>0, <1>3
  <1>5. QED  BY <1>4 DEF S

Prefix(s, t) == Len(s) <= Len(t) /\ \A k \in 1 .. Len(s) : s[k] = t[k]

LEMMA PrefixTransitive ==
  ASSUME NEW s \in Seq(Row), NEW t \in Seq(Row), NEW u \in Seq(Row),
         Prefix(s, t), Prefix(t, u)
  PROVE  Prefix(s, u)
  <1>1. \A k \in 1 .. Len(s) : k \in 1 .. Len(t)
    BY DEF Prefix
  <1>2. QED  BY <1>1 DEF Prefix

LEMMA PrefixOfConcat ==
  ASSUME NEW s \in Seq(Row), NEW t \in Seq(Row), NEW u \in Seq(Row), Prefix(t, u)
  PROVE  Prefix(s, s \o t) /\ Prefix(s \o t, s \o u)
  BY DEF Prefix

LEMMA PrefixIsSubSeq ==
  ASSUME NEW s \in Seq(Row), NEW t \in Seq(Row), Prefix(s, t)
  PROVE  s = SubSeq(t, 1, Len(s))
  BY DEF Prefix

LEMMA ItemRowsGrow ==
  ASSUME NEW page \in BufferPage, NEW n \in Nat, NEW m \in 0 .. n
  PROVE  Prefix(ItemRows(page, m), ItemRows(page, n))
  <1> DEFINE S == {d \in 0 .. n - m : Prefix(ItemRows(page, m), ItemRows(page, m + d))}
  <1>0. n - m \in Nat /\ m \in Nat
    OBVIOUS
  <1>1. 0 \in S
    BY <1>0, ItemRowsTyped DEF Prefix
  <1>2. \A d \in 0 .. n - m - 1 : d \in S => d + 1 \in S
    <2> SUFFICES ASSUME NEW d \in 0 .. n - m - 1,
                        Prefix(ItemRows(page, m), ItemRows(page, m + d))
                 PROVE  Prefix(ItemRows(page, m), ItemRows(page, m + (d + 1)))
      BY <1>0
    <2> DEFINE r == ItemRows(page, m + d)
    <2>1. r \in Seq(Row) /\ m + d \in Nat /\ m + (d + 1) = (m + d) + 1
      BY <1>0, ItemRowsTyped
    <2>2. ItemRows(page, (m + d) + 1) = NextItemRow(r, page, m + d)
      BY <2>1, OneMoreItem
    <2>3. Prefix(r, NextItemRow(r, page, m + d))
      <3> HIDE DEF r
      <3>1. CASE Dumpable(LinePointer(page, m + d))
        <4>1. RowText(LinePointer(page, m + d)) \in Row
          BY <2>1, <3>1, DumpableRow
        <4>2. QED  BY <2>1, <3>1, <4>1 DEF Prefix, NextItemRow
      <3>2. CASE ~ Dumpable(LinePointer(page, m + d))
        BY <2>1, <3>2 DEF Prefix, NextItemRow
      <3>3. QED  BY <3>1, <3>2
    <2>4. ItemRows(page, m) \in Seq(Row) /\ ItemRows(page, (m + d) + 1) \in Seq(Row)
      BY <1>0, <2>1, ItemRowsTyped
    <2> HIDE DEF r
    <2>5. Prefix(ItemRows(page, m), ItemRows(page, (m + d) + 1))
      BY <2>1, <2>2, <2>3, <2>4, PrefixTransitive DEF r
    <2>6. QED  BY <2>1, <2>5
  <1> HIDE DEF S
  <1>3. n - m \in S
    BY <1>0, <1>1, <1>2, IntervalInduction
  <1>4. m + (n - m) = n
    BY <1>0
  <1>5. QED  BY <1>3, <1>4 DEF S

LEMMA PageRowsGrow ==
  ASSUME NEW file \in Seq(TablePage), NEW n \in 0 .. Len(file), NEW m \in 0 .. n
  PROVE  Prefix(PageRows(file, m), PageRows(file, n))
  <1> DEFINE S == {d \in 0 .. n - m : Prefix(PageRows(file, m), PageRows(file, m + d))}
  <1>0. n - m \in Nat /\ m \in Nat /\ m \in 0 .. Len(file)
    OBVIOUS
  <1>1. 0 \in S
    BY <1>0, PageRowsTyped DEF Prefix
  <1>2. \A d \in 0 .. n - m - 1 : d \in S => d + 1 \in S
    <2> SUFFICES ASSUME NEW d \in 0 .. n - m - 1,
                        Prefix(PageRows(file, m), PageRows(file, m + d))
                 PROVE  Prefix(PageRows(file, m), PageRows(file, m + (d + 1)))
      BY <1>0
    <2> DEFINE k == m + d
               page == file[k + 1]
               new == ItemRows(page, ItemIdCount(page))
    <2>1. /\ k \in 0 .. Len(file) /\ k \in Nat /\ k + 1 \in 0 .. Len(file)
          /\ m + (d + 1) = k + 1 /\ k + 1 \in 1 .. Len(file)
      BY <1>0
    <2> HIDE DEF k
    <2>2. PageRows(file, k + 1) = PageRows(file, k) \o new
      BY <2>1, OneMorePage
    <2>3. page \in TablePage
      BY <2>1, ElementOfSeq
    <2> HIDE DEF page
    <2>4. new \in Seq(Row)
      BY <2>3, PagesAreBuffers, CountIsNat, ItemRowsTyped
    <2> HIDE DEF new
    <2>5. /\ PageRows(file, m) \in Seq(Row) /\ PageRows(file, k) \in Seq(Row)
          /\ PageRows(file, k + 1) \in Seq(Row)
      BY <1>0, <2>1, PageRowsTyped
    <2>6. Prefix(PageRows(file, k), PageRows(file, k) \o new)
      BY <2>4, <2>5 DEF Prefix
    <2>7. Prefix(PageRows(file, m), PageRows(file, k + 1))
      BY <2>2, <2>5, <2>6, PrefixTransitive DEF k
    <2>8. QED  BY <2>1, <2>7
  <1> HIDE DEF S
  <1>3. 0 .. n - m \subseteq S
    BY <1>0, <1>1, <1>2, IntervalInduction
  <1>4. n - m \in S /\ m + (n - m) = n
    BY <1>0, <1>3
  <1>5. QED  BY <1>4 DEF S

-----------------------------------------------------------------------------
(* How far the rows of the file have been dumped.                          *)

File == call.file

DumpedSoFar == PageRows(File, which_page) \o ItemRows(buffer, i)

OrderInv ==
  good => /\ pc = "start" => written = << >> /\ which_page = 0
          /\ pc = "read" => written = PageRows(File, which_page)
          /\ pc = "items" => /\ buffer = File[which_page + 1]
                             /\ i <= ItemIdCount(buffer)
                             /\ written = DumpedSoFar
          /\ pc = "returned" => written = PageRows(File, Pages)
          /\ Prefix(written, FileRows)

LEMMA FileRowsTyped ==
  ASSUME call \in Call
  PROVE  File \in Seq(TablePage) /\ FileRows \in Seq(Row)
  <1>1. File \in Seq(TablePage)
    BY DEF File, Call
  <1>2. Len(File) \in 0 .. Len(File)
    BY <1>1
  <1>3. QED  BY <1>1, <1>2, PageRowsTyped DEF FileRows, File

(* What was dumped of a page is a prefix of all that is in the file.       *)
LEMMA DumpedIsPrefix ==
  ASSUME call \in Call, NEW p \in Nat, p < Len(File),
         NEW n \in Nat, n <= ItemIdCount(File[p + 1])
  PROVE  LET dumped == PageRows(File, p) \o ItemRows(File[p + 1], n)
         IN  dumped \in Seq(Row) /\ Prefix(dumped, FileRows)
  <1> DEFINE page == File[p + 1]
             before == PageRows(File, p)
             some == ItemRows(page, n)
             new == ItemRows(page, ItemIdCount(page))
             after == PageRows(File, p + 1)
             all == FileRows
  <1>1. /\ File \in Seq(TablePage) /\ all \in Seq(Row)
        /\ p \in 0 .. Len(File) /\ p + 1 \in 0 .. Len(File) /\ p + 1 \in 1 .. Len(File)
        /\ Len(File) \in 0 .. Len(File)
    BY FileRowsTyped
  <1>2. page \in TablePage
    BY <1>1, ElementOfSeq
  <1>3. before \in Seq(Row) /\ after \in Seq(Row)
    BY <1>1, PageRowsTyped
  <1>4. after = before \o new
    BY OneMorePage
  <1>5. Prefix(after, all)
    BY <1>1, PageRowsGrow DEF FileRows, File
  <1>6. n <= ItemIdCount(page)
    OBVIOUS
  <1> HIDE DEF page, before, after, all
  <1>7. ItemIdCount(page) \in Nat /\ n \in 0 .. ItemIdCount(page)
    BY <1>2, <1>6, PagesAreBuffers, CountIsNat
  <1>8. some \in Seq(Row) /\ new \in Seq(Row) /\ Prefix(some, new)
    BY <1>2, <1>7, PagesAreBuffers, ItemRowsTyped, ItemRowsGrow
  <1> HIDE DEF some, new
  <1>9. before \o some \in Seq(Row) /\ Prefix(before \o some, before \o new)
    BY <1>3, <1>8, PrefixOfConcat
  <1>10. Prefix(before \o some, all)
    <2> DEFINE dumped == before \o some
    <2>1. dumped \in Seq(Row) /\ Prefix(dumped, after) /\ all \in Seq(Row)
      BY <1>1, <1>4, <1>9 DEF all
    <2> HIDE DEF dumped
    <2>2. Prefix(dumped, all)
      BY <1>3, <1>5, <2>1, PrefixTransitive
    <2>3. QED  BY <2>2 DEF dumped
  <1>11. QED  BY <1>9, <1>10 DEF page, before, some, all

LEMMA DumpedTypes ==
  ASSUME DumpTypeOK
  PROVE  /\ File \in Seq(TablePage) /\ Len(File) \in Nat
         /\ Pages \in Nat /\ Pages <= Len(File)
         /\ which_page \in Nat /\ which_page <= Pages /\ i \in Nat
         /\ buffer \in BufferPage /\ ItemIdCount(buffer) \in Nat
         /\ written \in Seq(Row)
  <1>1. File \in Seq(TablePage)
    BY DEF DumpTypeOK, File, Call
  <1>2. Pages \in Nat /\ Pages <= Len(File)
    BY PagesInFile DEF DumpTypeOK, File
  <1>3. buffer \in BufferPage
    BY DEF DumpTypeOK, BufferPage
  <1>4. ItemIdCount(buffer) \in Nat
    BY <1>3, CountIsNat
  <1>5. QED  BY <1>1, <1>2, <1>3, <1>4 DEF DumpTypeOK

LEMMA StepOrder ==
  DumpTypeOK /\ OnFilePage /\ OrderInv /\ DumpTypeOK' /\ [Next]_vars => OrderInv'
  <1> SUFFICES ASSUME DumpTypeOK, OnFilePage, OrderInv, DumpTypeOK', [Next]_vars, good'
               PROVE  OrderInv'
    BY DEF OrderInv
  <1>0. /\ File \in Seq(TablePage) /\ Len(File) \in Nat
        /\ Pages \in Nat /\ Pages <= Len(File)
        /\ which_page \in Nat /\ which_page <= Pages /\ i \in Nat
        /\ buffer \in BufferPage /\ ItemIdCount(buffer) \in Nat
        /\ written \in Seq(Row) /\ call \in Call
    BY DumpedTypes DEF DumpTypeOK
  <1>1. CASE AbortStep
    <2>1. UNCHANGED <<good, written, call>> /\ pc' \in {"aborted", "undefined"}
      BY <1>1, HowStepsAbort DEF Abort
    <2>2. FileRows' = FileRows
      BY <2>1 DEF FileRows, PageRows
    <2>3. QED  BY <2>1, <2>2 DEF OrderInv, Prefix
  <1>2. CASE Refused
    <2>1. UNCHANGED <<good, written, call>> /\ pc' = "failed"
      BY <1>2 DEF Refused
    <2>2. FileRows' = FileRows
      BY <2>1 DEF FileRows, PageRows
    <2>3. QED  BY <2>1, <2>2 DEF OrderInv, Prefix
  <1>3. CASE user_code_setup
    <2>1. /\ UNCHANGED <<good, written, call, which_page>>
          /\ pc = "start" /\ pc' = "read"
      BY <1>3 DEF user_code_setup, Accepted
    <2>2. FileRows' = FileRows /\ File' = File
      BY <2>1 DEF FileRows, PageRows, File
    <2>3. written = PageRows(File, which_page)
      BY <2>1, NoPageRows DEF OrderInv
    <2>4. PageRows(File, which_page)' = PageRows(File, which_page)
      BY <2>1 DEF File, PageRows
    <2>5. QED  BY <2>1, <2>2, <2>3, <2>4 DEF OrderInv, Prefix
  <1>4. CASE read_page
    <2>1. /\ UNCHANGED <<good, written, call, which_page>>
          /\ buffer' = File[which_page + 1] /\ i' = 0 /\ pc = "read" /\ pc' = "items"
      BY <1>4 DEF read_page, AtPage, File
    <2>2. FileRows' = FileRows /\ File' = File
      BY <2>1 DEF FileRows, PageRows, File
    <2>3. written = PageRows(File, which_page)
      BY <2>1 DEF OrderInv
    <2>4. DumpedSoFar' = PageRows(File, which_page) \o ItemRows(buffer', 0)
      BY <2>1 DEF DumpedSoFar, File, PageRows, ItemRows
    <2>5. ItemRows(buffer', 0) = << >>
      BY NoItemRows
    <2>6. DumpedSoFar' = written
      BY <1>0, <2>3, <2>4, <2>5
    <2>7. ItemIdCount(buffer)' \in Nat
      <3>1. which_page + 1 \in 1 .. Len(File)
        BY <1>0, <1>4 DEF read_page, AtPage
      <3>2. buffer' \in TablePage
        BY <1>0, <2>1, <3>1, ElementOfSeq
      <3>3. ItemIdCount(buffer') \in Nat
        BY <3>2, PagesAreBuffers, CountIsNat
      <3>4. QED  BY <3>3 DEF ItemIdCount, LinePointerBytes
    <2>8. QED  BY <2>1, <2>2, <2>6, <2>7 DEF OrderInv, Prefix
  <1>5. CASE ReadFails \/ ReadRefused
    BY <1>5 DEF ReadFails, ReadRefused
  <1>6. CASE SkipItem \/ SkipRow \/ PrintRow
    <2>1. /\ UNCHANGED <<good, call, which_page, buffer>>
          /\ i' = i + 1 /\ i < ItemIdCount(buffer) /\ pc = "items" /\ pc' = "items"
      BY <1>6 DEF SkipItem, SkipRow, PrintRow, AtTuple, AtItem
    <2>2. FileRows' = FileRows /\ File' = File
      BY <2>1 DEF FileRows, PageRows, File
    <2>3. /\ buffer = File[which_page + 1] /\ written = DumpedSoFar
          /\ which_page < Len(File)
      BY <1>0, <2>1 DEF OrderInv, OnFilePage
    <2>4. written' = NextItemRow(written, buffer, i)
      <3>1. CASE SkipItem \/ SkipRow
        BY <3>1 DEF SkipItem, SkipRow, NextItemRow, Dumpable, Item
      <3>2. CASE PrintRow
        BY <3>2 DEF PrintRow, AtTuple, NextItemRow, Dumpable, Item
      <3>3. QED  BY <1>6, <3>1, <3>2
    <2> DEFINE before == PageRows(File, which_page)
               some == ItemRows(buffer, i)
    <2>5. before \in Seq(Row) /\ some \in Seq(Row)
      <3>1. which_page \in 0 .. Len(File)
        BY <1>0
      <3>2. QED  BY <1>0, <3>1, PageRowsTyped, ItemRowsTyped
    <2>6. ItemRows(buffer, i + 1) = NextItemRow(some, buffer, i)
      BY <1>0, OneMoreItem
    <2>7. written = before \o some
      BY <2>3 DEF DumpedSoFar
    <2>8. written' = before \o ItemRows(buffer, i + 1)
      <3> DEFINE row == RowText(LinePointer(buffer, i))
      <3>1. CASE Dumpable(LinePointer(buffer, i))
        <4>1. row \in Row
          BY <1>0, <3>1, DumpableRow
        <4>2. written' = Append(before \o some, row) /\ ItemRows(buffer, i + 1) = Append(some, row)
          BY <2>4, <2>6, <2>7, <3>1 DEF NextItemRow
        <4> HIDE DEF row, before, some
        <4>3. Append(before \o some, row) = before \o Append(some, row)
          BY <2>5, <4>1
        <4>4. QED  BY <4>2, <4>3 DEF before
      <3>2. CASE ~ Dumpable(LinePointer(buffer, i))
        BY <2>4, <2>6, <2>7, <3>2 DEF NextItemRow
      <3>3. QED  BY <3>1, <3>2
    <2>9. DumpedSoFar' = before \o ItemRows(buffer, i + 1)
      BY <2>1 DEF DumpedSoFar, File, PageRows, ItemRows
    <2>10. i + 1 \in Nat /\ i + 1 <= ItemIdCount(buffer)
      BY <1>0, <2>1
    <2>11. Prefix(written', FileRows)
      <3>1. i + 1 <= ItemIdCount(File[which_page + 1])
        BY <2>3, <2>10
      <3>2. Prefix(PageRows(File, which_page) \o ItemRows(File[which_page + 1], i + 1), FileRows)
        BY <1>0, <2>3, <2>10, <3>1, DumpedIsPrefix
      <3>3. QED  BY <2>3, <2>8, <3>2
    <2>12. ItemIdCount(buffer)' = ItemIdCount(buffer)
      BY <2>1 DEF ItemIdCount, LinePointerBytes
    <2> HIDE DEF before, some
    <2>13. Prefix(written, FileRows)'
      BY <2>2, <2>11 DEF Prefix
    <2>14. (buffer = File[which_page + 1])' /\ (i <= ItemIdCount(buffer))' /\ (written = DumpedSoFar)'
      BY <2>1, <2>2, <2>3, <2>8, <2>9, <2>10, <2>12
    <2>15. QED  BY <2>1, <2>13, <2>14 DEF OrderInv
  <1>7. CASE NextPage
    <2>1. /\ UNCHANGED <<good, call, buffer, written>>
          /\ which_page' = which_page + 1 /\ i >= ItemIdCount(buffer)
          /\ pc = "items" /\ pc' = "read"
      BY <1>7 DEF NextPage
    <2>2. FileRows' = FileRows /\ File' = File
      BY <2>1 DEF FileRows, PageRows, File
    <2>3. /\ buffer = File[which_page + 1] /\ written = DumpedSoFar
          /\ i = ItemIdCount(buffer)
      BY <1>0, <2>1 DEF OrderInv
    <2>4. written = PageRows(File, which_page + 1)
      BY <1>0, <2>3, OneMorePage DEF DumpedSoFar
    <2>5. PageRows(File, which_page)' = PageRows(File, which_page + 1)
      BY <2>1, <2>2 DEF PageRows, File
    <2>6. Prefix(written, FileRows)'
      BY <2>1, <2>2 DEF OrderInv, Prefix
    <2>7. QED  BY <2>1, <2>4, <2>5, <2>6 DEF OrderInv
  <1>8. CASE user_code_finish
    <2>1. /\ UNCHANGED <<good, call, written>> /\ which_page >= Pages
          /\ pc = "read" /\ pc' = "returned"
      BY <1>8 DEF user_code_finish
    <2>2. FileRows' = FileRows /\ File' = File /\ Pages' = Pages
      BY <2>1 DEF FileRows, PageRows, File, Pages, FileBytes
    <2>3. which_page = Pages
      BY <1>0, <2>1
    <2>4. written = PageRows(File, Pages)
      BY <2>1, <2>3 DEF OrderInv
    <2>5. PageRows(File, Pages)' = PageRows(File, Pages)
      BY <2>2 DEF PageRows
    <2>6. Prefix(written, FileRows)'
      BY <2>1, <2>2 DEF OrderInv, Prefix
    <2>7. QED  BY <2>1, <2>4, <2>5, <2>6 DEF OrderInv
  <1>9. CASE Terminated \/ UNCHANGED vars
    <2>1. UNCHANGED <<good, call, which_page, i, buffer, written, pc>>
      BY <1>9 DEF Terminated, vars
    <2>2. FileRows' = FileRows /\ File' = File /\ Pages' = Pages
      BY <2>1 DEF FileRows, PageRows, File, Pages, FileBytes
    <2>3. /\ PageRows(File, Pages)' = PageRows(File, Pages)
          /\ PageRows(File, which_page)' = PageRows(File, which_page)
      BY <2>1, <2>2 DEF PageRows, File
    <2>4. DumpedSoFar' = DumpedSoFar
      BY <2>1 DEF DumpedSoFar, File, PageRows, ItemRows
    <2>5. ItemIdCount(buffer)' = ItemIdCount(buffer)
      BY <2>1 DEF ItemIdCount, LinePointerBytes
    <2>6. Prefix(written, FileRows)' <=> Prefix(written, FileRows)
      BY <2>1, <2>2 DEF Prefix
    <2>7. QED  BY <2>1, <2>2, <2>3, <2>4, <2>5, <2>6 DEF OrderInv
  <1>10. QED
    BY <1>1, <1>2, <1>3, <1>4, <1>5, <1>6, <1>7, <1>8, <1>9
    DEF Next, Step, Terminated, AbortStep

LEMMA InitOrder == Init => OrderInv
  <1> SUFFICES ASSUME Init
               PROVE  OrderInv
    OBVIOUS
  <1>1. FileRows \in Seq(Row)
    BY FileRowsTyped, CallsAssumption DEF Init
  <1>2. written = << >> /\ which_page = 0 /\ pc = "start"
    BY DEF Init
  <1>3. Prefix(written, FileRows)
    BY <1>1, <1>2 DEF Prefix
  <1>4. QED  BY <1>2, <1>3 DEF OrderInv

(* A file whose size a word holds has all its pages counted.               *)
LEMMA ShortFileIsWhole ==
  ASSUME call \in Call, FileBytes < WordMod
  PROVE  Pages = Len(File)
  <1> DEFINE n == Len(File)
  <1>1. /\ n \in Nat /\ call.tail \in 0 .. PageSize - 1
        /\ PageSize \in Nat \ {0} /\ WordMod \in Nat \ {0}
    BY PageAssumption DEF File, Call
  <1>2. PageSize * n \in Nat /\ FileBytes = PageSize * n + call.tail
    BY <1>1 DEF FileBytes, File
  <1>3. Word(FileBytes) = PageSize * n + call.tail
    <2>1. \A b \in Nat : b < WordMod => b % WordMod = b
      BY <1>1
    <2>2. FileBytes \in Nat
      BY <1>1, <1>2
    <2>3. QED  BY <1>2, <2>1, <2>2 DEF Word
  <1> HIDE DEF n
  <1>4. \A t \in 0 .. PageSize - 1 : (PageSize * n + t) \div PageSize = n
    BY <1>1
  <1>5. QED  BY <1>1, <1>3, <1>4 DEF Pages, n

(* As long as no read has failed the script holds the rows of the file     *)
(* from its first page on, in their order and without a gap, whatever the  *)
(* line pointers are; and a dump that returns holds all of them.           *)
THEOREM DumpFollowsTheFile == Spec => []RowsInFileOrder
  <1>1. DumpTypeOK /\ OrderInv => RowsInFileOrder
    <2> SUFFICES ASSUME DumpTypeOK, OrderInv, good
                 PROVE  /\ written = SubSeq(FileRows, 1, Len(written))
                        /\ pc = "returned" /\ FileBytes < WordMod => written = FileRows
      BY DEF RowsInFileOrder
    <2>1. written \in Seq(Row) /\ FileRows \in Seq(Row) /\ call \in Call
      BY FileRowsTyped DEF DumpTypeOK
    <2>2. written = SubSeq(FileRows, 1, Len(written))
      BY <2>1, PrefixIsSubSeq DEF OrderInv
    <2>3. ASSUME pc = "returned", FileBytes < WordMod
          PROVE  written = FileRows
      <3>1. Pages = Len(File)
        BY <2>1, <2>3, ShortFileIsWhole
      <3>2. QED  BY <2>3, <3>1 DEF OrderInv, FileRows, File
    <2>4. QED  BY <2>2, <2>3
  <1>2. QED  BY <1>1, SpecTyped, InitOrder, StepOrder, PTL DEF Spec

-----------------------------------------------------------------------------
(* The rows of the INSERT statements.                                      *)

RowPositions(script, k, m) == {j \in k .. m : script[j].kind = "row"}

(* Statements that were ended are full, and none has more rows than that:  *)
(* of a prefix of the script both are still true.                          *)
Shaped(script) ==
  \A k \in Inserts(script) :
    /\ \A m \in Inserts(script) :
         m > k /\ (\A j \in Inserts(script) : j <= k \/ j >= m) =>
           RowsBetween(script, k, m) = Batch
    /\ \A m \in k .. Len(script) :
         (\A j \in Inserts(script) : j <= k \/ j > m) => RowsBetween(script, k, m) \in 0 .. Batch

(* The last statement of the script has n rows.                            *)
LastHas(script, n) ==
  \A k \in Inserts(script) :
    (\A j \in Inserts(script) : j <= k) => RowsBetween(script, k, Len(script)) = n

LEMMA RowPositionsFinite ==
  ASSUME NEW script, NEW k \in Nat, NEW m \in Nat
  PROVE  /\ IsFiniteSet(RowPositions(script, k, m))
         /\ RowsBetween(script, k, m) = Cardinality(RowPositions(script, k, m))
         /\ RowsBetween(script, k, m) \in Nat
  <1>1. IsFiniteSet(k .. m)
    BY FS_Interval
  <1>2. RowPositions(script, k, m) \subseteq k .. m
    BY DEF RowPositions
  <1>3. IsFiniteSet(RowPositions(script, k, m))
    BY <1>1, <1>2, FS_Subset
  <1>4. RowsBetween(script, k, m) = Cardinality(RowPositions(script, k, m))
    BY DEF RowsBetween, RowPositions
  <1>5. QED  BY <1>3, <1>4, FS_CardinalityType

(* Scripts that agree up to position m have the same rows there.           *)
LEMMA SameRowsBetween ==
  ASSUME NEW s, NEW t, NEW k \in Nat, k >= 1, NEW m \in Nat,
         \A j \in 1 .. m : s[j] = t[j]
  PROVE  RowsBetween(s, k, m) = RowsBetween(t, k, m)
  <1>1. RowPositions(s, k, m) = RowPositions(t, k, m)
    BY DEF RowPositions
  <1>2. QED  BY <1>1, RowPositionsFinite

LEMMA AppendToken ==
  ASSUME NEW script \in Seq(ScriptToken), NEW token \in ScriptToken
  PROVE  LET longer == Append(script, token)
             n == Len(script)
         IN  /\ longer \in Seq(ScriptToken) /\ Len(longer) = n + 1 /\ n \in Nat
             /\ \A j \in 1 .. n : longer[j] = script[j]
             /\ longer[n + 1] = token
             /\ Inserts(longer)
                  = IF token = INSERT THEN Inserts(script) \union {n + 1} ELSE Inserts(script)
             /\ Inserts(script) \subseteq 1 .. n
  <1> DEFINE longer == Append(script, token)
             n == Len(script)
  <1>1. /\ longer \in Seq(ScriptToken) /\ Len(longer) = n + 1 /\ n \in Nat
        /\ \A j \in 1 .. n : longer[j] = script[j]
        /\ longer[n + 1] = token
        /\ DOMAIN longer = 1 .. n + 1 /\ DOMAIN script = 1 .. n
    OBVIOUS
  <1> HIDE DEF longer, n
  <1>2. 1 .. n + 1 = (1 .. n) \union {n + 1} /\ n + 1 \notin 1 .. n
    BY <1>1
  <1>3. Inserts(longer)
          = IF token = INSERT THEN Inserts(script) \union {n + 1} ELSE Inserts(script)
    BY <1>1, <1>2 DEF Inserts
  <1>4. Inserts(script) \subseteq 1 .. n
    BY <1>1 DEF Inserts
  <1>5. QED  BY <1>1, <1>3, <1>4 DEF longer, n

(* A token more is a row more, or none.                                    *)
LEMMA RowsOfLonger ==
  ASSUME NEW script \in Seq(ScriptToken), NEW token \in ScriptToken,
         NEW k \in 1 .. Len(script) + 1
  PROVE  LET longer == Append(script, token)
             n == Len(script)
         IN  /\ \A m \in 0 .. n : RowsBetween(longer, k, m) = RowsBetween(script, k, m)
             /\ RowsBetween(longer, k, n + 1)
                  = RowsBetween(script, k, n) + (IF token.kind = "row" THEN 1 ELSE 0)
  <1> DEFINE longer == Append(script, token)
             n == Len(script)
             old == RowPositions(script, k, n)
             new == RowPositions(longer, k, n + 1)
  <1>1. /\ n \in Nat /\ k \in Nat /\ k >= 1 /\ k <= n + 1
        /\ \A j \in 1 .. n : longer[j] = script[j]
        /\ longer[n + 1] = token
    OBVIOUS
  <1> HIDE DEF longer, n
  <1>2. \A m \in 0 .. n : RowsBetween(longer, k, m) = RowsBetween(script, k, m)
    <2> SUFFICES ASSUME NEW m \in 0 .. n
                 PROVE  RowsBetween(longer, k, m) = RowsBetween(script, k, m)
      OBVIOUS
    <2>1. m \in Nat /\ \A j \in 1 .. m : longer[j] = script[j]
      BY <1>1
    <2>2. QED  BY <1>1, <2>1, SameRowsBetween
  <1>3. /\ IsFiniteSet(old) /\ RowsBetween(script, k, n) = Cardinality(old)
        /\ RowsBetween(longer, k, n + 1) = Cardinality(new)
        /\ Cardinality(old) \in Nat
    BY <1>1, RowPositionsFinite
  <1>4. n + 1 \notin old
    BY <1>1 DEF RowPositions
  <1>5. new = IF token.kind = "row" THEN old \union {n + 1} ELSE old
    <2>1. k .. n + 1 = (k .. n) \union {n + 1}
      BY <1>1
    <2>2. \A j \in k .. n : longer[j] = script[j]
      BY <1>1
    <2>3. QED  BY <1>1, <2>1, <2>2 DEF RowPositions
  <1> HIDE DEF old, new
  <1>6. Cardinality(new) = Cardinality(old) + (IF token.kind = "row" THEN 1 ELSE 0)
    <2>1. Cardinality(old \union {n + 1}) = Cardinality(old) + 1
      BY <1>3, <1>4, FS_AddElement
    <2>2. QED  BY <1>3, <1>5, <2>1
  <1>7. QED  BY <1>2, <1>3, <1>6 DEF longer, n

(* A token that begins no statement counts for the last one if it is a row. *)
LEMMA TokenCounts ==
  ASSUME NEW script \in Seq(ScriptToken), NEW token \in ScriptToken, token # INSERT,
         NEW m \in Nat, Shaped(script), LastHas(script, m),
         NEW d \in 0 .. 1, d = 1 <=> token.kind = "row", m + d <= Batch
  PROVE  /\ Shaped(Append(script, token)) /\ LastHas(Append(script, token), m + d)
         /\ Inserts(Append(script, token)) = Inserts(script)
  <1> DEFINE longer == Append(script, token)
             n == Len(script)
             ins == Inserts(script)
  <1>1. /\ longer \in Seq(ScriptToken) /\ Len(longer) = n + 1 /\ n \in Nat
        /\ Inserts(longer) = ins /\ ins \subseteq 1 .. n
    BY AppendToken
  <1>2. \A k \in ins : /\ \A l \in 0 .. n : RowsBetween(longer, k, l) = RowsBetween(script, k, l)
                       /\ RowsBetween(longer, k, n + 1) = RowsBetween(script, k, n) + d
    <2> SUFFICES ASSUME NEW k \in ins
                 PROVE  /\ \A l \in 0 .. n : RowsBetween(longer, k, l) = RowsBetween(script, k, l)
                        /\ RowsBetween(longer, k, n + 1) = RowsBetween(script, k, n) + d
      OBVIOUS
    <2>1. k \in 1 .. n + 1
      BY <1>1
    <2>2. d = IF token.kind = "row" THEN 1 ELSE 0
      OBVIOUS
    <2> HIDE DEF ins
    <2>3. QED  BY <2>1, <2>2, RowsOfLonger
  <1>3. Batch \in Nat
    BY BatchAssumption
  <1> HIDE DEF longer, n
  <1>4. LastHas(longer, m + d)
    <2> SUFFICES ASSUME NEW k \in ins, \A j \in ins : j <= k
                 PROVE  RowsBetween(longer, k, n + 1) = m + d
      BY <1>1 DEF LastHas
    <2>1. RowsBetween(script, k, n) = m
      BY DEF LastHas, n
    <2>2. QED  BY <1>2, <2>1
  <1>5. ASSUME NEW k \in ins, NEW l \in ins, l > k, \A j \in ins : j <= k \/ j >= l
        PROVE  RowsBetween(longer, k, l) = Batch
    <2>1. RowsBetween(script, k, l) = Batch
      BY <1>5 DEF Shaped
    <2>2. l \in 0 .. n
      BY <1>1
    <2>3. QED  BY <1>2, <2>1, <2>2
  <1>6. ASSUME NEW k \in ins, NEW l \in k .. n + 1, \A j \in ins : j <= k \/ j > l
        PROVE  RowsBetween(longer, k, l) \in 0 .. Batch
    <2>1. k \in 1 .. n
      BY <1>1
    <2>2. CASE l <= n
      <3>1. l \in k .. n /\ l \in 0 .. n
        BY <1>1, <2>1, <2>2
      <3>2. RowsBetween(script, k, l) \in 0 .. Batch
        BY <1>6, <3>1 DEF Shaped, n
      <3>3. QED  BY <1>2, <3>1, <3>2
    <2>3. CASE l = n + 1
      <3>1. \A j \in ins : j <= k
        BY <1>1, <1>6, <2>3
      <3>2. RowsBetween(longer, k, n + 1) = m + d
        BY <1>1, <1>4, <3>1 DEF LastHas
      <3>3. m + d \in 0 .. Batch
        BY <1>3
      <3>4. QED  BY <2>3, <3>2, <3>3
    <2>4. QED  BY <1>1, <2>1, <2>2, <2>3
  <1> HIDE DEF ins
  <1>7. Shaped(longer)
    BY <1>1, <1>5, <1>6 DEF Shaped
  <1>8. QED  BY <1>1, <1>4, <1>7 DEF longer, ins

(* A statement begins when there is none or the last one is full.          *)
LEMMA InsertCounts ==
  ASSUME NEW script \in Seq(ScriptToken), Shaped(script), LastHas(script, Batch)
  PROVE  /\ Shaped(Append(script, INSERT)) /\ LastHas(Append(script, INSERT), 0)
         /\ Inserts(Append(script, INSERT)) # {}
  <1> DEFINE longer == Append(script, INSERT)
             n == Len(script)
             ins == Inserts(script)
  <1>1. /\ longer \in Seq(ScriptToken) /\ Len(longer) = n + 1 /\ n \in Nat
        /\ Inserts(longer) = ins \union {n + 1} /\ ins \subseteq 1 .. n
    BY AppendToken, TokensTyped
  <1>2. \A k \in 1 .. n + 1 :
          /\ \A l \in 0 .. n : RowsBetween(longer, k, l) = RowsBetween(script, k, l)
          /\ RowsBetween(longer, k, n + 1) = RowsBetween(script, k, n)
    <2> SUFFICES ASSUME NEW k \in 1 .. n + 1
                 PROVE  /\ \A l \in 0 .. n : RowsBetween(longer, k, l) = RowsBetween(script, k, l)
                        /\ RowsBetween(longer, k, n + 1) = RowsBetween(script, k, n)
      OBVIOUS
    <2>1. INSERT \in ScriptToken /\ INSERT.kind # "row"
      BY TokensTyped DEF INSERT, Token
    <2>2. /\ \A l \in 0 .. n : RowsBetween(longer, k, l) = RowsBetween(script, k, l)
          /\ RowsBetween(longer, k, n + 1) = RowsBetween(script, k, n) + 0
      BY <2>1, RowsOfLonger
    <2>3. RowsBetween(script, k, n) \in Nat
      BY <1>1, RowPositionsFinite
    <2>4. QED  BY <2>2, <2>3
  <1>3. Batch \in Nat
    BY BatchAssumption
  <1>4. RowsBetween(script, n + 1, n) = 0
    <2>1. RowPositions(script, n + 1, n) = {}
      BY <1>1 DEF RowPositions
    <2>2. QED  BY <1>1, <2>1, RowPositionsFinite, FS_EmptySet
  <1> HIDE DEF longer, n
  <1>5. \A j \in ins : j <= n
    BY <1>1
  <1>6. LastHas(longer, 0)
    <2> SUFFICES ASSUME NEW k \in ins \union {n + 1}, \A j \in ins \union {n + 1} : j <= k
                 PROVE  RowsBetween(longer, k, n + 1) = 0
      BY <1>1 DEF LastHas
    <2>1. k = n + 1
      <3>1. n + 1 <= k /\ k \in 1 .. n + 1
        BY <1>1
      <3>2. QED  BY <1>1, <3>1
    <2>2. QED  BY <1>1, <1>2, <1>4, <2>1
  <1>7. ASSUME NEW k \in ins \union {n + 1}, NEW l \in ins \union {n + 1}, l > k,
               \A j \in ins \union {n + 1} : j <= k \/ j >= l
        PROVE  RowsBetween(longer, k, l) = Batch
    <2>1. k \in ins /\ k \in 1 .. n + 1
      BY <1>1, <1>7
    <2>2. CASE l \in ins
      <3>1. RowsBetween(script, k, l) = Batch
        BY <1>7, <2>1, <2>2 DEF Shaped
      <3>2. l \in 0 .. n
        BY <1>1, <2>2
      <3>3. QED  BY <1>2, <2>1, <3>1, <3>2
    <2>3. CASE l = n + 1
      <3>1. \A j \in ins : j <= k
        BY <1>1, <1>7, <2>3
      <3>2. RowsBetween(script, k, n) = Batch
        BY <2>1, <3>1 DEF LastHas, n
      <3>3. QED  BY <1>2, <2>1, <2>3, <3>2
    <2>4. QED  BY <2>2, <2>3
  <1>8. ASSUME NEW k \in ins \union {n + 1}, NEW l \in k .. n + 1,
               \A j \in ins \union {n + 1} : j <= k \/ j > l
        PROVE  RowsBetween(longer, k, l) \in 0 .. Batch
    <2>1. k \in 1 .. n + 1
      BY <1>1
    <2>2. CASE k = n + 1
      <3>1. l = n + 1
        BY <1>1, <2>2
      <3>2. QED  BY <1>2, <1>3, <1>4, <2>1, <2>2, <3>1
    <2>3. CASE k \in ins
      <3>1. l <= n
        BY <1>1, <1>8, <2>3
      <3>2. l \in k .. n /\ l \in 0 .. n
        BY <1>1, <2>1, <3>1
      <3>3. RowsBetween(script, k, l) \in 0 .. Batch
        BY <1>8, <2>3, <3>2 DEF Shaped, n
      <3>4. QED  BY <1>2, <2>1, <3>2, <3>3
    <2>4. QED  BY <2>2, <2>3
  <1> HIDE DEF ins
  <1>9. Shaped(longer)
    BY <1>1, <1>7, <1>8 DEF Shaped
  <1>10. Inserts(longer) # {}
    BY <1>1
  <1>11. QED  BY <1>6, <1>9, <1>10 DEF longer

(* What is left of a shaped script when its end is lost.                   *)
LEMMA ShapedPrefix ==
  ASSUME NEW script \in Seq(ScriptToken), Shaped(script), NEW n \in 0 .. Len(script)
  PROVE  Shaped(SubSeq(script, 1, n))
  <1> DEFINE short == SubSeq(script, 1, n)
  <1>1. /\ short \in Seq(ScriptToken) /\ Len(short) = n /\ n \in Nat
        /\ \A j \in 1 .. n : short[j] = script[j]
        /\ DOMAIN short = 1 .. n /\ DOMAIN script = 1 .. Len(script)
        /\ Len(script) \in Nat /\ n <= Len(script)
    OBVIOUS
  <1> HIDE DEF short
  <1>2. /\ Inserts(short) \subseteq 1 .. n
        /\ Inserts(short) \subseteq Inserts(script)
        /\ \A j \in Inserts(script) : j \in Nat /\ (j \in Inserts(short) \/ j > n)
    BY <1>1 DEF Inserts
  <1>3. \A k \in Inserts(short), l \in 0 .. n : RowsBetween(short, k, l) = RowsBetween(script, k, l)
    <2> SUFFICES ASSUME NEW k \in Inserts(short), NEW l \in 0 .. n
                 PROVE  RowsBetween(short, k, l) = RowsBetween(script, k, l)
      OBVIOUS
    <2>1. k \in Nat /\ k >= 1 /\ l \in Nat /\ \A j \in 1 .. l : short[j] = script[j]
      BY <1>1, <1>2
    <2>2. QED  BY <2>1, SameRowsBetween
  <1>4. ASSUME NEW k \in Inserts(short), NEW l \in Inserts(short), l > k,
               \A j \in Inserts(short) : j <= k \/ j >= l
        PROVE  RowsBetween(short, k, l) = Batch
    <2>1. \A j \in Inserts(script) : j <= k \/ j >= l
      <3>1. l \in 1 .. n
        BY <1>2
      <3>2. \A j \in Nat : j > n => j >= l
        BY <1>1, <3>1
      <3>3. QED  BY <1>2, <1>4, <3>2
    <2>2. k \in Inserts(script) /\ l \in Inserts(script) /\ l \in 0 .. n
      BY <1>1, <1>2
    <2>3. RowsBetween(script, k, l) = Batch
      BY <1>4, <2>1, <2>2 DEF Shaped
    <2>4. QED  BY <1>3, <2>2, <2>3
  <1>5. ASSUME NEW k \in Inserts(short), NEW l \in k .. n,
               \A j \in Inserts(short) : j <= k \/ j > l
        PROVE  RowsBetween(short, k, l) \in 0 .. Batch
    <2>1. k \in 1 .. n /\ k \in Inserts(script)
      BY <1>2
    <2>2. l \in 0 .. n /\ l \in k .. Len(script) /\ l <= n
      BY <1>1, <2>1
    <2>3. \A j \in Inserts(script) : j <= k \/ j > l
      <3>1. \A j \in Nat : j > n => j > l
        BY <1>1, <2>2
      <3>2. QED  BY <1>2, <1>5, <3>1
    <2>4. RowsBetween(script, k, l) \in 0 .. Batch
      BY <2>1, <2>2, <2>3 DEF Shaped
    <2>5. QED  BY <1>3, <2>2, <2>4
  <1>6. Shaped(short)
    BY <1>1, <1>4, <1>5 DEF Shaped
  <1>7. QED  BY <1>6 DEF short

(* The rows printed fill whole statements and m places of the last one.    *)
FillsBatches(script, count) ==
  \E b, m \in Nat :
    /\ m <= Batch /\ b % Batch = 0 /\ count = b + m /\ (m = 0 => b = 0)
    /\ m = 0 <=> Inserts(script) = {}
    /\ LastHas(script, m)

FullInv ==
  /\ Shaped(out)
  /\ pc \in {"read", "items"} => FillsBatches(out, insertion_count)

(* A row and its separator.                                                *)
LEMMA RowFills ==
  ASSUME NEW script \in Seq(ScriptToken), NEW count \in Nat, NEW row \in Row,
         Shaped(script), FillsBatches(script, count)
  PROVE  LET longer == script \o Separator(count) \o <<RowToken(row)>>
         IN  Shaped(longer) /\ FillsBatches(longer, count + 1)
  <1> DEFINE longer == script \o Separator(count) \o <<RowToken(row)>>
             token == RowToken(row)
  <1>1. PICK b \in Nat, m \in Nat :
          /\ m <= Batch /\ b % Batch = 0 /\ count = b + m /\ (m = 0 => b = 0)
          /\ m = 0 <=> Inserts(script) = {}
          /\ LastHas(script, m)
    BY DEF FillsBatches
  <1>2. Batch \in Nat \ {0}
    BY BatchAssumption
  <1>3. /\ INSERT \in ScriptToken /\ COMMA \in ScriptToken /\ SEMICOLON \in ScriptToken
        /\ token \in ScriptToken
    BY TokensTyped
  <1>4. /\ COMMA # INSERT /\ COMMA.kind # "row" /\ SEMICOLON # INSERT /\ SEMICOLON.kind # "row"
        /\ token # INSERT /\ token.kind = "row"
    BY DEF COMMA, SEMICOLON, INSERT, Token, RowToken
  <1> HIDE DEF token
  <1>5. ASSUME NEW k \in ScriptToken
        PROVE  /\ script \o <<k>> = Append(script, k)
               /\ Append(script, k) \in Seq(ScriptToken)
    OBVIOUS
  <1>6. CASE m = 0
    <2> DEFINE one == Append(script, INSERT)
    <2>1. longer = Append(one, token)
      <3>1. 0 % Batch = 0 /\ count = 0
        BY <1>1, <1>2, <1>6
      <3>2. Separator(count) = <<INSERT>>
        BY <3>1 DEF Separator
      <3>3. QED  BY <1>3, <1>5, <3>2 DEF token
    <2>2. LastHas(script, Batch)
      BY <1>1, <1>6 DEF LastHas
    <2>3. one \in Seq(ScriptToken)
      BY <1>3
    <2>4. Shaped(one) /\ LastHas(one, 0) /\ Inserts(one) # {}
      BY <2>2, InsertCounts
    <2> HIDE DEF one
    <2>5. /\ Shaped(Append(one, token)) /\ LastHas(Append(one, token), 0 + 1)
          /\ Inserts(Append(one, token)) # {}
      BY <1>2, <1>3, <1>4, <2>3, <2>4, TokenCounts
    <2>6. 1 <= Batch /\ 0 % Batch = 0 /\ count + 1 = 0 + 1 /\ 0 + 1 = 1
      BY <1>1, <1>2, <1>6
    <2> HIDE DEF longer
    <2>7. FillsBatches(longer, count + 1)
      BY <2>1, <2>5, <2>6 DEF FillsBatches
    <2>8. QED  BY <2>1, <2>5, <2>7 DEF longer
  <1>7. CASE m > 0 /\ m < Batch
    <2> DEFINE one == Append(script, COMMA)
    <2>1. longer = Append(one, token)
      <3>1. count % Batch = m
        <4>1. m \in 0 .. Batch - 1
          BY <1>2, <1>7
        <4>2. QED  BY <1>1, <1>2, <4>1, RemainderAfter
      <3>2. Separator(count) = <<COMMA>>
        BY <1>7, <3>1 DEF Separator
      <3>3. QED  BY <1>3, <1>5, <3>2 DEF token
    <2>2. one \in Seq(ScriptToken)
      BY <1>3
    <2>3. Shaped(one) /\ LastHas(one, m + 0) /\ Inserts(one) = Inserts(script)
      BY <1>1, <1>2, <1>3, <1>4, TokenCounts
    <2> HIDE DEF one
    <2>4. m + 0 = m
      OBVIOUS
    <2>5. /\ Shaped(Append(one, token)) /\ LastHas(Append(one, token), m + 1)
          /\ Inserts(Append(one, token)) = Inserts(script)
      BY <1>2, <1>3, <1>4, <1>7, <2>2, <2>3, <2>4, TokenCounts
    <2>6. /\ m + 1 \in Nat /\ m + 1 <= Batch /\ count + 1 = b + (m + 1) /\ m + 1 # 0
      BY <1>1, <1>2, <1>7
    <2>7. Inserts(script) # {}
      BY <1>1, <1>7
    <2> HIDE DEF longer
    <2>8. FillsBatches(longer, count + 1)
      BY <1>1, <2>1, <2>5, <2>6, <2>7 DEF FillsBatches
    <2>9. QED  BY <2>1, <2>5, <2>8 DEF longer
  <1>8. CASE m = Batch
    <2> DEFINE one == Append(script, SEMICOLON)
               two == Append(one, INSERT)
    <2>1. count % Batch = 0 /\ count # 0
      <3>1. (b + Batch) % Batch = 0
        BY <1>1, <1>2, MultipleAfter
      <3>2. count = b + Batch /\ Batch # 0 /\ b \in Nat /\ Batch \in Nat
        BY <1>1, <1>2, <1>8
      <3>3. QED  BY <3>1, <3>2
    <2>2. longer = Append(two, token)
      <3>1. Separator(count) = <<SEMICOLON, INSERT>>
        BY <2>1 DEF Separator
      <3>2. QED  BY <1>3, <3>1 DEF token
    <2>3. one \in Seq(ScriptToken) /\ two \in Seq(ScriptToken)
      BY <1>3
    <2>4. Shaped(one) /\ LastHas(one, m + 0)
      BY <1>1, <1>2, <1>3, <1>4, TokenCounts
    <2> HIDE DEF one
    <2>5. LastHas(one, Batch)
      <3>1. m + 0 = Batch
        BY <1>8
      <3>2. QED  BY <2>4, <3>1
    <2>6. Shaped(two) /\ LastHas(two, 0) /\ Inserts(two) # {}
      BY <2>3, <2>4, <2>5, InsertCounts
    <2> HIDE DEF two
    <2>7. /\ Shaped(Append(two, token)) /\ LastHas(Append(two, token), 0 + 1)
          /\ Inserts(Append(two, token)) # {}
      BY <1>2, <1>3, <1>4, <2>3, <2>6, TokenCounts
    <2>8. /\ 1 <= Batch /\ 0 + 1 = 1 /\ count \in Nat /\ 1 # 0
      BY <1>2
    <2> HIDE DEF longer
    <2>9. FillsBatches(longer, count + 1)
      BY <2>1, <2>2, <2>7, <2>8 DEF FillsBatches
    <2>10. QED  BY <2>2, <2>7, <2>9 DEF longer
  <1>9. QED  BY <1>1, <1>2, <1>6, <1>7, <1>8

LEMMA StepFull == DumpTypeOK /\ ScriptInv /\ FullInv /\ [Next]_vars => FullInv'
  <1> SUFFICES ASSUME DumpTypeOK, ScriptInv, FullInv, [Next]_vars
               PROVE  FullInv'
    OBVIOUS
  <1>0. out \in Seq(ScriptToken) /\ insertion_count \in Nat /\ Shaped(out)
    BY DEF DumpTypeOK, FullInv
  <1>1. CASE AbortStep
    <2>1. Abort("aborted") \/ Abort("undefined")
      BY <1>1, HowStepsAbort
    <2>2. PICK n \in 0 .. Len(out) : out' = SubSeq(out, 1, n)
      BY <2>1 DEF Abort
    <2>3. Shaped(out')
      BY <1>0, <2>2, ShapedPrefix
    <2>4. Shaped(out)' <=> Shaped(out')
      BY DEF Shaped, Inserts, RowsBetween
    <2>5. pc' \notin {"read", "items"}
      BY <2>1 DEF Abort
    <2>6. QED  BY <2>3, <2>4, <2>5 DEF FullInv
  <1>2. CASE Refused
    BY <1>2 DEF Refused, FullInv, Shaped, Inserts, RowsBetween
  <1>3. CASE user_code_setup
    <2>1. out' = <<BEGIN>> /\ insertion_count' = 0 /\ pc' = "read"
      <3>1. insertion_count = Len(written) /\ written = << >>
        BY <1>3 DEF DumpTypeOK, ScriptInv, user_code_setup, Accepted
      <3>2. QED  BY <1>3, <3>1 DEF user_code_setup
    <2>2. Inserts(<<BEGIN>>) = {}
      <3>1. BEGIN # INSERT
        BY DEF BEGIN, INSERT, Token
      <3>2. QED  BY <3>1 DEF Inserts
    <2>3. Shaped(<<BEGIN>>) /\ LastHas(<<BEGIN>>, 0)
      BY <2>2 DEF Shaped, LastHas
    <2>4. 0 \in Nat /\ 0 <= Batch /\ 0 % Batch = 0 /\ 0 = 0 + 0
      BY BatchAssumption
    <2>5. FillsBatches(<<BEGIN>>, 0)
      BY <2>2, <2>3, <2>4 DEF FillsBatches
    <2>6. FillsBatches(out, insertion_count)' <=> FillsBatches(out', insertion_count')
      BY DEF FillsBatches, Inserts, LastHas, RowsBetween
    <2>7. Shaped(out)' <=> Shaped(out')
      BY DEF Shaped, Inserts, RowsBetween
    <2>8. QED  BY <2>1, <2>3, <2>5, <2>6, <2>7 DEF FullInv
  <1>4. CASE read_page \/ ReadFails \/ ReadRefused \/ SkipItem \/ SkipRow \/ NextPage
    <2>1. /\ UNCHANGED <<out, insertion_count>>
          /\ pc \in {"read", "items"} /\ pc' \in {"read", "items"}
      <3>1. CASE read_page
        BY <3>1 DEF read_page, AtPage
      <3>2. CASE ReadFails
        BY <3>2 DEF ReadFails, AtPage
      <3>3. CASE ReadRefused
        BY <3>3 DEF ReadRefused, AtPage
      <3>4. CASE SkipItem \/ SkipRow \/ NextPage
        BY <3>4 DEF SkipItem, SkipRow, AtTuple, AtItem, NextPage
      <3>5. QED  BY <1>4, <3>1, <3>2, <3>3, <3>4
    <2>2. Shaped(out)' <=> Shaped(out')
      BY DEF Shaped, Inserts, RowsBetween
    <2>3. FillsBatches(out, insertion_count)' <=> FillsBatches(out', insertion_count')
      BY DEF FillsBatches, Inserts, LastHas, RowsBetween
    <2>4. Shaped(out') /\ FillsBatches(out', insertion_count')
      BY <2>1 DEF FullInv
    <2>5. QED  BY <2>1, <2>2, <2>3, <2>4 DEF FullInv
  <1>5. CASE PrintRow
    <2> DEFINE row == RowText(Item)
               longer == out \o Separator(insertion_count) \o <<RowToken(row)>>
    <2>1. /\ out' = longer /\ insertion_count' = insertion_count + 1
          /\ pc = "items" /\ pc' = "items"
      BY <1>5 DEF PrintRow, AtTuple, AtItem
    <2>2. row \in Row
      <3>1. buffer \in BufferPage /\ i \in Nat
        BY DEF DumpTypeOK, BufferPage
      <3>2. Dumpable(LinePointer(buffer, i))
        BY <1>5 DEF PrintRow, AtTuple, Dumpable, Item
      <3>3. QED  BY <3>1, <3>2, DumpableRow DEF Item
    <2>3. FillsBatches(out, insertion_count)
      BY <2>1 DEF FullInv
    <2> HIDE DEF row
    <2>4. Shaped(longer) /\ FillsBatches(longer, insertion_count + 1)
      BY <1>0, <2>2, <2>3, RowFills
    <2> HIDE DEF longer
    <2>5. FillsBatches(out, insertion_count)' <=> FillsBatches(out', insertion_count')
      BY DEF FillsBatches, Inserts, LastHas, RowsBetween
    <2>6. Shaped(out)' <=> Shaped(out')
      BY DEF Shaped, Inserts, RowsBetween
    <2>7. QED  BY <2>1, <2>4, <2>5, <2>6 DEF FullInv
  <1>6. CASE user_code_finish
    <2> DEFINE one == Append(out, SEMICOLON)
               two == Append(one, COMMIT)
    <2>1. /\ out' = out \o <<SEMICOLON, COMMIT>> /\ pc = "read" /\ pc' = "returned"
      BY <1>6 DEF user_code_finish
    <2>2. /\ SEMICOLON \in ScriptToken /\ SEMICOLON # INSERT /\ SEMICOLON.kind # "row"
          /\ COMMIT \in ScriptToken /\ COMMIT # INSERT /\ COMMIT.kind # "row"
      BY TokensTyped DEF SEMICOLON, COMMIT, INSERT, Token
    <2>3. out \o <<SEMICOLON, COMMIT>> = two /\ one \in Seq(ScriptToken)
      BY <1>0, <2>2
    <2>4. PICK m \in Nat : m <= Batch /\ LastHas(out, m)
      BY <2>1 DEF FullInv, FillsBatches
    <2>5. m + 0 = m /\ m + 0 <= Batch
      BY <2>4, BatchAssumption
    <2>6. Shaped(one) /\ LastHas(one, m)
      BY <1>0, <2>2, <2>4, <2>5, TokenCounts
    <2> HIDE DEF one
    <2>7. Shaped(two)
      BY <2>2, <2>3, <2>5, <2>6, TokenCounts
    <2> HIDE DEF two
    <2>8. Shaped(out)' <=> Shaped(out')
      BY DEF Shaped, Inserts, RowsBetween
    <2>9. QED  BY <2>1, <2>3, <2>7, <2>8 DEF FullInv
  <1>7. CASE Terminated \/ UNCHANGED vars
    <2>1. UNCHANGED <<out, insertion_count, pc>>
      BY <1>7 DEF Terminated, vars
    <2>2. QED
      BY <2>1 DEF FullInv, Shaped, FillsBatches, LastHas, Inserts, RowsBetween
  <1>8. QED
    BY <1>1, <1>2, <1>3, <1>4, <1>5, <1>6, <1>7 DEF Next, Step, AbortStep

(* However many rows are printed and skipped, and wherever the script is   *)
(* cut off: a statement another one follows has exactly Batch rows, and    *)
(* the last one no more.                                                   *)
THEOREM StatementsAreFull == Spec => []BatchesAreFull
  <1>1. Init => FullInv
    <2> SUFFICES ASSUME Init
                 PROVE  FullInv
      OBVIOUS
    <2>1. out = << >> /\ pc = "start"
      BY DEF Init
    <2>2. Inserts(out) = {}
      BY <2>1 DEF Inserts
    <2>3. QED  BY <2>1, <2>2 DEF FullInv, Shaped
  <1>2. DumpTypeOK /\ FullInv => BatchesAreFull
    <2> SUFFICES ASSUME DumpTypeOK, FullInv
                 PROVE  BatchesAreFull
      OBVIOUS
    <2>1. Inserts(out) \subseteq 1 .. Len(out) /\ Len(out) \in Nat /\ Shaped(out)
      BY DEF DumpTypeOK, FullInv, Inserts
    <2>2. ASSUME NEW k \in Inserts(out), \A m \in Inserts(out) : m <= k
          PROVE  RowsBetween(out, k, Len(out)) \in 0 .. Batch
      <3>1. Len(out) \in k .. Len(out)
        BY <2>1
      <3>2. QED  BY <2>1, <2>2, <3>1 DEF Shaped
    <2>3. QED  BY <2>1, <2>2 DEF Shaped, BatchesAreFull
  <1>3. QED  BY <1>1, <1>2, SpecScript, StepFull, PTL DEF Spec

=============================================================================
