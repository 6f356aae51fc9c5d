----------------------------- MODULE TableDump -----------------------------
(***************************************************************************)
(* The table_sample program: main's loop over the pages and line pointers  *)
(* of the table's file, the row user_code prints for each tuple it         *)
(* follows, and the script on standard output.                             *)
(*                                                                         *)
(* A tuple is an item with the fields of its line pointer and those of its *)
(* row: id, key (the two NOT NULL attributes are there), values ("ok",     *)
(* "throws", "aborts" or "undefined", what finding the columns and turning *)
(* them into text does: see TupleLayout), fits (the attributes end where   *)
(* the tuple ends) and point (its last column is not null).  What becomes  *)
(* of a tuple is taken to be the same each time the loop meets it, which   *)
(* is once unless a read of the table has failed.                          *)
(***************************************************************************)
EXTENDS HeapPage, SqlLoad, FiniteSets

CONSTANTS
  Batch,    (* rows per INSERT statement, 500 in the code                  *)
  Mixed,    (* what an item may look like that is half one of the page a   *)
            (* read was to deliver and half one of the page before         *)
  Calls     (* the ways the program is called: args (argc), opens (the     *)
            (* table's file can be opened), tail (bytes after its last     *)
            (* whole page), file (its pages), toast ("ok", "aborted" or   *)
            (* "undefined": what becomes of fill_toast_map)                *)

ASSUME BatchAssumption == Batch \in Nat \ {0}

TupleItem ==
  [flags: Nat, off: Nat, len: Nat, id: Nat, key: BOOLEAN,
   values: {"ok", "throws", "aborts", "undefined"}, fits: BOOLEAN, point: BOOLEAN]
TablePage == [lower: Nat, linp: Seq(TupleItem)]

ASSUME MixedAssumption == Mixed \subseteq TupleItem

Call ==
  [args: Nat, opens: BOOLEAN, tail: 0 .. PageSize - 1,
   file: Seq(TablePage), toast: {"ok", "aborted", "undefined"}]

ASSUME CallsAssumption == Calls \subseteq Call

VARIABLES
  call,             (* how the program was called                          *)
  good,             (* input has not failed                                *)
  which_page, i,    (* the loop counters                                   *)
  buffer,           (* read_page_buffer                                    *)
  insertion_count,  (* rows printed                                        *)
  out,              (* the script, as far as it has reached the output     *)
  written,          (* rows of the script (history)                        *)
  broke,            (* page whose read was the first to fail (history)     *)
  pc

vars == <<call, good, which_page, i, buffer, insertion_count, out, written, broke, pc>>

Ended == {"returned", "failed", "aborted", "undefined"}

FileBytes == PageSize * Len(call.file) + call.tail
Pages == Word(FileBytes) \div PageSize
Item == LinePointer(buffer, i)

Init ==
  /\ call \in Calls
  /\ good = TRUE
  /\ which_page = 0 /\ i = 0
  /\ buffer = ZeroPage
  /\ insertion_count = 0
  /\ out = << >> /\ written = << >>
  /\ broke = 0
  /\ pc = "start"

(* What is still in the buffer of standard output is lost; std::endl has   *)
(* flushed the first line.                                                 *)
Abort(how) ==
  /\ \E n \in {k \in 0 .. Len(out) : k >= 1 \/ out = << >>} : out' = SubSeq(out, 1, n)
  /\ pc' = how
  /\ UNCHANGED <<call, good, which_page, i, buffer, insertion_count, written, broke>>

NotOpened == pc = "start" /\ call.args >= 2 /\ ~ call.opens /\ Abort("aborted")

(* The arguments or the size of the file are refused, or the TOAST file is *)
(* missing from the arguments (user_code_setup throws 1).                  *)
Refused ==
  /\ pc = "start"
  /\ \/ call.args < 2
     \/ call.opens /\ (Word(FileBytes) # Pages * PageSize \/ Pages = 0)
     \/ call.opens /\ call.args = 2
  /\ pc' = "failed"
  /\ UNCHANGED <<call, good, which_page, i, buffer, insertion_count, out, written, broke>>

Accepted ==
  /\ pc = "start" /\ call.args > 2 /\ call.opens
  /\ Word(FileBytes) = Pages * PageSize /\ Pages # 0

ToastMapFails == Accepted /\ call.toast # "ok" /\ Abort(call.toast)

(* Mutant: no transaction is begun.                                        *)
user_code_setupNoBegin ==
  /\ Accepted /\ call.toast = "ok"
  /\ pc' = "read"
  /\ UNCHANGED <<call, good, which_page, i, buffer, insertion_count, out, written, broke>>

user_code_setup ==
  /\ Accepted /\ call.toast = "ok"
  /\ out' = <<BEGIN>>
  /\ pc' = "read"
  /\ UNCHANGED <<call, good, which_page, i, buffer, insertion_count, written, broke>>

-----------------------------------------------------------------------------

AtPage == pc = "read" /\ which_page < Pages

read_page ==
  /\ AtPage /\ good
  /\ buffer' = call.file[which_page + 1]
  /\ i' = 0
  /\ pc' = "items"
  /\ UNCHANGED <<call, good, which_page, insertion_count, out, written, broke>>

(* The first read that fails: it breaks off after some bytes of the page,  *)
(* none of them if the seek failed.  Nobody looks, and the loop goes on    *)
(* with what the buffer holds.                                             *)
ReadFails ==
  /\ AtPage /\ good
  /\ good' = FALSE
  /\ buffer' \in UNION {Torn(call.file[which_page + 1], buffer, n, Mixed) :
                        n \in 0 .. PageSize - 1}
  /\ broke' = which_page
  /\ i' = 0
  /\ pc' = "items"
  /\ UNCHANGED <<call, which_page, insertion_count, out, written>>

(* Mutant: the stream works again.                                         *)
ReadRefusedDelivers ==
  /\ AtPage /\ ~ good
  /\ buffer' = call.file[which_page + 1]
  /\ i' = 0
  /\ pc' = "items"
  /\ UNCHANGED <<call, good, which_page, insertion_count, out, written, broke>>

(* A stream that has failed neither seeks nor reads any more.              *)
ReadRefused ==
  /\ AtPage /\ ~ good
  /\ i' = 0
  /\ pc' = "items"
  /\ UNCHANGED <<call, good, which_page, buffer, insertion_count, out, written, broke>>

BadCount == pc = "items" /\ ~ CountIsIntegral(buffer) /\ Abort("aborted")

AtItem == pc = "items" /\ CountIsIntegral(buffer) /\ i < ItemIdCount(buffer)

OffPage == AtItem /\ ~ OnPage(i) /\ Abort("undefined")

SkipItem ==
  /\ AtItem /\ OnPage(i) /\ ~ Followed(Item)
  /\ i' = i + 1
  /\ UNCHANGED <<call, good, which_page, buffer, insertion_count, out, written, broke, pc>>

AtTuple == AtItem /\ OnPage(i) /\ Followed(Item)

(* The assertions of user_code, an assertion or abort() while a value is   *)
(* fetched, and assert( pos == itemdata.data_size ).                       *)
AssertionFails ==
  /\ AtTuple
  /\ \/ ~ Item.key
     \/ Item.values = "aborts"
     \/ Item.values = "ok" /\ ~ Item.fits
  /\ Abort("aborted")

ReadsOffPage == AtTuple /\ Item.key /\ Item.values = "undefined" /\ Abort("undefined")

(* Mutant: the exception ends the scan of the page.                        *)
SkipRowLeavesPage ==
  /\ AtTuple /\ Item.key /\ Item.values = "throws"
  /\ which_page' = which_page + 1
  /\ pc' = "read"
  /\ UNCHANGED <<call, good, i, buffer, insertion_count, out, written, broke>>

(* The exception of a value is caught; of this row nothing was printed.    *)
SkipRow ==
  /\ AtTuple /\ Item.key /\ Item.values = "throws"
  /\ i' = i + 1
  /\ UNCHANGED <<call, good, which_page, buffer, insertion_count, out, written, broke, pc>>

(* Mutants: the transaction is committed with every batch; the statement   *)
(* that follows a full one is begun without ending it.                     *)
SeparatorCommits(count) ==
  IF count % Batch # 0 THEN <<COMMA>>
  ELSE IF count = 0 THEN <<INSERT>> ELSE <<SEMICOLON, COMMIT, BEGIN, INSERT>>
SeparatorUnended(count) == IF count % Batch # 0 THEN <<COMMA>> ELSE <<INSERT>>

(* What goes before a row.                                                 *)
Separator(count) ==
  IF count % Batch # 0 THEN <<COMMA>>
  ELSE IF count = 0 THEN <<INSERT>> ELSE <<SEMICOLON, INSERT>>

(* The row's text: sql_geometric prints NULL twice for a null point, which *)
(* no server evaluates.                                                    *)
RowText(item) == [id |-> item.id, valid |-> item.point]

(* Mutant: the rows are not counted.                                       *)
PrintRowUncounted ==
  /\ AtTuple /\ Item.key /\ Item.values = "ok" /\ Item.fits
  /\ out' = out \o Separator(insertion_count) \o <<RowToken(RowText(Item))>>
  /\ written' = Append(written, RowText(Item))
  /\ i' = i + 1
  /\ UNCHANGED <<call, good, which_page, buffer, insertion_count, broke, pc>>

PrintRow ==
  /\ AtTuple /\ Item.key /\ Item.values = "ok" /\ Item.fits
  /\ out' = out \o Separator(insertion_count) \o <<RowToken(RowText(Item))>>
  /\ written' = Append(written, RowText(Item))
  /\ insertion_count' = insertion_count + 1
  /\ i' = i + 1
  /\ UNCHANGED <<call, good, which_page, buffer, broke, pc>>

(* Mutant: the page counter stays.                                         *)
NextPageStuck ==
  /\ pc = "items" /\ CountIsIntegral(buffer) /\ i >= ItemIdCount(buffer)
  /\ pc' = "read"
  /\ UNCHANGED <<call, good, which_page, i, buffer, insertion_count, out, written, broke>>

NextPage ==
  /\ pc = "items" /\ CountIsIntegral(buffer) /\ i >= ItemIdCount(buffer)
  /\ which_page' = which_page + 1
  /\ pc' = "read"
  /\ UNCHANGED <<call, good, i, buffer, insertion_count, out, written, broke>>

user_code_finish ==
  /\ pc = "read" /\ which_page >= Pages
  /\ out' = out \o <<SEMICOLON, COMMIT>>
  /\ pc' = "returned"
  /\ UNCHANGED <<call, good, which_page, i, buffer, insertion_count, written, broke>>

Step ==
  \/ NotOpened \/ Refused \/ ToastMapFails \/ user_code_setup
  \/ read_page \/ ReadFails \/ ReadRefused \/ BadCount \/ OffPage
  \/ SkipItem \/ AssertionFails \/ ReadsOffPage \/ SkipRow \/ PrintRow
  \/ NextPage \/ user_code_finish

Terminated == pc \in Ended /\ UNCHANGED vars

Next == Step \/ Terminated

(* One thread runs the program to its end.                                 *)
Spec == Init /\ [][Next]_vars /\ WF_vars(Step)

-----------------------------------------------------------------------------

Row == [id: Nat, valid: BOOLEAN]

ScriptToken == [kind: {"BEGIN;", "COMMIT;", "INSERT", ",", ";", "row"}, row: Row]

DumpTypeOK ==
  /\ call \in Call
  /\ good \in BOOLEAN
  /\ which_page \in 0 .. Pages /\ i \in Nat
  /\ buffer \in [lower: Nat, linp: Seq(TupleItem \union {ZeroItem})]
  /\ insertion_count = Len(written)
  /\ out \in Seq(ScriptToken)
  /\ written \in Seq(Row)
  /\ broke \in Nat
  /\ pc \in Ended \union {"start", "read", "items"}

(* The rows that can be dumped of the first n line pointers of a page, and *)
(* of the first p pages of the file, in order.                             *)
Dumpable(item) ==
  Followed(item) /\ item.key /\ item.values = "ok" /\ item.fits
ItemRows(page, n) ==
  LET rows[k \in 0 .. n] ==
        IF k = 0 THEN << >>
        ELSE IF Dumpable(LinePointer(page, k - 1))
               THEN Append(rows[k - 1], RowText(LinePointer(page, k - 1)))
               ELSE rows[k - 1]
  IN  rows[n]
PageRows(file, p) ==
  LET rows[k \in 0 .. p] ==
        IF k = 0 THEN << >>
        ELSE rows[k - 1] \o ItemRows(file[k], ItemIdCount(file[k]))
  IN  rows[p]
FileRows == PageRows(call.file, Len(call.file))

(* The script as it is, or as it would be if the dump stopped asking for   *)
(* rows now.                                                               *)
ClosedScript == IF pc = "returned" THEN out ELSE out \o <<SEMICOLON, COMMIT>>

(* Wherever the batches break and whatever rows were skipped between them, *)
(* the script is one valid transaction that inserts the rows printed, each *)
(* once and in order; a single row with a null point loses them all.       *)
ScriptLoadsItsRows ==
  pc \in {"read", "items", "returned"} =>
    Loaded(ClosedScript) =
      IF \A k \in DOMAIN written : written[k].valid THEN written ELSE << >>

(* An interrupted dump loads nothing, however much of it has reached the   *)
(* output.                                                                 *)
InterruptedDumpLoadsNothing == pc # "returned" => Loaded(out) = << >>

(* The INSERT statements of a script, and the rows at positions k to m.    *)
Inserts(script) == {k \in DOMAIN script : script[k] = INSERT}
RowsBetween(script, k, m) == Cardinality({j \in k .. m : script[j].kind = "row"})

(* Every INSERT statement but the last has exactly Batch rows, the last at *)
(* most as many.                                                           *)
BatchesAreFull ==
  \A k \in Inserts(out) :
    /\ \A m \in Inserts(out) :
         m > k /\ (\A j \in Inserts(out) : j <= k \/ j >= m) => RowsBetween(out, k, m) = Batch
    /\ (\A m \in Inserts(out) : m <= k) => RowsBetween(out, k, Len(out)) \in 0 .. Batch

(* As long as reads succeed, the dump holds the rows of the file in their  *)
(* order, and in the end all of them, unless the file is so long that its  *)
(* size wraps.                                                             *)
RowsInFileOrder ==
  good => /\ written = SubSeq(FileRows, 1, Len(written))
          /\ pc = "returned" /\ FileBytes < WordMod => written = FileRows

(* A read that fails may bring rows of the page it broke off in, and what  *)
(* a mixture of two pages makes of their tuples; but no page after that    *)
(* one brings a new row: what is printed from then on repeats rows printed *)
(* before.                                                                 *)
StaleRowsAreRepeats ==
  [][~ good /\ which_page > broke /\ Len(written') > Len(written) =>
       \E k \in DOMAIN written : written[k] = written'[Len(written')]]_vars

DumpEnds == <>(pc \in Ended)

(* Loading the dump is atomic.                                             *)
Atomic == INSTANCE AtomicDump WITH collected <- written, table <- Loaded(out)

ImplementsAtomicDump == Atomic!DumpSpec

(* bufpage.h on the number of line pointers: "if the page is not           *)
(* initialized (pd_lower == 0), we must return zero to ensure sane         *)
(* behavior": the loop never leaves the page.                              *)
StaysOnPage ==
  /\ good /\ call.toast = "ok"
  /\ \A p \in DOMAIN call.file :
       \A k \in DOMAIN call.file[p].linp : call.file[p].linp[k].values # "undefined"
  => pc # "undefined"

(* The statement names one column per value (sql_insert): every row        *)
(* printed can be inserted.                                                *)
PrintedRowsLoad == pc = "returned" => Loaded(out) = written

=============================================================================
