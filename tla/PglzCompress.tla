---------------------------- MODULE PglzCompress ----------------------------
(***************************************************************************)
(* pglz_compress() of pgsql_src/pg_lzcompress.c: the history table of      *)
(* doubly linked lists, the search for a match and the main loop, one      *)
(* action per iteration of each loop.  The table is static and survives a  *)
(* call, so several calls follow one another.                              *)
(*                                                                         *)
(* The limits scale with Nibble as the tag's layout does: HistSize is      *)
(* PGLZ_HISTORY_SIZE, MaxMatch is PGLZ_MAX_MATCH.  Positions count from 0. *)
(***************************************************************************)
EXTENDS PglzFormat

CONSTANTS
  HistLists,  (* PGLZ_HISTORY_LISTS                                        *)
  Mix,        (* the lookup key of four characters                         *)
  MaxInt,     (* INT_MAX                                                   *)
  Calls       (* lists of calls [source, strategy] made one after another  *)

HistSize == Nibble * ByteCount
MaxOffset == HistSize - 1
MaxMatch == Nibble + 1 + ByteCount
Slot == 0 .. HistSize - 1
NULL == -1

Strategy == [min_input_size: Nat, max_input_size: Nat, min_comp_rate: Int,
             first_success_by: Nat, match_size_good: Int, match_size_drop: Int]

ASSUME CompressAssumption ==
  /\ Nibble \in Nat /\ Nibble >= 2 /\ HistLists \in Nat \ {0} /\ MaxInt \in Nat
  /\ Mix \in [(0 .. ByteCount - 1) \X (0 .. ByteCount - 1)
              \X (0 .. ByteCount - 1) \X (0 .. ByteCount - 1) -> 0 .. HistLists - 1]
  /\ Calls \subseteq Seq([source: Seq(0 .. ByteCount - 1), strategy: Strategy])

VARIABLES
  calls,      (* the calls still to be made, the current one first         *)
  hist,       (* hist_start, hist_entries, hist_next and hist_recycle      *)
  dp,         (* characters compressed                                     *)
  o,          (* the output, see PglzFormat                                *)
  found_match,
  match,      (* hent, len, off and good_match of pglz_find_match          *)
  left,       (* matched characters still to be entered                    *)
  items,      (* what was written so far (history)                         *)
  pc

vars == <<calls, hist, dp, o, found_match, match, left, items, pc>>
out == <<o, found_match, items>>

Source == Head(calls).source
strategy == Head(calls).strategy
Char(p) == Source[p + 1]

Clamp(n, low, high) == IF n < low THEN low ELSE IF n > high THEN high ELSE n

GoodMatch == Clamp(strategy.match_size_good, Nibble + 1, MaxMatch)
GoodDrop == Clamp(strategy.match_size_drop, 0, 100)

(* The input minus the wanted rate; only approximated where the product    *)
(* would overflow an int.                                                  *)
ResultMax ==
  LET slen == Len(Source)
      rest_rate == 100 - Clamp(strategy.min_comp_rate, 0, 99)
  IN  IF slen > MaxInt \div 100 THEN (slen \div 100) * rest_rate
      ELSE (slen * rest_rate) \div 100

pglz_hist_idx(p) ==
  IF Len(Source) - p < 4 THEN Char(p) % HistLists
  ELSE Mix[<<Char(p), Char(p + 1), Char(p + 2), Char(p + 3)>>]

-----------------------------------------------------------------------------

(* Mutant: the entry is left in its old list.                              *)
DelinkNothing(h, e) == h

(* A recycled entry is taken out of the list of its old key.               *)
Delink(h, e) ==
  LET old == h.entries[e]
      start == IF old.prev = NULL THEN [h.start EXCEPT ![old.hindex] = old.next] ELSE h.start
      entries == [k \in Slot |->
                    [h.entries[k] EXCEPT !.next = IF k = old.prev THEN old.next ELSE @,
                                         !.prev = IF k = old.next THEN old.prev ELSE @]]
  IN  [h EXCEPT !.start = start, !.entries = entries]

(* It becomes the first of the list of its new key.                        *)
Link(h, e, key, p) ==
  LET first == h.start[key]
      entered == [h.entries EXCEPT
                    ![e] = [next |-> first, prev |-> NULL, hindex |-> key, pos |-> p]]
  IN  [h EXCEPT
         !.entries = IF first = NULL THEN entered ELSE [entered EXCEPT ![first].prev = e],
         !.start[key] = e]

(* The next place of hist_entries, which is used again once all are.       *)
Advance(h) ==
  IF h.next + 1 >= HistSize THEN [h EXCEPT !.next = 0, !.recycle = TRUE]
  ELSE [h EXCEPT !.next = @ + 1]

pglz_hist_add(h, p) ==
  Advance(Link(IF h.recycle THEN Delink(h, h.next) ELSE h, h.next, pglz_hist_idx(p), p))

NoLists == [k \in 0 .. HistLists - 1 |-> NULL]
NoMatch == [hent |-> NULL, len |-> 0, off |-> 0, good |-> 0]

Init ==
  /\ calls \in Calls
  /\ hist = [start |-> NoLists, next |-> 0, recycle |-> FALSE,
             entries |-> [k \in Slot |-> [next |-> NULL, prev |-> NULL, hindex |-> 0, pos |-> 0]]]
  /\ dp = 0 /\ o = NoOutput /\ found_match = FALSE
  /\ match = NoMatch /\ left = 0 /\ items = << >>
  /\ pc = "call"

Return(how) == pc' = how /\ UNCHANGED <<calls, hist, dp, out, match, left>>

Forbidden ==
  \/ strategy.match_size_good <= 0
  \/ Len(Source) \notin strategy.min_input_size .. strategy.max_input_size

Refuse == pc = "call" /\ calls # << >> /\ Forbidden /\ Return("refused")

(* Mutant: the lists of the call before are kept.                          *)
BeginKeepsLists ==
  /\ pc = "call" /\ calls # << >> /\ ~ Forbidden
  /\ hist' = [hist EXCEPT !.next = 0, !.recycle = FALSE]
  /\ dp' = 0 /\ o' = NoOutput /\ found_match' = FALSE /\ items' = << >>
  /\ pc' = "loop"
  /\ UNCHANGED <<calls, match, left>>

(* The entries are not cleared.                                            *)
Begin ==
  /\ pc = "call" /\ calls # << >> /\ ~ Forbidden
  /\ hist' = [hist EXCEPT !.start = NoLists, !.next = 0, !.recycle = FALSE]
  /\ dp' = 0 /\ o' = NoOutput /\ found_match' = FALSE /\ items' = << >>
  /\ pc' = "loop"
  /\ UNCHANGED <<calls, match, left>>

(* Mutant: the size is not looked at inside the loop.                      *)
TooLargeUnchecked == FALSE
TooLarge == Len(o.buf) >= ResultMax
NothingFound == ~ found_match /\ Len(o.buf) >= strategy.first_success_by

GiveUp ==
  /\ pc = "loop" /\ dp < Len(Source)
  /\ TooLarge \/ NothingFound
  /\ Return("failed")

(* pglz_find_match: begin with the first entry of the key's list.          *)
Search ==
  /\ pc = "loop" /\ dp < Len(Source) /\ ~ TooLarge /\ ~ NothingFound
  /\ match' = [NoMatch EXCEPT !.hent = hist.start[pglz_hist_idx(dp)], !.good = GoodMatch]
  /\ pc' = "search"
  /\ UNCHANGED <<calls, hist, dp, out, left>>

Offset == dp - hist.entries[match.hent].pos

Same(off, n) == \A j \in 0 .. n - 1 : Char(dp + j) = Char(dp + j - off)

(* The match with the characters off back is n characters long.            *)
Matches(off, n) ==
  /\ Same(off, n)
  /\ n \notin {MaxMatch, Len(Source) - dp} => Char(dp + n) # Char(dp + n - off)

(* Mutant: offsets up to the size of the history are taken.                *)
InReachLate == Offset <= HistSize

InReach == Offset < MaxOffset

(* The list is at its end, or its next entry is too far back for a tag.    *)
StopSearch ==
  /\ pc = "search"
  /\ IF match.hent = NULL THEN TRUE ELSE ~ InReach
  /\ pc' = "emit"
  /\ UNCHANGED <<calls, hist, dp, out, match, left>>

(* Mutant: the next entry is not advanced to.                              *)
VisitSameAgain ==
  /\ pc = "search" /\ match.hent # NULL /\ InReach
  /\ \E n \in 0 .. Clamp(Len(Source) - dp, 0, MaxMatch) :
       Matches(Offset, n) /\ match' = [match EXCEPT !.len = n, !.off = Offset]
  /\ UNCHANGED <<calls, hist, dp, out, left, pc>>

(* Compare with one entry; unless it was the last, stop at a good match    *)
(* and lower what counts as good.                                          *)
Visit ==
  /\ pc = "search" /\ match.hent # NULL /\ InReach
  /\ \E n \in 0 .. Clamp(Len(Source) - dp, 0, MaxMatch) :
       LET next == hist.entries[match.hent].next
           best == IF n > match.len THEN [match EXCEPT !.len = n, !.off = Offset] ELSE match
           stop == next # NULL /\ best.len >= best.good
       IN  /\ Matches(Offset, n)
           /\ match' = [best EXCEPT
                          !.hent = next,
                          !.good = IF next = NULL \/ stop THEN @ ELSE @ - (@ * GoodDrop) \div 100]
           /\ pc' = IF stop THEN "emit" ELSE "search"
  /\ UNCHANGED <<calls, hist, dp, out, left>>

(* A match that saves at least one byte becomes a tag.                     *)
EmitTag ==
  /\ pc = "emit" /\ match.len > 2
  /\ o' = OutTag(o, match.len, match.off)
  /\ items' = Append(items, Run(match.len, match.off))
  /\ found_match' = TRUE
  /\ left' = match.len
  /\ pc' = "add"
  /\ UNCHANGED <<calls, hist, dp, match>>

(* The matched characters are entered one by one.                          *)
AddMatched ==
  /\ pc = "add" /\ left > 0
  /\ hist' = pglz_hist_add(hist, dp)
  /\ dp' = dp + 1
  /\ left' = left - 1
  /\ UNCHANGED <<calls, out, match, pc>>

AddedAll == pc = "add" /\ left = 0 /\ Return("loop")

EmitLiteral ==
  /\ pc = "emit" /\ match.len <= 2
  /\ o' = OutLiteral(o, Char(dp))
  /\ items' = Append(items, Lit(Char(dp)))
  /\ hist' = pglz_hist_add(hist, dp)
  /\ dp' = dp + 1
  /\ pc' = "loop"
  /\ UNCHANGED <<calls, found_match, match, left>>

(* Store the last control byte, then compare the size once more.           *)
Finish ==
  /\ pc = "loop" /\ dp >= Len(Source)
  /\ o' = [o EXCEPT !.buf = WriteControl(o)]
  /\ pc' = IF Len(o.buf) >= ResultMax THEN "failed" ELSE "compressed"
  /\ UNCHANGED <<calls, hist, dp, found_match, items, match, left>>

Ended == {"refused", "failed", "compressed"}

NextCall ==
  /\ pc \in Ended
  /\ calls' = Tail(calls)
  /\ pc' = "call"
  /\ UNCHANGED <<hist, dp, out, match, left>>

Step ==
  \/ Refuse \/ Begin \/ GiveUp \/ Search \/ StopSearch \/ Visit \/ EmitTag
  \/ AddMatched \/ AddedAll \/ EmitLiteral \/ Finish \/ NextCall

Terminated == pc = "call" /\ calls = << >> /\ UNCHANGED vars

Next == Step \/ Terminated

Spec == Init /\ [][Next]_vars /\ WF_vars(Step)

-----------------------------------------------------------------------------

Running == pc \in {"loop", "search", "emit", "add"}

(* Every entry of live is in the list of its key, linked both ways, and a  *)
(* list leads to older entries of its key only.                            *)
ListsSound(h, live) ==
  /\ \A e \in live :
       LET x == h.entries[e]
       IN  /\ x.prev = NULL => h.start[x.hindex] = e
           /\ x.prev # NULL => x.prev \in live /\ h.entries[x.prev].next = e
           /\ x.next # NULL =>
                /\ x.next \in live /\ h.entries[x.next].prev = e
                /\ h.entries[x.next].hindex = x.hindex
                /\ h.entries[x.next].pos < x.pos
  /\ \A k \in DOMAIN h.start : h.start[k] # NULL =>
       /\ h.start[k] \in live
       /\ h.entries[h.start[k]].hindex = k /\ h.entries[h.start[k]].prev = NULL

(* The entries in use after d characters, and the characters they are for: *)
(* those before hist_next were entered since it was last 0.                *)
Live(h) == IF h.recycle THEN Slot ELSE 0 .. h.next - 1
Position(h, d, e) == d - h.next + e - (IF e < h.next THEN 0 ELSE HistSize)

Window(h, d) ==
  /\ h.recycle = (d >= HistSize) /\ (~ h.recycle => h.next = d)
  /\ \A e \in Live(h) :
       /\ h.entries[e].pos = Position(h, d, e)
       /\ h.entries[e].hindex = pglz_hist_idx(Position(h, d, e))
  /\ ListsSound(h, Live(h))

(* The history table is exactly the window of the last HistSize characters *)
(* of this call: no entry is of an earlier call, of a character further    *)
(* back or still in the list of an old key.                                *)
HistoryIsWindow == Running => Window(hist, dp)

(* What is written stands for the characters passed, in runs a tag can     *)
(* hold, so that a call that succeeds has compressed its source.           *)
WritesItsSource ==
  Running \/ pc = "compressed" =>
    /\ WellFormedItems(items)
    /\ Expand(items) = SubSeq(Source, 1, dp + left)
    /\ pc = "compressed" => dp = Len(Source) /\ o.buf = Encode(items)

(* utils/pg_lzcompress.h:28: "PGLZ_MAX_OUTPUT - Macro to compute the       *)
(* buffer size required by pglz_compress().  We allow 4 bytes for overrun  *)
(* before detecting compression failure": the output never gets longer,    *)
(* and a success is shorter than the strategy demands.                     *)
StaysInBuffer ==
  Running \/ pc \in {"failed", "compressed"} =>
    /\ Len(o.buf) <= Len(Source) + 4
    /\ pc = "compressed" => Len(o.buf) < ResultMax

(* Every call ends, whatever the lists hold.                               *)
CompressTerminates == <>(calls = << >>)

=============================================================================
