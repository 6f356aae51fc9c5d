---------------------------- MODULE MCTableDump ----------------------------
(* Files of up to three pages whose tuples are of every kind the loop      *)
(* tells apart, and the calls that end before the first page is read.      *)
EXTENDS TableDump

Tuple == [flags |-> LP_NORMAL, off |-> 16, len |-> 6, id |-> 0,
          key |-> TRUE, values |-> "ok", fits |-> TRUE, point |-> TRUE]

Throwing == [Tuple EXCEPT !.values = "throws"]

(* The kinds of items that do not stop the dump.                           *)
Harmless ==
  {Tuple, [Tuple EXCEPT !.point = FALSE], Throwing, [Tuple EXCEPT !.flags = LP_DEAD]}

Odd ==
  {[Tuple EXCEPT !.key = FALSE], [Tuple EXCEPT !.values = "aborts"], [Tuple EXCEPT !.values = "undefined"],
   [Tuple EXCEPT !.fits = FALSE], [Tuple EXCEPT !.len = 0],
   [Tuple EXCEPT !.off = PageSize + 1], [Tuple EXCEPT !.len = PageSize]}

(* The items of a page, numbered from n, their tuples one after the other  *)
(* behind room for three line pointers.                                    *)
Page(items, n) ==
  [lower |-> PageHeaderSize + ItemIdSize * Len(items),
   linp |-> [k \in DOMAIN items |->
               [items[k] EXCEPT !.id = n + k,
                                !.off = IF @ = Tuple.off THEN @ + Tuple.len * (k - 1) ELSE @]]]

(* Half of one page, half of another: a tuple of its own, or none.         *)
MCMixed == {[Tuple EXCEPT !.id = 99], [Tuple EXCEPT !.flags = LP_DEAD]}

FileOf(pages) == [p \in DOMAIN pages |-> Page(pages[p], 10 * p)]

Start == [args |-> 3, opens |-> TRUE, tail |-> 0, file |-> << >>, toast |-> "ok"]

DumpOf(file) == [Start EXCEPT !.file = file]

Lists(kinds, n) == UNION {[1 .. k -> kinds] : k \in 0 .. n}

(* Three pages of up to two, one and one items; pages with an item of an   *)
(* odd kind between good ones; a page with a ruined pd_lower.              *)
MCCalls ==
  {DumpOf(FileOf(<<a, b, c>>)) :
     a \in Lists(Harmless, 2), b \in Lists(Harmless, 1), c \in Lists({Tuple, Throwing}, 1)}
  \union {DumpOf(FileOf(<<<<Tuple, Tuple>>, <<o, Tuple>>>>)) : o \in Odd}
  \union {DumpOf(<<Page(<<Tuple, Tuple, Tuple>>, 0), [Page(<<Tuple>>, 9) EXCEPT !.lower = l]>>) :
            l \in {0, PageHeaderSize + 1}}
  \union {Start, [Start EXCEPT !.args = 1], [Start EXCEPT !.opens = FALSE]}
  \union {[c EXCEPT !.file = FileOf(<<<<Tuple>>>>)] :
            c \in {[Start EXCEPT !.args = 2], [Start EXCEPT !.tail = 3],
                   [Start EXCEPT !.toast = "aborted"], [Start EXCEPT !.toast = "undefined"]}}

=============================================================================
