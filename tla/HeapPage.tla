------------------------------ MODULE HeapPage ------------------------------
(***************************************************************************)
(* How page_dumper reads the line pointers of a heap page: the item count  *)
(* it derives from pd_lower and the tests it applies to an ItemIdData      *)
(* before it follows it.                                                   *)
(*                                                                         *)
(* A page is a record [lower, linp] with pd_lower and its line pointers,   *)
(* an item a record with at least the fields flags, off and len.           *)
(***************************************************************************)
EXTENDS Integers, Sequences

CONSTANTS
  PageSize,         (* PAGE_SIZE                                           *)
  PageHeaderSize,   (* bytes before the first line pointer, 24             *)
  ItemIdSize,       (* sizeof(ItemIdData), 4                               *)
  WordMod           (* 2^32, the range of unsigned                         *)

ASSUME PageAssumption ==
  /\ PageSize \in Nat /\ PageHeaderSize \in Nat
  /\ ItemIdSize \in Nat \ {0}
  /\ WordMod \in Nat /\ WordMod > PageSize
  /\ PageHeaderSize + ItemIdSize <= PageSize

LP_UNUSED == 0
LP_NORMAL == 1
LP_REDIRECT == 2
LP_DEAD == 3

Word(n) == n % WordMod

(* pd_lower is subtracted from as an unsigned number.                      *)
LinePointerBytes(page) == Word(page.lower - PageHeaderSize)

(* The assertion of integral_division.                                     *)
CountIsIntegral(page) == LinePointerBytes(page) % ItemIdSize = 0

ItemIdCount(page) == LinePointerBytes(page) \div ItemIdSize

(* Line pointer i, counted from 0, lies inside the page.                   *)
OnPage(i) == PageHeaderSize + (i + 1) * ItemIdSize <= PageSize

(* The chain of tests that main and fill_toast_map both apply.             *)
Followed(item) ==
  /\ item.flags = LP_NORMAL
  /\ item.len # 0
  /\ item.off <= PageSize
  /\ item.off + item.len <= PageSize

(* A line pointer of zero bytes.                                           *)
ZeroItem == [flags |-> LP_UNUSED, off |-> 0, len |-> 0]

(* A page of zero bytes, which a static buffer holds at first.             *)
ZeroPage == [lower |-> 0, linp |-> << >>]

(* Line pointer i of the page as memory holds it: the bytes after the last *)
(* one of an unformatted page are zero.                                    *)
LinePointer(page, i) == IF i < Len(page.linp) THEN page.linp[i + 1] ELSE ZeroItem

(* A read into a buffer that holds page old breaks off after the first n   *)
(* bytes of page new.  What of a line pointer and its tuple lies before n  *)
(* is new, what lies behind it is old; where the two sides meet, one of    *)
(* mixed comes about.                                                      *)
TornItem(new, old, n, mixed, i) ==
  LET start == PageHeaderSize + i * ItemIdSize
      a == LinePointer(new, i)
      b == LinePointer(old, i)
  IN  IF start + ItemIdSize <= n /\ (Followed(a) => a.off + a.len <= n) THEN {a}
      ELSE IF start >= n /\ (Followed(b) => b.off >= n) THEN {b}
      ELSE mixed \union {a, b}

(* The two bytes of pd_lower lie in the page header, the low one first.    *)
TornLower(new, old, n) ==
  IF n = 0 THEN {old.lower}
  ELSE IF n >= PageHeaderSize THEN {new.lower}
  ELSE {old.lower, new.lower, (old.lower \div 256) * 256 + (new.lower % 256)}

(* The pages the buffer may hold then.                                     *)
Torn(new, old, n, mixed) ==
  LET m == IF Len(new.linp) >= Len(old.linp) THEN Len(new.linp) ELSE Len(old.linp)
      items == [k \in 1 .. m |-> TornItem(new, old, n, mixed, k - 1)]
  IN  {page \in [lower : TornLower(new, old, n),
                 linp : [1 .. m -> UNION {items[k] : k \in 1 .. m}]] :
         \A k \in 1 .. m : page.linp[k] \in items[k]}

=============================================================================
