--------------------------- MODULE PglzRoundTrip ----------------------------
(***************************************************************************)
(* pglz_decompress run on any bytes, and on what the output macros of      *)
(* pglz_compress wrote.  The length in the header may claim more bytes     *)
(* than the stream has: ToastPointer::fetch_data stores the raw size       *)
(* there.                                                                  *)
(***************************************************************************)
EXTENDS PglzDecompress

Format == INSTANCE PglzFormat

CONSTANTS
  ItemLists,   (* the item lists a compressor chose                        *)
  Excess       (* bytes by which srcend may lie past the stream            *)

ASSUME ListsAssumption ==
  /\ Excess \subseteq Nat
  /\ \A l \in ItemLists : l \in Seq(Format!Item) /\ Format!WellFormedItems(l)

VARIABLE items   (* the items written, << >> where the input is any bytes  *)

(* The call for the item list l.                                           *)
StreamCall(l, excess) ==
  [src |-> Format!Encode(l),
   srcend |-> Len(Format!Encode(l)) + excess,
   rawsize |-> Len(Format!Expand(l))]

RTInit ==
  \/ items = << >> /\ Init
  \/ items \in ItemLists /\ \E e \in Excess : Call(StreamCall(items, e))

RTNext == Next /\ UNCHANGED items

RTSpec == RTInit /\ [][RTNext]_<<vars, items>> /\ WF_<<vars, items>>(Step /\ UNCHANGED items)

-----------------------------------------------------------------------------

Output == [k \in 1 .. in.rawsize |-> dest[k - 1]]

(* Every stream the compressor can write is decoded to the text it stands  *)
(* for, whatever the header claims beyond its end, and is never given up   *)
(* or aborted on.                                                          *)
RoundTrip ==
  items # << >> /\ pc \in Final => pc = "returned" /\ Output = Format!Expand(items)

(* With a length that overstates the stream the decoder still never reads  *)
(* a byte past it: the unused bits of the last control byte are literals,  *)
(* and a literal is refused when the output is full.                       *)
NoOverreadOfValidStream == items # << >> => sp <= Len(in.src)

(* A valid stream is decoded to the end.                                   *)
DecodesToEnd == items # << >> ~> pc = "returned" /\ dp = in.rawsize

=============================================================================
