----------------------------- MODULE AtomicDump -----------------------------
(***************************************************************************)
(* What a dump promises to whoever loads it: rows are collected one by     *)
(* one, and the table receives all of them in one step at the end or none. *)
(***************************************************************************)
EXTENDS Integers, Sequences

VARIABLES
  collected,   (* rows dumped so far                                       *)
  table        (* rows a load of the output would leave in the table       *)

dumpVars == <<collected, table>>

DumpInit == collected = << >> /\ table = << >>

Collect ==
  /\ table = << >>
  /\ Len(collected') = Len(collected) + 1
  /\ SubSeq(collected', 1, Len(collected)) = collected
  /\ UNCHANGED table

Publish ==
  /\ table = << >>
  /\ table' = collected
  /\ UNCHANGED collected

DumpSpec == DumpInit /\ [][Collect \/ Publish]_dumpVars

=============================================================================
