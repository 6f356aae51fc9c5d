--------------------------- MODULE MCToastDumper ---------------------------
(* Files of up to two chunks of two values, one with the largest id, and   *)
(* of a chunk before an odd tuple, asked for in every way.                 *)
EXTENDS ToastDumper

Chunk(id, seq, data, beyond) ==
  [atts |-> TRUE, id |-> id, seq |-> seq, hoff |-> 3, len |-> 3 + ChunkPos + Len(data),
   rest |-> data \o beyond]

Chunks ==
  {Chunk(id, seq, data, beyond) : id \in {1, 15}, seq \in {0, 1},
     data \in {<<7>>, <<7, 8, 9, 10>>}, beyond \in {<< >>, <<5, 5, 5>>}}

Odd ==
  LET c == Chunk(1, 0, <<7>>, <<5>>)
  IN  {[c EXCEPT !.atts = FALSE], [c EXCEPT !.len = 1], [c EXCEPT !.len = 3],
       [c EXCEPT !.rest = << >>],
       [c EXCEPT !.len = 1, !.rest = <<7, 5, 5, 5, 5>>],
       [c EXCEPT !.len = 3, !.rest = <<7, 5, 5, 5, 5>>]}

Args ==
  {[kind |-> "none", number |-> 0], [kind |-> "text", number |-> 0]}
  \union {[kind |-> "number", number |-> k] : k \in {-17, -15, -1, 0, 1, 2, 15, 16, 17}}

Files == UNION {[1 .. k -> Chunks] : k \in 0 .. 2} \union {<<a, o>> : a \in Chunks, o \in Odd}

MCCalls == {[arg |-> a, tuples |-> f] : a \in Args, f \in Files}

=============================================================================
