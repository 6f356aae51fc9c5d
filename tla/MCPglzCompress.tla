--------------------------- MODULE MCPglzCompress ---------------------------
(* Every text of MaxLen of two characters, longer than the history, and    *)
(* pairs of calls over shorter ones, under strategies that differ in every *)
(* field.                                                                  *)
EXTENDS PglzCompress

CONSTANTS MaxLen, PairLen

MCMix ==
  [w \in (0 .. ByteCount - 1) \X (0 .. ByteCount - 1)
         \X (0 .. ByteCount - 1) \X (0 .. ByteCount - 1) |->
     (w[1] + 2 * w[2] + w[3] * w[4]) % HistLists]

Always == [min_input_size |-> 0, max_input_size |-> 99, min_comp_rate |-> 0,
           first_success_by |-> 99, match_size_good |-> 128, match_size_drop |-> 6]
Default == [min_input_size |-> 4, max_input_size |-> 99, min_comp_rate |-> 25,
            first_success_by |-> 6, match_size_good |-> 4, match_size_drop |-> 30]
Hasty == [Always EXCEPT !.match_size_good = 4, !.match_size_drop = 100]

Texts(n) == [1 .. n -> {1, 2}]
Call(text, strategy_of_call) == [source |-> text, strategy |-> strategy_of_call]

MCCalls ==
  {<<Call(t, s)>> : t \in Texts(MaxLen), s \in {Always, Default, Hasty}}
  \union {<<Call(t, Always), Call(u, s)>> :
            t \in {t \in Texts(MaxLen) : \A k \in 1 .. MaxLen - 4 : t[k] = t[k + 4]},
            u \in Texts(PairLen) \union {<< >>},
            s \in {Always, [Default EXCEPT !.min_input_size = PairLen + 1],
                   [Always EXCEPT !.match_size_good = 0]}}

=============================================================================
