-------------------------- MODULE MCPglzDecompress --------------------------
(* Every byte string of up to MaxSrc bytes as input, claimed to be as long *)
(* as it is or up to MaxExcess bytes longer, for every output size up to   *)
(* MaxRaw; and the streams of item lists of up to MaxItems items over two  *)
(* literals and runs of short, longest short, extended and longest length. *)
EXTENDS PglzRoundTrip

CONSTANTS MaxSrc, MaxExcess, MaxRaw, MaxItems

MCInputs ==
  {[src |-> s, srcend |-> Len(s) + e, rawsize |-> r] :
     s \in UNION {[1 .. n -> 0 .. Nibble * Nibble - 1] : n \in 0 .. MaxSrc},
     e \in 0 .. MaxExcess, r \in 0 .. MaxRaw}

MCItem ==
  {Format!Lit(b) : b \in {1, 3}} \union {Format!Run(n, o) : n \in {3, 4, 7}, o \in 1 .. 3}

MCItemLists ==
  {l \in UNION {[1 .. n -> MCItem] : n \in 1 .. MaxItems} : Format!WellFormedItems(l)}

=============================================================================
