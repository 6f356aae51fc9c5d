----------------------------- MODULE MCRowText -----------------------------
(* The tuples of MCTupleLayout, and tuples with every text of up to five   *)
(* of four bytes: a quote, a backslash, a separator and another.           *)
EXTENDS RowText, MCTupleLayout

MCLetters == Byte \ {Quote, Backslash, Separator}
MCUnescape == [c \in MCLetters \union {Separator} |-> IF c = 7 THEN 2 ELSE 3]
MCNullText == <<NotThere>>
MCPlaceholder == <<3, 4, 3>>
MCFetched == {<< >>, <<Quote, Backslash>>, <<Backslash, 3, Quote>>}

MCTexts == UNION {[1 .. n -> {Quote, Backslash, Separator, 7}] : n \in 0 .. 5}

(* The tuple whose second column is the text.                              *)
TextTuple(t) ==
  LET n == Len(t) + 1
      plain == StoredTuple(<<Number, Value("short", n), Null, Null, Null, Null>>, Repeat(0, 8))
  IN  [plain EXCEPT !.mem = SubSeq(plain.mem, 1, 5) \o t \o Repeat(0, 8)]

MCRowTuples == MCTuples \union {TextTuple(t) : t \in MCTexts}

ASSUME TextTuplesStored == \A t \in MCTexts : Stored(TextTuple(t))

=============================================================================
