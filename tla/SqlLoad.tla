------------------------------ MODULE SqlLoad ------------------------------
(***************************************************************************)
(* The session that loads a dump: psql reading the statements of a script  *)
(* one after the other.  Not part of the program; modelled from what       *)
(* table_sample prints.                                                    *)
(*                                                                         *)
(* A script is a sequence of tokens [kind, row]; a row token carries       *)
(* [id, valid], valid when all its expressions can be evaluated.           *)
(***************************************************************************)
EXTENDS Integers, Sequences

NoRow == [id |-> 0, valid |-> FALSE]
Token(kind) == [kind |-> kind, row |-> NoRow]
RowToken(row) == [kind |-> "row", row |-> row]

BEGIN == Token("BEGIN;")
COMMIT == Token("COMMIT;")
INSERT == Token("INSERT")
COMMA == Token(",")
SEMICOLON == Token(";")

(* The statement collected so far, the transaction ("none", "open" or      *)
(* "failed"), the rows inserted in it and the rows of the table.           *)
NewSession == [stmt |-> << >>, tx |-> "none", pending |-> << >>, table |-> << >>]

(* INSERT row , row , ... row with nothing missing and nothing invalid.    *)
ValidInsert(stmt) ==
  /\ Len(stmt) % 2 = 0 /\ stmt[1] = INSERT
  /\ \A k \in 2 .. Len(stmt) :
       IF k % 2 = 0 THEN stmt[k].kind = "row" /\ stmt[k].row.valid
                    ELSE stmt[k] = COMMA

RowsOf(stmt) == [k \in 1 .. Len(stmt) \div 2 |-> stmt[2 * k].row]

(* A complete statement is executed: outside a transaction it commits by   *)
(* itself, an error in a transaction fails the transaction.                *)
Run(s) ==
  IF s.stmt = << >> THEN s
  ELSE LET rows == RowsOf(s.stmt)
           done == [s EXCEPT !.stmt = << >>]
       IN  CASE s.tx = "none" /\ ValidInsert(s.stmt) -> [done EXCEPT !.table = @ \o rows]
             [] s.tx = "open" /\ ValidInsert(s.stmt) -> [done EXCEPT !.pending = @ \o rows]
             [] s.tx = "open" /\ ~ ValidInsert(s.stmt) -> [done EXCEPT !.tx = "failed"]
             [] OTHER -> done

(* COMMIT of a failed transaction rolls it back.                           *)
Commit(s) ==
  [NewSession EXCEPT
     !.table = IF s.tx = "open" THEN s.table \o s.pending ELSE s.table]

Feed(s, token) ==
  LET text == [s EXCEPT !.stmt = Append(@, token)]
  IN  CASE token = SEMICOLON -> Run(s)
        [] token = BEGIN /\ s.stmt = << >> -> [s EXCEPT !.tx = "open"]
        [] token = COMMIT /\ s.stmt = << >> -> Commit(s)
        [] token \in {BEGIN, COMMIT} /\ s.stmt # << >> -> Run(text)
        [] OTHER -> text

Load(script) ==
  LET session[n \in 0 .. Len(script)] ==
        IF n = 0 THEN NewSession ELSE Feed(session[n - 1], script[n])
  IN  session[Len(script)]

(* The rows a script leaves in the table: what is not committed when the   *)
(* script ends is rolled back.                                             *)
Loaded(script) == Load(script).table

=============================================================================
