---------------------------- MODULE SqlLiteral ----------------------------
(***************************************************************************)
(* sql_varlena: how text after text becomes a literal of the script, with  *)
(* the lexer of the session that loads the script reading along.  The      *)
(* lexer is not part of the program; it is that of an E'' literal.         *)
(***************************************************************************)
EXTENDS Integers, Sequences

CONSTANTS
  Quote, Backslash,   (* the two characters that are written doubled       *)
  Separator,          (* what sql_varlena's caller prints after the value  *)
  Letters,            (* all other characters                              *)
  Unescape,           (* what a letter after a backslash stands for        *)
  NullText            (* the text of a null column                         *)

Chars == Letters \union {Quote, Backslash, Separator}

ASSUME CharsAssumption ==
  /\ Quote # Backslash /\ Separator \notin {Quote, Backslash}
  /\ {Quote, Backslash} \intersect Letters = {}
  /\ Unescape \in [Letters \union {Separator} -> Letters]
  /\ NullText \notin Seq(Chars)

VARIABLES
  text,     (* the column's text, or NullText                              *)
  each,     (* characters of it written                                    *)
  lexer,    (* mode and the value of the literal as far as it was read     *)
  lit       (* where sql_varlena is, "idle" outside                        *)

literalVars == <<text, each, lexer, lit>>

(* A quote ends the literal unless another follows it.                     *)
Feed(l, c) ==
  CASE l.mode = "in" /\ c = Quote -> [l EXCEPT !.mode = "quoted"]
    [] l.mode = "in" /\ c = Backslash -> [l EXCEPT !.mode = "escaped"]
    [] l.mode = "in" /\ c \notin {Quote, Backslash} -> [l EXCEPT !.value = Append(@, c)]
    [] l.mode = "quoted" /\ c = Quote -> [mode |-> "in", value |-> Append(l.value, c)]
    [] l.mode = "quoted" /\ c # Quote -> [l EXCEPT !.mode = "ended"]
    [] l.mode = "escaped" ->
         [mode |-> "in",
          value |-> Append(l.value, IF c \in {Quote, Backslash} THEN c ELSE Unescape[c])]
    [] OTHER -> l

NotRead == [mode |-> "before", value |-> << >>]

LiteralInit == text = NullText /\ each = 0 /\ lexer = NotRead /\ lit = "idle"

(* sql_varlena is called for a text, or for a null column.                 *)
StartLiteral ==
  /\ lit = "idle" /\ lit' = "begin"
  /\ text' \in Seq(Chars) \union {NullText}
  /\ each' = 0 /\ lexer' = NotRead

WriteNull ==
  /\ lit = "begin" /\ text = NullText
  /\ lexer' = [lexer EXCEPT !.mode = "null"]
  /\ lit' = "end"
  /\ UNCHANGED <<text, each>>

Open ==
  /\ lit = "begin" /\ text # NullText
  /\ lexer' = [lexer EXCEPT !.mode = "in"]
  /\ lit' = "loop"
  /\ UNCHANGED <<text, each>>

AtChar == lit = "loop" /\ each < Len(text)
Current == text[each + 1]

(* Mutant: the backslash is left as it is.                                 *)
EscapeKept ==
  /\ AtChar /\ Current = Backslash
  /\ lexer' = Feed(lexer, Backslash)
  /\ each' = each + 1
  /\ UNCHANGED <<text, lit>>

Escape ==
  /\ AtChar /\ Current = Backslash
  /\ lexer' = Feed(Feed(lexer, Backslash), Backslash)
  /\ each' = each + 1
  /\ UNCHANGED <<text, lit>>

Double ==
  /\ AtChar /\ Current = Quote
  /\ lexer' = Feed(Feed(lexer, Quote), Quote)
  /\ each' = each + 1
  /\ UNCHANGED <<text, lit>>

Copy ==
  /\ AtChar /\ Current \notin {Quote, Backslash}
  /\ lexer' = Feed(lexer, Current)
  /\ each' = each + 1
  /\ UNCHANGED <<text, lit>>

(* The closing quote and what the caller prints next.                      *)
Close ==
  /\ lit = "loop" /\ each >= Len(text)
  /\ lexer' = Feed(Feed(lexer, Quote), Separator)
  /\ lit' = "end"
  /\ UNCHANGED <<text, each>>

LiteralStep == WriteNull \/ Open \/ Escape \/ Double \/ Copy \/ Close

(* It returns, and its locals are gone.                                    *)
EndLiteral ==
  /\ lit = "end" /\ lit' = "idle"
  /\ text' = NullText /\ each' = 0 /\ lexer' = NotRead

LiteralNext == StartLiteral \/ LiteralStep \/ EndLiteral

LiteralSpec == LiteralInit /\ [][LiteralNext]_literalVars

-----------------------------------------------------------------------------

ReadAs(t) ==
  IF t = NullText THEN [mode |-> "null", value |-> << >>]
                  ELSE [mode |-> "ended", value |-> t]

(* Whatever the text, the literal does not end before the text does, the   *)
(* session reads back the text character by character, and it is out of    *)
(* the literal when the caller goes on; a null is no literal.              *)
LiteralIsText ==
  /\ lit = "begin" => lexer = NotRead
  /\ lit = "loop" => lexer = [mode |-> "in", value |-> SubSeq(text, 1, each)]
  /\ lit = "end" => lexer = ReadAs(text)

=============================================================================
