----------------------------- MODULE ToastStore -----------------------------
(***************************************************************************)
(* What the dump relies on when it asks for out-of-line values of a file   *)
(* that may be damaged.  A file without damage is loaded.  After that      *)
(* every question is answered, unless the program ends over a damaged      *)
(* value; an intact value is answered by its own text and by nothing else, *)
(* except that a text that may be taken for corrupted data is refused; and *)
(* only having asked for a damaged value takes these promises away.        *)
(***************************************************************************)

CONSTANTS
  NoReply,      (* the question is open                                    *)
  Refusal,      (* the exception                                           *)
  Reply(_),     (* the answer that carries a text                          *)
  Stored,       (* texts by value id                                       *)
  Ambiguous(_), (* texts that may be taken for corrupted data              *)
  Kept(_),      (* ids of which something is left in a file                *)
  Whole(_, _),  (* a file holds everything of an id                        *)
  Sound(_)      (* nothing of a file is damaged                            *)

VARIABLES
  file,     (* the file                                                    *)
  stage,    (* "loading", "serving" or "ended"                             *)
  trusted,  (* the stream has not failed                                   *)
  asked,    (* the value id last asked for                                 *)
  open,     (* the question has not been answered yet                      *)
  reply     (* the last answer                                             *)

storeVars == <<file, stage, trusted, asked, open, reply>>

StoreInit == stage = "loading" /\ trusted = TRUE /\ open = FALSE /\ reply = NoReply

Load ==
  /\ stage = "loading"
  /\ stage' = "serving" \/ (stage' = "ended" /\ ~ Sound(file))
  /\ UNCHANGED <<file, trusted, asked, open, reply>>

LoseTrust ==
  /\ trusted /\ trusted' = FALSE
  /\ IF stage = "loading" THEN ~ Sound(file) ELSE open /\ ~ Whole(file, asked)
  /\ UNCHANGED <<file, stage, asked, open, reply>>

Promised(id) == trusted /\ Whole(file, id)

(* As long as nothing was lost only an id of the file is looked up.        *)
Ask ==
  /\ stage = "serving" /\ ~ open
  /\ open' = TRUE /\ reply' = NoReply
  /\ trusted => asked' \in Kept(file)
  /\ UNCHANGED <<file, stage, trusted>>

AskUnknown ==
  /\ stage = "serving" /\ ~ open
  /\ reply' = Refusal
  /\ ~ Promised(asked')
  /\ UNCHANGED <<file, stage, trusted, open>>

(* A refusal and a wrong answer are both open to what is not promised.     *)
Answer ==
  /\ open /\ open' = FALSE
  /\ Promised(asked) =>
       \/ reply' = Reply(Stored[asked])
       \/ Ambiguous(Stored[asked]) /\ reply' = Refusal
  /\ UNCHANGED <<file, stage, trusted, asked>>

Crash ==
  /\ open /\ open' = FALSE /\ stage' = "ended"
  /\ ~ Promised(asked)
  /\ UNCHANGED <<file, trusted, asked, reply>>

StoreNext == Load \/ LoseTrust \/ Ask \/ AskUnknown \/ Answer \/ Crash

StoreSafety == StoreInit /\ [][StoreNext]_storeVars

(* Loading ends, and no question stays open.                               *)
StoreLiveness ==
  /\ (stage = "loading") ~> (stage # "loading")
  /\ open ~> ~ open

=============================================================================
