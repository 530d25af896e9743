-------------------------------- MODULE MCLexer --------------------------------
(***************************************************************************)
(* Lexer on all short texts: four characters of any kind, and six of the   *)
(* kinds that comments, positions and numbers are about.                   *)
(***************************************************************************)
EXTENDS Lexer, SequencesExt, TLC

CONSTANTS MaxAny, MaxFew    \* bounds on the length of the texts

(* "wide" is white space of three bytes, "alien" a letter of two. *)
MCBlanks  == {"sp", "nl", "wide"}
MCLetters == {"i", "f"}
MCDigits  == {"1", "9"}
MCChars   == MCBlanks \cup MCLetters \cup MCDigits \cup {"_", "/", "=", "-", ">", "{", "alien"}
FewChars  == {"/", "nl", "i", "9", "alien"}
MCWidth   == [c \in MCChars |-> CASE c = "wide" -> 3 [] c = "alien" -> 2 [] OTHER -> 1]

MCTexts == BoundedSeq(MCChars, MaxAny) \cup BoundedSeq(FewChars, MaxFew)

MCReserved == (<<"_">> :> "_") @@ (<<"i", "f">> :> "if")

(* Numbers up to 19 fit. *)
DigitValue == [d \in MCDigits |-> IF d = "1" THEN 1 ELSE 9]
MCFits(w)  == FoldLeft(LAMBDA n, d : 10 * n + DigitValue[d], 0, w) <= 19

=============================================================================
