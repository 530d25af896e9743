-------------------------------- MODULE Syntax --------------------------------
(***************************************************************************)
(* Reading programs: a text that somebody wrote, from a tree or by hand,   *)
(* may be edited and is then parsed.  The parser promises nothing about    *)
(* texts that are wrong but that the error points at the first token that  *)
(* cannot stand where it stands.                                           *)
(***************************************************************************)
EXTENDS Parser

CONSTANTS
  Programs,      \* syntax trees that are written down
  Texts,         \* texts by hand, as words
  Editable,      \* words of the texts that are edited
  EditWords,     \* the words that edits put in
  MaxEdits       \* bound on the edits of a text

VARIABLES
  origin,   \* the tree that the text was written from, as a set of at most one
  text,     \* the tokens
  left,     \* how often the text may still be edited
  result    \* what the parser made of it, as a set of at most one

vars == <<origin, text, left, result>>

Init ==
  /\ \/ \E p \in Programs : origin = {p} /\ text = Written(p) /\ left = 0
     \/ \E ws \in Texts    : origin = {} /\ text = Tokens(ws) /\ left = 0
     \/ \E ws \in Editable : origin = {} /\ text = Tokens(ws) /\ left = MaxEdits
  /\ result = {}

Without(ts, i)    == SubSeq(ts, 1, i - 1) \o SubSeq(ts, i + 1, Len(ts))
Replaced(ts, i, t) == [ts EXCEPT ![i] = t]
Inserted(ts, i, t) == SubSeq(ts, 1, i - 1) \o <<t>> \o SubSeq(ts, i, Len(ts))

(* The end of the text is not a token of it. *)
Edited(ts) ==
  LET places == 1 .. Len(ts) - 1
      words  == {Token(w) : w \in EditWords}
  IN  {Without(ts, i) : i \in places}
      \cup {Replaced(ts, i, t) : i \in places, t \in words}
      \cup {Inserted(ts, i, t) : i \in places, t \in words}

Edit ==
  /\ left > 0
  /\ result = {}
  /\ text' \in Edited(text)
  /\ left' = left - 1
  /\ UNCHANGED <<origin, result>>

Parse ==
  /\ result = {}
  /\ result' = {ParseProgram(text)}
  /\ UNCHANGED <<origin, text, left>>

Next == Edit \/ Parse

Spec == Init /\ [][Next]_vars

------------------------------------------------------------------------------
(***************************************************************************)
(* Properties.                                                             *)
(***************************************************************************)
Accepted(p) == [ok |-> TRUE, types |-> p.types, fns |-> p.fns]

(***************************************************************************)
(* What is written from a tree is read as that tree: precedence, the left  *)
(* association of operators, calls of calls, records against the braces of *)
(* a match, and what belongs to which declaration (parse_expr,             *)
(* parse_postfix_expr, looks_like_record_expr, parse_program).             *)
(***************************************************************************)
RoundTrip == \A p \in origin : \A r \in result : r = Accepted(p)

(***************************************************************************)
(* Every text that is accepted, whoever wrote it, reads the same again     *)
(* when it is written down from its tree: the parser makes no trees that   *)
(* no text stands for.                                                     *)
(***************************************************************************)
AcceptedTextsReparse ==
  \A r \in result : r.ok => ParseProgram(Written(r)) = r

(***************************************************************************)
(* Every name, number and operator of an accepted text is in its tree, in  *)
(* the same order: nothing is dropped, doubled or moved.                   *)
(***************************************************************************)
IsContent(t) == t.tag \in {"Ident", "Int", "_", "|", "true", "false"} \cup Words \cup DOMAIN Ops
Content(ts)  == SelectSeq(ts, IsContent)

NothingIsDropped ==
  \A r \in result : r.ok => Content(text) = Content(Written(r))

(***************************************************************************)
(* An error points at the first token that cannot stand where it stands:   *)
(* with another token there the parser would have got past it (the         *)
(* position of the bumped token in expect, expect_ident and                *)
(* parse_primary_expr, of the current one in parse_top_decl and            *)
(* parse_variant_list).                                                    *)
(***************************************************************************)
End         == Token("end")
Upto(k, t)  == SubSeq(text, 1, k - 1) \o IF t = End THEN <<End>> ELSE <<t, End>>
GetsPast(k, r) == r.ok \/ r.at > k

ErrorsPointAtTheCulprit ==
  \A r \in result : ~r.ok =>
    /\ r.at \in DOMAIN text
    /\ ~GetsPast(r.at, ParseProgram(text))
    /\ \E w \in Spellings \cup EditWords : GetsPast(r.at, ParseProgram(Upto(r.at, Token(w))))

=============================================================================
