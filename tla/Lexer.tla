-------------------------------- MODULE Lexer --------------------------------
(***************************************************************************)
(* The lexer of cino-syntax: tokenize reads a text from left to right, one *)
(* step for each turn of its loop and of the loops within, those of a      *)
(* comment, a name and a number.  A text is a sequence of characters.      *)
(* The model counts in characters where the code counts in bytes; what the *)
(* code reports, positions with their byte offset, line and column, is     *)
(* kept beside.                                                            *)
(***************************************************************************)
EXTENDS Integers, Sequences, FiniteSets

CONSTANTS
  Chars,       \* the characters that occur
  Texts,       \* texts to read
  NL,          \* the line feed
  Blanks,      \* white space, of any width, the line feed included
  Letters,     \* ASCII letters
  Digits,      \* ASCII digits
  Width,       \* bytes of each character
  Reserved,    \* tags of the words that are no names
  Fits(_)      \* whether the number a numeral stands for is an i64

Single     == {"(", ")", "{", "}", "[", "]", "<", ">", ",", ":", "|", ";", "+", "*", "/"}
MaybeArrow == {"=", "-"}       \* may be the first half of => or ->
ArrowOf(c) == IF c = "=" THEN "=>" ELSE "->"

ASSUME CharAssumption ==
  /\ NL \in Blanks
  /\ Blanks \cap (Letters \cup Digits \cup Single \cup MaybeArrow \cup {"_"}) = {}
  /\ (Single \cup MaybeArrow) \cap (Letters \cup Digits \cup {"_"}) = {}
  /\ Digits \cap (Letters \cup {"_"}) = {}

ASSUME TextAssumption == Texts \subseteq Seq(Chars)

VARIABLES
  text,      \* the input
  at,        \* cursor: the next character
  pos,       \* position: its byte offset, line and column
  from,      \* cursor where the token or comment that was begun last begins
  start,     \* position where it begins
  tokens,    \* tokens so far, each with its characters and positions
  status     \* the loop: "scanning", "comment", "word", "number"; or "done", "failed"

vars == <<text, at, pos, from, start, tokens, status>>

Start == [offset |-> 0, line |-> 1, column |-> 1]

Init ==
  /\ text \in Texts
  /\ at = 1 /\ from = 1
  /\ pos = Start /\ start = Start
  /\ tokens = <<>>
  /\ status = "scanning"

IdentStart    == Letters \cup {"_"}
IdentContinue == IdentStart \cup Digits

More      == at <= Len(text)
Ch        == text[at]
NextIs(c) == at < Len(text) /\ text[at + 1] = c
Scanning  == status = "scanning" /\ More

(* bump_char. *)
BumpBytes(p, ch) ==
  IF ch = NL THEN [offset |-> p.offset + Width[ch], line |-> p.line + 1, column |-> 1]
  ELSE [p EXCEPT !.offset = @ + Width[ch], !.column = @ + Width[ch]]
BumpChar(p, ch) ==
  IF ch = NL THEN [offset |-> p.offset + Width[ch], line |-> p.line + 1, column |-> 1]
  ELSE [p EXCEPT !.offset = @ + Width[ch], !.column = @ + 1]

Bump == at' = at + 1 /\ pos' = BumpChar(pos, Ch)
Stay == UNCHANGED <<at, pos>>

(* Remembers where a token begins; makes one of what was read since. *)
GoOn      == UNCHANGED <<from, start>>
Begin     == from' = at /\ start' = pos
Emit(tag) ==
  tokens' = Append(tokens, [tag |-> tag, from |-> from', to |-> at',
                            start |-> start', end |-> pos'])
NoToken   == UNCHANGED tokens
Goto(s)   == status' = s /\ UNCHANGED text

------------------------------------------------------------------------------
SkipBlank == Scanning /\ Ch \in Blanks /\ Bump /\ GoOn /\ NoToken /\ Goto("scanning")

(* A comment takes its line feed with it, if it has one. *)
NoComments    == FALSE
CommentStarts == Ch = "/" /\ NextIs("/")

BeginComment == Scanning /\ CommentStarts /\ Begin /\ Stay /\ NoToken /\ Goto("comment")

ReadComment ==
  /\ status = "comment" /\ More
  /\ Bump /\ GoOn /\ NoToken
  /\ Goto(IF Ch = NL THEN "scanning" ELSE "comment")

LeaveComment   == status = "comment" /\ Stay /\ GoOn /\ NoToken /\ Goto("scanning")
OnlyAtLineFeed == LeaveComment /\ More /\ Ch = NL
EndComment     == LeaveComment /\ ~More

Punctuation ==
  /\ Scanning /\ Ch \in Single /\ ~CommentStarts
  /\ Begin /\ Bump /\ Emit(Ch) /\ Goto("scanning")

Arrow ==
  /\ Scanning /\ Ch \in MaybeArrow
  /\ Begin
  /\ \/ ~NextIs(">") /\ Bump /\ Emit(Ch)
     \/ NextIs(">") /\ at' = at + 2 /\ pos' = BumpChar(BumpChar(pos, Ch), ">") /\ Emit(ArrowOf(Ch))
  /\ Goto("scanning")

(* The characters since the token began. *)
Read == SubSeq(text, from, at - 1)

WordTag(w) == IF w \in DOMAIN Reserved THEN Reserved[w] ELSE "Ident"

LettersGoOn == More /\ Ch \in IdentStart
WordGoesOn  == More /\ Ch \in IdentContinue

BeginWord == Scanning /\ Ch \in IdentStart /\ Begin /\ Stay /\ NoToken /\ Goto("word")
ReadWord  == status = "word" /\ WordGoesOn /\ Bump /\ GoOn /\ NoToken /\ Goto("word")
EndWord   ==
  status = "word" /\ ~WordGoesOn /\ Stay /\ GoOn /\ Emit(WordTag(Read)) /\ Goto("scanning")

NumberGoesOn == More /\ Ch \in Digits

BeginNumber == Scanning /\ Ch \in Digits /\ Begin /\ Stay /\ NoToken /\ Goto("number")
ReadNumber  == status = "number" /\ NumberGoesOn /\ Bump /\ GoOn /\ NoToken /\ Goto("number")

EndNumberOfAnySize ==
  status = "number" /\ ~NumberGoesOn /\ Stay /\ GoOn /\ Emit("Int") /\ Goto("scanning")
EndNumber ==
  /\ status = "number" /\ ~NumberGoesOn
  /\ Stay /\ GoOn
  /\ \/ Fits(Read) /\ Emit("Int") /\ Goto("scanning")
     \/ ~Fits(Read) /\ NoToken /\ Goto("failed")

(* ParseError, with the position of the character; for a number, of its first. *)
Unexpected ==
  /\ Scanning
  /\ Ch \notin Blanks \cup Single \cup MaybeArrow \cup IdentContinue
  /\ Begin /\ Stay /\ NoToken /\ Goto("failed")

AtEnd == status = "scanning" /\ ~More /\ Begin /\ Stay /\ Emit("end") /\ Goto("done")

Next ==
  \/ SkipBlank \/ BeginComment \/ ReadComment \/ EndComment
  \/ Punctuation \/ Arrow
  \/ BeginWord \/ ReadWord \/ EndWord
  \/ BeginNumber \/ ReadNumber \/ EndNumber
  \/ Unexpected \/ AtEnd

Spec == Init /\ [][Next]_vars /\ WF_vars(Next)

------------------------------------------------------------------------------
(***************************************************************************)
(* Properties.                                                             *)
(***************************************************************************)

(* Up to here the text is done with; what was begun there is not over. *)
Behind == IF status \in {"word", "number", "failed"} THEN from ELSE at

(***************************************************************************)
(* What the lexer knows of its place: the tokens lie one after another in  *)
(* the part of the text that it is done with.                              *)
(***************************************************************************)
TypeOK ==
  /\ status \in {"scanning", "comment", "word", "number", "done", "failed"}
  /\ at \in 1 .. Len(text) + 1
  /\ from \in 1 .. at
  /\ \A n \in DOMAIN tokens :
       /\ tokens[n].from \in 1 .. Behind
       /\ tokens[n].to \in tokens[n].from .. Behind
       /\ tokens[n].to = tokens[n].from => tokens[n].tag = "end"
       /\ \A m \in 1 .. n - 1 : tokens[m].to <= tokens[n].from

(***************************************************************************)
(* The characters that are in no token are the white space and those from  *)
(* two slashes to the end of the line: no character of the code is lost    *)
(* and none of a comment is read (tokenize).                               *)
(***************************************************************************)
LineFrom(i, to) == \A k \in i .. to - 1 : text[k] # NL
CommentAt(k) == k < Len(text) /\ text[k] = "/" /\ text[k + 1] = "/"
InComment(i) == \E k \in 1 .. i : CommentAt(k) /\ LineFrom(k, i)
Skipped(i)   == text[i] \in Blanks \/ InComment(i)
InToken(i)   == \E n \in DOMAIN tokens : tokens[n].from <= i /\ i < tokens[n].to

TokensCoverTheCode == \A i \in 1 .. Behind - 1 : InToken(i) <=> ~Skipped(i)

(***************************************************************************)
(* No token goes on into the next, wherever the loops that read it came    *)
(* to their end: a name is followed by no letter or digit, a number by no  *)
(* digit, `=` and `-` by no `>` (lex_ident_or_keyword, lex_int).           *)
(***************************************************************************)
GoesOn(t, ch) ==
  CASE text[t.from] \in IdentStart -> ch \in IdentContinue
    [] text[t.from] \in Digits     -> ch \in Digits
    [] OTHER -> t.tag \in MaybeArrow /\ ch = ">"

TokensAreMaximal ==
  \A n \in DOMAIN tokens :
    tokens[n].tag # "end" /\ tokens[n].to <= Len(text) => ~GoesOn(tokens[n], text[tokens[n].to])

(***************************************************************************)
(* The positions are those of an editor: bytes before, line feeds before,  *)
(* characters since the last line feed (bump_char); also the position of   *)
(* what was begun last, with which an error is reported.                   *)
(***************************************************************************)
LineFeeds(i) == {k \in 1 .. i - 1 : text[k] = NL}
LastFeed(i)  == IF LineFeeds(i) = {} THEN 0 ELSE CHOOSE k \in LineFeeds(i) : \A j \in LineFeeds(i) : j <= k
BytesBefore[i \in 1 .. Len(text) + 1] ==
  IF i = 1 THEN 0 ELSE BytesBefore[i - 1] + Width[text[i - 1]]

IsPosition(p, i) ==
  p = [offset |-> BytesBefore[i], line |-> 1 + Cardinality(LineFeeds(i)), column |-> i - LastFeed(i)]

PositionsAreRight ==
  /\ IsPosition(pos, at) /\ IsPosition(start, from)
  /\ \A n \in DOMAIN tokens : /\ IsPosition(tokens[n].start, tokens[n].from)
                              /\ IsPosition(tokens[n].end, tokens[n].to)

(***************************************************************************)
(* A text is refused at its first character that no token starts with or   *)
(* its first number that is too large, and for nothing else.               *)
(***************************************************************************)
Numeral(i, j) ==
  /\ i > 1 => text[i - 1] \notin IdentContinue
  /\ \A k \in i .. j : text[k] \in Digits
  /\ j < Len(text) => text[j + 1] \notin Digits

Culprit(i) ==
  /\ ~Skipped(i)
  /\ \/ text[i] \notin Single \cup MaybeArrow \cup IdentContinue
     \/ \E j \in i .. Len(text) : Numeral(i, j) /\ ~Fits(SubSeq(text, i, j))

RefusedAtTheFirstCulprit ==
  /\ status = "failed" => Culprit(from)
  /\ \A i \in 1 .. Behind - 1 : ~Culprit(i)

(* Every text is read to its end or refused (tokenize returns). *)
EveryTextIsRead == <>(status \in {"done", "failed"})

=============================================================================
