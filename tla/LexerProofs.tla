----------------------------- MODULE LexerProofs -----------------------------
(***************************************************************************)
(* The lexer on every text over every alphabet: its tokens are the code    *)
(* and nothing but the code, each as long as it can be, and it refuses a   *)
(* text for its first culprit and for nothing else.                        *)
(***************************************************************************)
EXTENDS Lexer, TLAPS, SequenceTheorems, FiniteSetTheorems, NaturalsInduction

(* No comment that is over goes on at the place up to which the text is done with. *)
Closed ==
  status # "comment" /\ Behind <= Len(text) =>
    \A k \in 1 .. Behind - 1 : CommentAt(k) => ~LineFrom(k, Behind)

(* That place is never in the middle of a number or of a name's digits. *)
Apart ==
  status # "comment" /\ 1 < Behind /\ Behind <= Len(text) /\ text[Behind] \in Digits =>
    text[Behind - 1] \notin IdentContinue

(* What the inner loops have read so far. *)
InTheLoop(class) == from <= Len(text) /\ \A i \in from .. at - 1 : text[i] \in class

UnderWay ==
  /\ status = "comment" => CommentAt(from) /\ LineFrom(from, at)
  /\ status = "word" => text[from] \in IdentStart /\ InTheLoop(IdentContinue)
  /\ status = "number" => text[from] \in Digits /\ InTheLoop(Digits)

Sequences == text \in Seq(Chars) /\ tokens \in Seq(Range(tokens))

IInv ==
  /\ Sequences
  /\ TypeOK
  /\ TokensCoverTheCode
  /\ TokensAreMaximal
  /\ RefusedAtTheFirstCulprit
  /\ Closed
  /\ Apart
  /\ UnderWay

------------------------------------------------------------------------------
(* What a token more does to the sequence of tokens. *)
LEMMA OneMore ==
  ASSUME NEW s, NEW e, s \in Seq(Range(s))
  PROVE  /\ Append(s, e) \in Seq(Range(Append(s, e)))
         /\ DOMAIN s = 1 .. Len(s) /\ Len(s) \in Nat
         /\ DOMAIN Append(s, e) = 1 .. Len(s) + 1
         /\ \A n \in DOMAIN s : Append(s, e)[n] = s[n]
         /\ Append(s, e)[Len(s) + 1] = e
<1> DEFINE S == Range(s) \cup {e}
<1>1. s \in Seq(S)
  <2>1. DOMAIN s = 1 .. Len(s) /\ Len(s) \in Nat
    BY LenProperties
  <2>2. \A n \in 1 .. Len(s) : s[n] \in S
    BY <2>1 DEF Range
  <2> QED
    BY <2>1, <2>2, SeqDef
<1>2. /\ Append(s, e) \in Seq(S)
      /\ Len(Append(s, e)) = Len(s) + 1
      /\ \A i \in 1 .. Len(s) : Append(s, e)[i] = s[i]
      /\ Append(s, e)[Len(s) + 1] = e
  BY <1>1, AppendProperties
<1>3. /\ DOMAIN s = 1 .. Len(s) /\ Len(s) \in Nat
      /\ DOMAIN Append(s, e) = 1 .. Len(Append(s, e)) /\ Len(Append(s, e)) \in Nat
  BY <1>1, <1>2, LenProperties
<1>4. Append(s, e) \in Seq(Range(Append(s, e)))
  <2> DEFINE t == Append(s, e)
  <2>1. \A n \in 1 .. Len(t) : t[n] \in Range(t)
    BY <1>3 DEF Range
  <2>2. t = [n \in 1 .. Len(t) |-> t[n]]
    BY <1>2, LenProperties
  <2> HIDE DEF t
  <2>3. t \in Seq(Range(t))
    BY <2>1, <2>2, <1>3, SeqDef DEF t
  <2> QED
    BY <2>3 DEF t
<1> QED
  BY <1>2, <1>3, <1>4

(* Where the lexer is, said once for the steps below. *)
LEMMA Place ==
  ASSUME IInv
  PROVE  /\ Len(text) \in Nat /\ at \in 1 .. Len(text) + 1 /\ from \in 1 .. at
         /\ Behind \in 1 .. at /\ Behind \in Nat
         /\ status \in {"scanning", "comment", "done"} => Behind = at
         /\ status \in {"word", "number", "failed"} => Behind = from
BY LenProperties DEF IInv, Sequences, TypeOK, Behind

(* What is said of the text alone stays as the text does. *)
LEMMA SameText ==
  ASSUME text' = text
  PROVE  /\ \A i : CommentAt(i)' <=> CommentAt(i)
         /\ \A i, j : LineFrom(i, j)' <=> LineFrom(i, j)
         /\ \A i : Skipped(i)' <=> Skipped(i)
         /\ \A i : Culprit(i)' <=> Culprit(i)
         /\ \A u, ch : GoesOn(u, ch)' <=> GoesOn(u, ch)
BY DEF CommentAt, LineFrom, Skipped, InComment, Culprit, Numeral, GoesOn

(* Beyond what is done with there is no comment but one that begins there. *)
LEMMA CodeIsNotSkipped ==
  ASSUME IInv, status # "comment",
         NEW i \in Behind .. Len(text),
         text[i] \notin Blanks,
         \A k \in Behind .. i : ~CommentAt(k)
  PROVE  ~Skipped(i)
<1>1. Len(text) \in Nat /\ Behind \in Nat /\ Behind \in 1 .. at
  BY Place
<1>2. SUFFICES ASSUME NEW k \in 1 .. i, CommentAt(k), LineFrom(k, i)
               PROVE  FALSE
  BY DEF Skipped, InComment
<1>3. k \in 1 .. Behind - 1 /\ Behind <= Len(text)
  BY <1>1, <1>2
<1>4. LineFrom(k, Behind)
  BY <1>1, <1>2, <1>3 DEF LineFrom
<1> QED
  BY <1>2, <1>3, <1>4 DEF IInv, Closed

(* A step that is done with nothing more leaves everything right. *)
LEMMA Standing ==
  ASSUME IInv, text' = text, tokens' = tokens, Behind' = Behind,
         at' \in 1 .. Len(text) + 1, from' \in 1 .. at',
         status' \in {"scanning", "comment", "word", "number", "done", "failed"},
         status' = "failed" => Culprit(from'),
         status = "comment" => status' = "comment" \/ ~(Behind <= Len(text)),
         UnderWay'
  PROVE  IInv'
<1>1. Len(text) \in Nat /\ Behind \in Nat
  BY Place
<1>2. Sequences'
  BY DEF IInv, Sequences, Range
<1>3. TypeOK'
  BY DEF IInv, TypeOK
<1>4. TokensCoverTheCode'
  BY SameText DEF IInv, TokensCoverTheCode, InToken
<1>5. TokensAreMaximal'
  BY SameText DEF IInv, TokensAreMaximal
<1>6. RefusedAtTheFirstCulprit'
  BY SameText DEF IInv, RefusedAtTheFirstCulprit
<1>7. Closed'
  BY SameText DEF IInv, Closed
<1>8. Apart'
  BY DEF IInv, Apart
<1> QED
  BY <1>2, <1>3, <1>4, <1>5, <1>6, <1>7, <1>8 DEF IInv

(* So does one that leaves out a character that may be left out. *)
LEMMA Passing ==
  ASSUME IInv, text' = text, tokens' = tokens, Behind = at, Behind' = at + 1,
         at <= Len(text), at' = at + 1, from' = from,
         status' \in {"scanning", "comment"},
         Skipped(at),
         status' # "comment" /\ at + 1 <= Len(text) =>
           /\ \A k \in 1 .. at : CommentAt(k) => ~LineFrom(k, at + 1)
           /\ text[at] \notin IdentContinue,
         UnderWay'
  PROVE  IInv'
<1>1. Len(text) \in Nat /\ at \in 1 .. Len(text) /\ from \in 1 .. at
  BY Place
<1>2. Len(tokens) \in Nat /\ DOMAIN tokens = 1 .. Len(tokens)
  BY LenProperties DEF IInv, Sequences
<1>3. Sequences'
  BY DEF IInv, Sequences, Range
<1>4. TypeOK'
  <2>1. \A n \in DOMAIN tokens : /\ tokens[n].from \in 1 .. at + 1
                                 /\ tokens[n].to \in tokens[n].from .. at + 1
    BY <1>1 DEF IInv, TypeOK
  <2> QED
    BY <1>1, <2>1 DEF IInv, TypeOK
<1>5. TokensCoverTheCode'
  <2>1. ~InToken(at)
    BY <1>1 DEF InToken, IInv, TypeOK
  <2>2. \A i : InToken(i)' <=> InToken(i)
    BY DEF InToken
  <2>3. \A i \in 1 .. (at + 1) - 1 : i \in 1 .. at - 1 \/ i = at
    BY <1>1
  <2> QED
    BY <2>1, <2>2, <2>3, SameText DEF IInv, TokensCoverTheCode
<1>6. TokensAreMaximal'
  BY SameText DEF IInv, TokensAreMaximal
<1>7. RefusedAtTheFirstCulprit'
  <2>1. ~Culprit(at)
    BY DEF Culprit
  <2>2. \A i \in 1 .. (at + 1) - 1 : i \in 1 .. at - 1 \/ i = at
    BY <1>1
  <2> QED
    BY <2>1, <2>2, SameText DEF IInv, RefusedAtTheFirstCulprit
<1>8. Closed' /\ Apart'
  <2>1. (at + 1) - 1 = at
    BY <1>1
  <2> QED
    BY <2>1, SameText DEF Closed, Apart
<1> QED
  BY <1>3, <1>4, <1>5, <1>6, <1>7, <1>8 DEF IInv

(* And a token that is code, goes on no further and hides no culprit. *)
LEMMA EmitKeeps ==
  ASSUME IInv, status # "comment", text' = text, status' = "scanning",
         NEW to \in Behind + 1 .. Len(text) + 1,
         at' = to, from' = Behind,
         NEW t, tokens' = Append(tokens, t), t.from = Behind, t.to = to,
         \A i \in Behind .. to - 1 : text[i] \notin Blanks /\ ~CommentAt(i) /\ ~Culprit(i),
         to <= Len(text) => ~GoesOn(t, text[to]),
         to <= Len(text) /\ text[to] \in Digits => text[to - 1] \notin IdentContinue
  PROVE  IInv'
<1>1. Len(text) \in Nat /\ Behind \in Nat /\ Behind >= 1 /\ to \in Nat /\ Behind' = to
  BY Place DEF Behind
<1>2. /\ tokens' \in Seq(Range(tokens'))
      /\ DOMAIN tokens = 1 .. Len(tokens) /\ Len(tokens) \in Nat
      /\ DOMAIN tokens' = 1 .. Len(tokens) + 1
      /\ \A n \in DOMAIN tokens : tokens'[n] = tokens[n]
      /\ tokens'[Len(tokens) + 1] = t
  BY OneMore DEF IInv, Sequences
<1>3. Sequences'
  BY <1>2 DEF IInv, Sequences, Range
<1>4. TypeOK'
  <2>1. ASSUME NEW n \in DOMAIN tokens'
        PROVE  /\ tokens'[n].from \in 1 .. to
               /\ tokens'[n].to \in tokens'[n].from .. to
               /\ tokens'[n].to = tokens'[n].from => tokens'[n].tag = "end"
               /\ \A m \in 1 .. n - 1 : tokens'[m].to <= tokens'[n].from
    <3>1. CASE n \in DOMAIN tokens
      BY <1>1, <1>2, <3>1 DEF IInv, TypeOK
    <3>2. CASE n = Len(tokens) + 1
      <4>1. tokens'[n].from = Behind /\ tokens'[n].to = to
        BY <1>2, <3>2
      <4>2. \A m \in 1 .. n - 1 : tokens'[m].to <= Behind
        <5>1. \A m \in DOMAIN tokens : tokens[m].to <= Behind
          BY <1>1 DEF IInv, TypeOK
        <5> QED
          BY <1>2, <3>2, <5>1
      <4> QED
        BY <1>1, <4>1, <4>2
    <3> QED
      BY <1>2, <3>1, <3>2
  <2> QED
    BY <1>1, <2>1 DEF TypeOK
<1>5. TokensCoverTheCode'
  <2>1. \A i \in 1 .. Behind - 1 : InToken(i)' <=> InToken(i)
    BY <1>1, <1>2 DEF InToken
  <2>2. \A i \in Behind .. to - 1 : InToken(i)'
    <3>1. Len(tokens) + 1 \in DOMAIN tokens'
      BY <1>2
    <3> QED
      BY <1>1, <1>2, <3>1 DEF InToken
  <2>3. \A i \in Behind .. to - 1 : ~Skipped(i)
    BY <1>1, CodeIsNotSkipped
  <2>4. \A i \in 1 .. to - 1 : i \in 1 .. Behind - 1 \/ i \in Behind .. to - 1
    BY <1>1
  <2> QED
    BY <1>1, <2>1, <2>2, <2>3, <2>4, SameText DEF IInv, TokensCoverTheCode
<1>6. TokensAreMaximal'
  BY <1>2, SameText DEF IInv, TokensAreMaximal
<1>7. RefusedAtTheFirstCulprit'
  <2>1. \A i \in 1 .. to - 1 : i \in 1 .. Behind - 1 \/ i \in Behind .. to - 1
    BY <1>1
  <2> QED
    BY <1>1, <2>1, SameText DEF IInv, RefusedAtTheFirstCulprit
<1>8. Closed'
  <2>1. \A k \in 1 .. Behind - 1 : CommentAt(k) /\ LineFrom(k, to) => LineFrom(k, Behind)
    BY <1>1 DEF LineFrom
  <2>2. \A k \in 1 .. to - 1 : k \in 1 .. Behind - 1 \/ k \in Behind .. to - 1
    BY <1>1
  <2>3. Behind <= Len(text) \/ ~(to <= Len(text))
    BY <1>1
  <2> QED
    BY <1>1, <2>1, <2>2, <2>3, SameText DEF IInv, Closed
<1>9. Apart' /\ UnderWay'
  BY <1>1 DEF Apart, UnderWay
<1> QED
  BY <1>3, <1>4, <1>5, <1>6, <1>7, <1>8, <1>9 DEF IInv

------------------------------------------------------------------------------
(* A character that is of the code and no digit begins no culprit. *)
LEMMA NoDigitNoCulprit ==
  ASSUME NEW i \in Nat,
         text[i] \in Single \cup MaybeArrow \cup IdentContinue,
         text[i] \notin Digits \/ (i > 1 /\ text[i - 1] \in IdentContinue)
  PROVE  ~Culprit(i)
BY DEF Culprit, Numeral

LEMMA BlankStep == ASSUME IInv, SkipBlank PROVE IInv'
<1>1. /\ text' = text /\ tokens' = tokens /\ at' = at + 1 /\ from' = from
      /\ status = "scanning" /\ status' = "scanning" /\ at <= Len(text) /\ text[at] \in Blanks
  BY DEF SkipBlank, Scanning, More, Ch, Bump, GoOn, NoToken, Goto
<1>2. Len(text) \in Nat /\ at \in 1 .. Len(text) /\ Behind = at /\ Behind' = at + 1
  BY <1>1, Place DEF Behind
<1>3. ~CommentAt(at) /\ text[at] \notin IdentContinue
  BY <1>1, CharAssumption DEF CommentAt, Single, IdentContinue, IdentStart
<1>4. ASSUME NEW k \in 1 .. at, CommentAt(k)
      PROVE  ~LineFrom(k, at + 1)
  <2>1. k \in 1 .. at - 1
    BY <1>2, <1>3, <1>4
  <2>2. ~LineFrom(k, at)
    BY <1>1, <1>2, <1>4, <2>1 DEF IInv, Closed
  <2> QED
    BY <1>2, <2>1, <2>2 DEF LineFrom
<1>5. Skipped(at) /\ UnderWay'
  BY <1>1 DEF Skipped, UnderWay
<1> QED
  BY <1>1, <1>2, <1>3, <1>4, <1>5, Passing

LEMMA CommentBegins == ASSUME IInv, BeginComment PROVE IInv'
<1>1. /\ text' = text /\ tokens' = tokens /\ at' = at /\ from' = at
      /\ status = "scanning" /\ status' = "comment" /\ at <= Len(text) /\ CommentAt(at)
  BY DEF BeginComment, CommentStarts, Scanning, More, Ch, NextIs, CommentAt, Begin, Stay, NoToken,
     Goto
<1>2. Len(text) \in Nat /\ at \in 1 .. Len(text) + 1 /\ Behind' = Behind
  BY <1>1, Place DEF Behind
<1>3. UnderWay'
  BY <1>1, <1>2, SameText DEF UnderWay, LineFrom
<1> QED
  BY <1>1, <1>2, <1>3, Standing

LEMMA CommentGoesOn == ASSUME IInv, ReadComment PROVE IInv'
<1>1. /\ text' = text /\ tokens' = tokens /\ at' = at + 1 /\ from' = from
      /\ status = "comment" /\ at <= Len(text)
      /\ status' = IF text[at] = NL THEN "scanning" ELSE "comment"
  BY DEF ReadComment, More, Ch, Bump, GoOn, NoToken, Goto
<1>2. /\ Len(text) \in Nat /\ at \in 1 .. Len(text) /\ from \in 1 .. at
      /\ Behind = at /\ Behind' = at + 1
  BY <1>1, Place DEF Behind
<1>3. CommentAt(from) /\ LineFrom(from, at)
  BY <1>1 DEF IInv, UnderWay
<1>4. Skipped(at)
  BY <1>2, <1>3 DEF Skipped, InComment
<1>5. CASE text[at] = NL
  <2>1. \A k \in 1 .. at : ~LineFrom(k, at + 1)
    BY <1>2, <1>5 DEF LineFrom
  <2>2. text[at] \notin IdentContinue
    BY <1>5, CharAssumption DEF IdentContinue, IdentStart
  <2>3. UnderWay'
    BY <1>1, <1>5 DEF UnderWay
  <2> QED
    BY <1>1, <1>2, <1>4, <1>5, <2>1, <2>2, <2>3, Passing
<1>6. CASE text[at] # NL
  <2>1. LineFrom(from, at + 1)
    BY <1>2, <1>3, <1>6 DEF LineFrom
  <2>2. UnderWay'
    BY <1>1, <1>3, <1>6, <2>1, SameText DEF UnderWay
  <2> QED
    BY <1>1, <1>2, <1>4, <1>6, <2>2, Passing
<1> QED
  BY <1>5, <1>6

LEMMA CommentEnds == ASSUME IInv, EndComment PROVE IInv'
<1>1. /\ text' = text /\ tokens' = tokens /\ at' = at /\ from' = from
      /\ status = "comment" /\ status' = "scanning" /\ ~(at <= Len(text))
  BY DEF EndComment, LeaveComment, More, Stay, GoOn, NoToken, Goto
<1>2. Behind = at /\ Behind' = at /\ at \in 1 .. Len(text) + 1 /\ from \in 1 .. at
  BY <1>1, Place DEF Behind
<1>3. UnderWay'
  BY <1>1 DEF UnderWay
<1> QED
  BY <1>1, <1>2, <1>3, Standing

LEMMA PunctuationStep == ASSUME IInv, Punctuation PROVE IInv'
<1> DEFINE t == [tag |-> text[at], from |-> at, to |-> at + 1, start |-> pos, end |-> pos']
<1>1. /\ text' = text /\ at' = at + 1 /\ from' = at /\ status = "scanning" /\ status' = "scanning"
      /\ at <= Len(text) /\ text[at] \in Single /\ ~CommentAt(at)
      /\ tokens' = Append(tokens, t)
  BY DEF Punctuation, CommentStarts, NextIs, CommentAt, Scanning, More, Ch, Begin, Bump, Emit, Goto
<1>2. Len(text) \in Nat /\ at \in 1 .. Len(text) /\ Behind = at
  BY <1>1, Place
<1>3. text[at] \notin Blanks \cup IdentContinue \cup Digits
  BY <1>1, CharAssumption DEF IdentContinue, IdentStart
<1>4. ~Culprit(at)
  BY <1>1, <1>2, <1>3, NoDigitNoCulprit
<1>5. t.tag = text[at] /\ t.from = at /\ t.to = at + 1
  OBVIOUS
<1> HIDE DEF t
<1>6. ~GoesOn(t, text[at + 1])
  BY <1>1, <1>3, <1>5 DEF GoesOn, IdentContinue, MaybeArrow, Single
<1>7. (at + 1) - 1 = at /\ at + 1 \in at + 1 .. Len(text) + 1 /\ at .. at = {at}
  BY <1>2
<1> QED
  BY <1>1, <1>2, <1>3, <1>4, <1>5, <1>6, <1>7, EmitKeeps

LEMMA ArrowStep == ASSUME IInv, Arrow PROVE IInv'
<1> DEFINE u(tag, to) == [tag |-> tag, from |-> at, to |-> to, start |-> pos, end |-> pos']
<1>1. /\ text' = text /\ from' = at /\ status = "scanning" /\ status' = "scanning"
      /\ at <= Len(text) /\ text[at] \in MaybeArrow
  BY DEF Arrow, Scanning, More, Ch, Begin, Goto
<1>2. Len(text) \in Nat /\ at \in 1 .. Len(text) /\ Behind = at
  BY <1>1, Place
<1>3. text[at] \notin Blanks \cup IdentContinue \cup Digits /\ ~CommentAt(at)
  BY <1>1, CharAssumption DEF IdentContinue, IdentStart, CommentAt, MaybeArrow
<1>4. ~Culprit(at)
  BY <1>1, <1>2, <1>3, NoDigitNoCulprit
<1>5. CASE NextIs(">")
  <2> DEFINE t == u(ArrowOf(text[at]), at + 2)
  <2>1. at < Len(text) /\ text[at + 1] = ">" /\ at' = at + 2 /\ tokens' = Append(tokens, t)
    BY <1>5 DEF Arrow, NextIs, Ch, Begin, Emit
  <2>2. text[at + 1] \in Single
    BY <2>1 DEF Single
  <2>3. text[at + 1] \notin Blanks \cup IdentContinue \cup Digits /\ ~CommentAt(at + 1)
    BY <2>1, <2>2, CharAssumption DEF IdentContinue, IdentStart, CommentAt
  <2>4. ~Culprit(at + 1)
    BY <1>2, <2>2, <2>3, NoDigitNoCulprit
  <2>5. t.tag \in {"=>", "->"} /\ t.from = at /\ t.to = at + 2
    BY DEF ArrowOf
  <2> HIDE DEF t
  <2>6. ~GoesOn(t, text[at + 2])
    BY <1>3, <2>5 DEF GoesOn, IdentContinue, MaybeArrow
  <2>7. (at + 2) - 1 = at + 1 /\ at + 2 \in at + 1 .. Len(text) + 1 /\ at .. at + 1 = {at, at + 1}
    BY <1>2, <2>1
  <2> QED
    BY <1>1, <1>2, <1>3, <1>4, <2>1, <2>3, <2>4, <2>5, <2>6, <2>7, EmitKeeps
<1>6. CASE ~NextIs(">")
  <2> DEFINE t == u(text[at], at + 1)
  <2>1. at' = at + 1 /\ tokens' = Append(tokens, t)
    BY <1>6 DEF Arrow, Ch, Begin, Bump, Emit
  <2>2. t.tag = text[at] /\ t.from = at /\ t.to = at + 1
    OBVIOUS
  <2> HIDE DEF t
  <2>3. at + 1 <= Len(text) => ~GoesOn(t, text[at + 1])
    BY <1>1, <1>2, <1>3, <1>6, <2>2 DEF GoesOn, IdentContinue, NextIs
  <2>4. (at + 1) - 1 = at /\ at + 1 \in at + 1 .. Len(text) + 1 /\ at .. at = {at}
    BY <1>2
  <2> QED
    BY <1>1, <1>2, <1>3, <1>4, <2>1, <2>2, <2>3, <2>4, EmitKeeps
<1> QED
  BY <1>5, <1>6

------------------------------------------------------------------------------
(* A token that is read by a loop: its begin. *)
LEMMA LoopBegins ==
  ASSUME IInv, Scanning, Begin, Stay, NoToken, NEW s, Goto(s),
         \/ s = "word" /\ Ch \in IdentStart
         \/ s = "number" /\ Ch \in Digits
  PROVE  IInv'
<1>1. /\ text' = text /\ tokens' = tokens /\ at' = at /\ from' = at
      /\ status = "scanning" /\ status' = s /\ at <= Len(text)
  BY DEF Scanning, More, Begin, Stay, NoToken, Goto
<1>2. /\ Len(text) \in Nat /\ at \in 1 .. Len(text) + 1
      /\ Behind = at /\ Behind' = at
  BY <1>1, Place DEF Behind
<1>3. UnderWay'
  BY <1>1, <1>2 DEF UnderWay, InTheLoop, Ch
<1> QED
  BY <1>1, <1>2, <1>3, Standing

(* One turn of it. *)
LEMMA LoopGoesOn ==
  ASSUME IInv, More, Bump, GoOn, NoToken, Goto(status),
         \/ status = "word" /\ Ch \in IdentContinue
         \/ status = "number" /\ Ch \in Digits
  PROVE  IInv'
<1>1. /\ text' = text /\ tokens' = tokens /\ at' = at + 1 /\ from' = from
      /\ status' = status /\ at <= Len(text)
  BY DEF More, Bump, GoOn, NoToken, Goto
<1>2. /\ Len(text) \in Nat /\ at \in 1 .. Len(text) /\ from \in 1 .. at
      /\ Behind = from /\ Behind' = from
  BY <1>1, Place DEF Behind
<1>3. \A i \in from .. (at + 1) - 1 : i \in from .. at - 1 \/ i = at
  BY <1>2
<1>4. UnderWay'
  BY <1>1, <1>2, <1>3 DEF IInv, UnderWay, InTheLoop, Ch
<1> QED
  BY <1>1, <1>2, <1>4, Standing

(* The loops take a character at least. *)
LEMMA LoopHasRead ==
  ASSUME IInv, \/ status = "word" /\ ~WordGoesOn
               \/ status = "number" /\ ~NumberGoesOn
  PROVE  /\ Len(text) \in Nat /\ from \in 1 .. Len(text) /\ at \in from + 1 .. Len(text) + 1
         /\ Behind = from
<1>1. /\ Len(text) \in Nat /\ at \in 1 .. Len(text) + 1 /\ from \in 1 .. at /\ Behind = from
      /\ from <= Len(text)
  BY Place DEF IInv, UnderWay, InTheLoop
<1>2. at # from
  BY <1>1 DEF IInv, UnderWay, WordGoesOn, NumberGoesOn, More, Ch, IdentContinue
<1> QED
  BY <1>1, <1>2

LEMMA WordEnds == ASSUME IInv, EndWord PROVE IInv'
<1> DEFINE t == [tag |-> WordTag(Read), from |-> from, to |-> at, start |-> start, end |-> pos]
<1>1. /\ text' = text /\ at' = at /\ from' = from /\ status = "word" /\ status' = "scanning"
      /\ ~WordGoesOn /\ tokens' = Append(tokens, t)
  BY DEF EndWord, Stay, GoOn, Emit, Goto
<1>2. /\ Len(text) \in Nat /\ from \in 1 .. Len(text) /\ at \in from + 1 .. Len(text) + 1
      /\ Behind = from
  BY <1>1, LoopHasRead
<1>3. /\ text[from] \in IdentStart
      /\ \A i \in from .. at - 1 : text[i] \in IdentContinue
      /\ at <= Len(text) => text[at] \notin IdentContinue
  BY <1>1 DEF IInv, UnderWay, InTheLoop, WordGoesOn, More, Ch
<1>4. \A i \in from .. at - 1 : text[i] \notin Blanks /\ ~CommentAt(i)
  BY <1>3, CharAssumption DEF IdentContinue, IdentStart, CommentAt, Single
<1>5. text[from] \notin Digits
  BY <1>3, CharAssumption DEF IdentStart
<1>6. ASSUME NEW i \in from .. at - 1
      PROVE  ~Culprit(i)
  <2>1. i \in Nat /\ text[i] \in IdentContinue
    BY <1>2, <1>3
  <2>2. i # from => i > 1 /\ i - 1 \in from .. at - 1
    BY <1>2
  <2> QED
    BY <1>3, <1>5, <2>1, <2>2, NoDigitNoCulprit
<1>7. t.from = from /\ t.to = at
  OBVIOUS
<1> HIDE DEF t
<1>8. at <= Len(text) => ~GoesOn(t, text[at])
  BY <1>3, <1>5, <1>7 DEF GoesOn
<1>9. at <= Len(text) => text[at] \notin Digits
  BY <1>3 DEF IdentContinue
<1> QED
  BY <1>1, <1>2, <1>4, <1>6, <1>7, <1>8, <1>9, EmitKeeps

(* A number that is too large is a culprit at its first digit. *)
LEMMA NumberEnds == ASSUME IInv, EndNumber PROVE IInv'
<1>1. /\ text' = text /\ at' = at /\ from' = from /\ status = "number" /\ ~NumberGoesOn
  BY DEF EndNumber, Stay, GoOn, Goto
<1>2. /\ Len(text) \in Nat /\ from \in 1 .. Len(text) /\ at \in from + 1 .. Len(text) + 1
      /\ Behind = from
  BY <1>1, LoopHasRead
<1>3. /\ text[from] \in Digits
      /\ \A i \in from .. at - 1 : text[i] \in Digits
      /\ at <= Len(text) => text[at] \notin Digits
  BY <1>1 DEF IInv, UnderWay, InTheLoop, NumberGoesOn, More, Ch
<1>4. \A i \in from .. at - 1 : text[i] \in IdentContinue /\ text[i] \notin Blanks /\ ~CommentAt(i)
  BY <1>3, CharAssumption DEF IdentContinue, CommentAt, Single
<1>5. CASE Fits(Read)
  <2> DEFINE t == [tag |-> "Int", from |-> from, to |-> at, start |-> start, end |-> pos]
  <2>1. tokens' = Append(tokens, t) /\ status' = "scanning"
    BY <1>1, <1>5 DEF EndNumber, Stay, GoOn, Emit, Goto
  <2>2. ASSUME NEW i \in from .. at - 1
        PROVE  ~Culprit(i)
    <3>1. CASE i = from
      <4>1. \A j \in from .. Len(text) : Numeral(from, j) => j = at - 1
        BY <1>2, <1>3 DEF Numeral
      <4>2. text[from] \in IdentContinue
        BY <1>2, <1>4
      <4> QED
        BY <1>2, <1>5, <3>1, <4>1, <4>2 DEF Culprit, Read
    <3>2. CASE i # from
      <4>1. i \in Nat /\ i > 1 /\ i - 1 \in from .. at - 1
        BY <1>2, <3>2
      <4> QED
        BY <1>4, <4>1, NoDigitNoCulprit
    <3> QED
      BY <3>1, <3>2
  <2>3. text[from] \notin IdentStart
    BY <1>3, CharAssumption DEF IdentStart
  <2>4. t.from = from /\ t.to = at
    OBVIOUS
  <2> HIDE DEF t
  <2>5. at <= Len(text) => ~GoesOn(t, text[at])
    BY <1>3, <2>3, <2>4 DEF GoesOn
  <2> QED
    BY <1>1, <1>2, <1>3, <1>4, <2>1, <2>2, <2>4, <2>5, EmitKeeps
<1>6. CASE ~Fits(Read)
  <2>1. tokens' = tokens /\ status' = "failed"
    BY <1>6 DEF EndNumber, NoToken, Goto
  <2>2. Numeral(from, at - 1)
    BY <1>1, <1>2, <1>3 DEF Numeral, IInv, Apart
  <2>3. ~Skipped(from)
    BY <1>1, <1>2, <1>4, CodeIsNotSkipped
  <2>4. Culprit(from)
    BY <1>2, <1>6, <2>2, <2>3 DEF Culprit, Read
  <2>5. Behind' = from /\ UnderWay'
    BY <1>1, <2>1 DEF Behind, UnderWay
  <2> QED
    BY <1>1, <1>2, <2>1, <2>4, <2>5, Standing
<1> QED
  BY <1>5, <1>6

LEMMA UnexpectedStep == ASSUME IInv, Unexpected PROVE IInv'
<1>1. /\ text' = text /\ tokens' = tokens /\ at' = at /\ from' = at
      /\ status = "scanning" /\ status' = "failed" /\ at <= Len(text)
      /\ text[at] \notin Blanks \cup Single \cup MaybeArrow \cup IdentContinue
  BY DEF Unexpected, Scanning, More, Ch, Begin, Stay, NoToken, Goto
<1>2. /\ Len(text) \in Nat /\ at \in 1 .. Len(text) + 1 /\ at \in at .. Len(text)
      /\ Behind = at /\ Behind' = at
  BY <1>1, Place DEF Behind
<1>3. ~CommentAt(at) /\ at .. at = {at}
  <2>1. ~CommentAt(at)
    BY <1>1 DEF CommentAt, Single
  <2> QED
    BY <1>2, <2>1
<1>4. ~Skipped(at)
  BY <1>1, <1>2, <1>3, CodeIsNotSkipped
<1>5. Culprit(at) /\ UnderWay'
  BY <1>1, <1>4 DEF Culprit, UnderWay
<1> QED
  BY <1>1, <1>2, <1>5, Standing

(* The end of the text is a token without characters. *)
LEMMA EndStep == ASSUME IInv, AtEnd PROVE IInv'
<1> DEFINE t == [tag |-> "end", from |-> at, to |-> at, start |-> pos, end |-> pos]
<1>1. /\ at' = at /\ from' = at /\ text' = text /\ tokens' = Append(tokens, t)
      /\ status = "scanning" /\ status' = "done" /\ ~(at <= Len(text))
  BY DEF AtEnd, More, Begin, Stay, Emit, Goto
<1>2. Len(text) \in Nat /\ at \in 1 .. Len(text) + 1 /\ Behind = at /\ Behind' = at
  BY <1>1, Place DEF Behind
<1>3. /\ tokens' \in Seq(Range(tokens'))
      /\ DOMAIN tokens = 1 .. Len(tokens) /\ Len(tokens) \in Nat
      /\ DOMAIN tokens' = 1 .. Len(tokens) + 1
      /\ \A n \in DOMAIN tokens : tokens'[n] = tokens[n]
      /\ tokens'[Len(tokens) + 1] = t
  BY <1>1, OneMore DEF IInv, Sequences
<1>4. t.from = at /\ t.to = at /\ t.tag = "end"
  OBVIOUS
<1> HIDE DEF t
<1>5. TypeOK'
  <2>1. ASSUME NEW n \in DOMAIN tokens'
        PROVE  /\ tokens'[n].from \in 1 .. at
               /\ tokens'[n].to \in tokens'[n].from .. at
               /\ tokens'[n].to = tokens'[n].from => tokens'[n].tag = "end"
               /\ \A m \in 1 .. n - 1 : tokens'[m].to <= tokens'[n].from
    <3>1. CASE n \in DOMAIN tokens
      BY <1>1, <1>2, <1>3, <3>1 DEF IInv, TypeOK
    <3>2. CASE n = Len(tokens) + 1
      <4>1. tokens'[n].from = at /\ tokens'[n].to = at /\ tokens'[n].tag = "end"
        BY <1>3, <1>4, <3>2
      <4>2. \A m \in 1 .. n - 1 : tokens'[m].to <= at
        <5>1. \A m \in DOMAIN tokens : tokens[m].to <= at
          BY <1>2 DEF IInv, TypeOK
        <5> QED
          BY <1>3, <3>2, <5>1
      <4> QED
        BY <1>1, <1>2, <4>1, <4>2
    <3> QED
      BY <1>3, <3>1, <3>2
  <2> QED
    BY <1>1, <1>2, <2>1 DEF TypeOK
<1>6. TokensCoverTheCode'
  <2>1. \A i \in 1 .. at - 1 : InToken(i)' <=> InToken(i)
    BY <1>1, <1>2, <1>3, <1>4 DEF InToken
  <2> QED
    BY <1>1, <1>2, <2>1, SameText DEF IInv, TokensCoverTheCode
<1>7. TokensAreMaximal'
  BY <1>1, <1>3, <1>4, SameText DEF IInv, TokensAreMaximal
<1>8. RefusedAtTheFirstCulprit'
  BY <1>1, <1>2, SameText DEF IInv, RefusedAtTheFirstCulprit
<1>9. Sequences' /\ Closed' /\ Apart' /\ UnderWay'
  BY <1>1, <1>2, <1>3 DEF IInv, Sequences, Closed, Apart, UnderWay
<1> QED
  BY <1>5, <1>6, <1>7, <1>8, <1>9 DEF IInv

------------------------------------------------------------------------------
(***************************************************************************)
(* Positions.                                                              *)
(***************************************************************************)
LEMMA LeastNumber ==
  ASSUME NEW T, T \subseteq Nat, T # {}
  PROVE  \E n \in T : \A k \in T : n <= k
<1> DEFINE R == {p \in Nat \X Nat : p[1] < p[2]}
<1>1. IsWellFoundedOn(R, Nat)
  BY NatLessThanWellFounded, Zenon DEF OpToRel
<1>2. PICK n \in T : \A k \in T : <<k, n>> \notin R
  <2> HIDE DEF R
  <2> QED
    BY <1>1, WFMin
<1>3. ASSUME NEW k \in T PROVE n <= k
  <2>1. <<k, n>> \notin R /\ k \in Nat /\ n \in Nat
    BY <1>2
  <2>2. ~(k < n)
    BY <2>1
  <2> QED
    BY <2>1, <2>2
<1> QED
  BY <1>3

(* The bytes before each character, counted up to any of them. *)
Counts(f, n) == f = [i \in 1 .. n |-> IF i = 1 THEN 0 ELSE f[i - 1] + Width[text[i - 1]]]

LEMMA CountsExist == ASSUME NEW n \in Nat PROVE \E f : Counts(f, n)
<1> SUFFICES ASSUME ~(\E f : Counts(f, n)) PROVE FALSE
  OBVIOUS
<1> DEFINE T == {m \in Nat : ~(\E f : Counts(f, m))}
<1>1. PICK m \in T : \A k \in T : m <= k
  <2>1. T \subseteq Nat /\ T # {}
    OBVIOUS
  <2> HIDE DEF T
  <2> QED
    BY <2>1, LeastNumber
<1>2. m \in Nat /\ ~(\E f : Counts(f, m))
  OBVIOUS
<1>3. CASE m = 0
  <2> DEFINE g == [i \in 1 .. 0 |-> 0]
  <2>1. g = [i \in 1 .. 0 |-> IF i = 1 THEN 0 ELSE g[i - 1] + Width[text[i - 1]]]
    OBVIOUS
  <2> HIDE DEF g
  <2>2. Counts(g, m)
    BY <1>3, <2>1 DEF Counts
  <2> QED
    BY <1>2, <2>2
<1>4. CASE m # 0
  <2>1. m - 1 \in Nat /\ m - 1 \notin T
    BY <1>1, <1>2, <1>4
  <2>2. PICK f : Counts(f, m - 1)
    BY <2>1
  <2> DEFINE last == IF m = 1 THEN 0 ELSE f[m - 1] + Width[text[m - 1]]
             g == [i \in 1 .. m |-> IF i = m THEN last ELSE f[i]]
  <2>3. ASSUME NEW i \in 1 .. m
        PROVE  g[i] = IF i = 1 THEN 0 ELSE g[i - 1] + Width[text[i - 1]]
    <3>1. CASE i = m
      <4>1. i # 1 => i - 1 \in 1 .. m /\ i - 1 # m /\ g[i - 1] = f[i - 1]
        BY <1>2, <3>1
      <4> QED
        BY <3>1, <4>1
    <3>2. CASE i # m
      <4>1. i \in 1 .. m - 1 /\ g[i] = f[i]
        BY <1>2, <3>2
      <4>2. f[i] = IF i = 1 THEN 0 ELSE f[i - 1] + Width[text[i - 1]]
        BY <2>2, <4>1 DEF Counts
      <4>3. i # 1 => i - 1 \in 1 .. m /\ i - 1 # m /\ g[i - 1] = f[i - 1]
        BY <1>2, <4>1
      <4> QED
        BY <4>1, <4>2, <4>3
    <3> QED
      BY <3>1, <3>2
  <2>4. g = [i \in 1 .. m |-> g[i]]
    OBVIOUS
  <2> HIDE DEF g
  <2>5. Counts(g, m)
    BY <2>3, <2>4 DEF Counts
  <2> QED
    BY <1>2, <2>5
<1> QED
  BY <1>3, <1>4

LEMMA BytesCounted ==
  ASSUME Len(text) \in Nat
  PROVE  /\ BytesBefore[1] = 0
         /\ \A i \in 1 .. Len(text) : BytesBefore[i + 1] = BytesBefore[i] + Width[text[i]]
<1>1. Len(text) + 1 \in Nat
  OBVIOUS
<1>2. Counts(BytesBefore, Len(text) + 1)
  BY <1>1, CountsExist DEF Counts, BytesBefore
<1> QED
  BY <1>1, <1>2 DEF Counts

(* The last of the line feeds lies among the characters before. *)
LEMMA LastFeedIsBefore == ASSUME NEW i \in Nat \ {0} PROVE LastFeed(i) \in 0 .. i - 1
<1>1. CASE LineFeeds(i) = {}
  BY <1>1 DEF LastFeed
<1>2. CASE LineFeeds(i) # {}
  <2> DEFINE T == {n \in Nat : \A j \in LineFeeds(i) : j <= n}
  <2>1. LineFeeds(i) \subseteq 1 .. i - 1
    BY DEF LineFeeds
  <2>2. PICK n \in T : \A k \in T : n <= k
    <3>1. i \in T /\ T \subseteq Nat
      BY <2>1
    <3> HIDE DEF T
    <3> QED
      BY <3>1, LeastNumber
  <2>3. n \in LineFeeds(i)
    <3> SUFFICES ASSUME n \notin LineFeeds(i) PROVE FALSE
      OBVIOUS
    <3>1. \A j \in LineFeeds(i) : j \in 1 .. i - 1 /\ j <= n /\ j # n
      BY <2>1, <2>2
    <3>2. n \in Nat /\ n > 0
      BY <1>2, <3>1
    <3>3. n - 1 \in T
      BY <3>1, <3>2
    <3> QED
      BY <2>2, <3>2, <3>3
  <2>4. \E k \in LineFeeds(i) : \A j \in LineFeeds(i) : j <= k
    BY <2>2, <2>3
  <2>5. LastFeed(i) \in LineFeeds(i)
    BY <1>2, <2>4 DEF LastFeed
  <2> QED
    BY <2>1, <2>5
<1> QED
  BY <1>1, <1>2

(* One character more, as bump_char counts it. *)
LEMMA OneCharacter ==
  ASSUME Len(text) \in Nat, NEW i \in 1 .. Len(text), NEW p, IsPosition(p, i)
  PROVE  IsPosition(BumpChar(p, text[i]), i + 1)
<1>1. BytesBefore[i + 1] = BytesBefore[i] + Width[text[i]]
  BY BytesCounted
<1>2. IsFiniteSet(LineFeeds(i)) /\ Cardinality(LineFeeds(i)) \in Nat
  <2>1. IsFiniteSet(1 .. i - 1)
    BY FS_Interval
  <2> QED
    BY <2>1, FS_Subset, FS_CardinalityType DEF LineFeeds
<1>3. i \notin LineFeeds(i)
  BY DEF LineFeeds
<1>4. CASE text[i] = NL
  <2>1. LineFeeds(i + 1) = LineFeeds(i) \cup {i}
    BY <1>4 DEF LineFeeds
  <2>2. Cardinality(LineFeeds(i + 1)) = Cardinality(LineFeeds(i)) + 1
    BY <1>2, <1>3, <2>1, FS_AddElement
  <2>3. LastFeed(i + 1) = i
    <3>1. i \in LineFeeds(i + 1) /\ \A j \in LineFeeds(i + 1) : j \in Int /\ j <= i
      BY <2>1 DEF LineFeeds
    <3>2. \A k \in LineFeeds(i + 1) : (\A j \in LineFeeds(i + 1) : j <= k) <=> k = i
      BY <3>1
    <3> QED
      BY <3>1, <3>2 DEF LastFeed
  <2>4. (i + 1) - i = 1 /\ 1 + (Cardinality(LineFeeds(i)) + 1) = (1 + Cardinality(LineFeeds(i))) + 1
    BY <1>2
  <2> QED
    BY <1>1, <1>4, <2>2, <2>3, <2>4 DEF IsPosition, BumpChar
<1>5. CASE text[i] # NL
  <2>1. LineFeeds(i + 1) = LineFeeds(i)
    BY <1>5 DEF LineFeeds
  <2>2. LastFeed(i + 1) = LastFeed(i)
    <3> DEFINE Last(S) == IF S = {} THEN 0 ELSE CHOOSE k \in S : \A j \in S : j <= k
    <3>1. LastFeed(i) = Last(LineFeeds(i)) /\ LastFeed(i + 1) = Last(LineFeeds(i + 1))
      BY DEF LastFeed
    <3> HIDE DEF Last
    <3> QED
      BY <2>1, <3>1
  <2>3. LastFeed(i) \in Int
    <3>1. i \in Nat \ {0} /\ 0 .. i - 1 \subseteq Int
      OBVIOUS
    <3> QED
      BY <3>1, LastFeedIsBefore
  <2>4. (i + 1) - LastFeed(i) = (i - LastFeed(i)) + 1
    BY <2>3
  <2> QED
    BY <1>1, <1>5, <2>1, <2>2, <2>4 DEF IsPosition, BumpChar
<1> QED
  BY <1>4, <1>5

------------------------------------------------------------------------------
(* The text stays, and with it what a right position is. *)
LEMMA SamePositions ==
  ASSUME text' = text
  PROVE  \A p, i : IsPosition(p, i)' <=> IsPosition(p, i)
BY DEF IsPosition, BytesBefore, LineFeeds, LastFeed

LEMMA BumpIsRight ==
  ASSUME IInv, PositionsAreRight, More, Bump
  PROVE  IsPosition(pos', at')
<1>1. Len(text) \in Nat /\ at \in 1 .. Len(text) /\ IsPosition(pos, at)
  BY Place DEF More, PositionsAreRight
<1> QED
  BY <1>1, OneCharacter DEF Bump, Ch

(* A step that makes no token, whether something begins at the cursor or not. *)
LEMMA NoTokenIsRight ==
  ASSUME IInv, PositionsAreRight, NoToken, text' = text, Stay \/ (More /\ Bump), Begin \/ GoOn
  PROVE  PositionsAreRight'
<1>1. IsPosition(pos', at')
  BY BumpIsRight DEF Stay, PositionsAreRight
<1>2. IsPosition(start', from')
  BY DEF Begin, GoOn, PositionsAreRight
<1> QED
  BY <1>1, <1>2, SamePositions DEF PositionsAreRight, NoToken

(* A token has the positions of the cursor before and after it. *)
LEMMA EmitIsRight ==
  ASSUME IInv, PositionsAreRight, text' = text, IsPosition(pos', at'), NEW tag, Emit(tag),
         Begin \/ GoOn
  PROVE  PositionsAreRight'
<1> DEFINE t == [tag |-> tag, from |-> from', to |-> at', start |-> start', end |-> pos']
<1>1. IsPosition(start', from')
  BY DEF Begin, GoOn, PositionsAreRight
<1>2. tokens' = Append(tokens, t)
  BY DEF Emit
<1>3. t.start = start' /\ t.from = from' /\ t.end = pos' /\ t.to = at'
  OBVIOUS
<1> HIDE DEF t
<1>4. /\ DOMAIN tokens = 1 .. Len(tokens) /\ Len(tokens) \in Nat
      /\ DOMAIN tokens' = 1 .. Len(tokens) + 1
      /\ \A n \in DOMAIN tokens : tokens'[n] = tokens[n]
      /\ tokens'[Len(tokens) + 1] = t
  BY <1>2, OneMore DEF IInv, Sequences
<1>5. ASSUME NEW n \in DOMAIN tokens'
      PROVE  /\ IsPosition(tokens'[n].start, tokens'[n].from)
             /\ IsPosition(tokens'[n].end, tokens'[n].to)
  BY <1>1, <1>3, <1>4 DEF PositionsAreRight
<1> QED
  BY <1>1, <1>5, SamePositions DEF PositionsAreRight

LEMMA PositionsStep == ASSUME IInv, PositionsAreRight, [Next]_vars PROVE PositionsAreRight'
<1>1. CASE SkipBlank
  BY <1>1, NoTokenIsRight DEF SkipBlank, Scanning, Goto
<1>2. CASE BeginComment
  BY <1>2, NoTokenIsRight DEF BeginComment, Goto
<1>3. CASE ReadComment
  BY <1>3, NoTokenIsRight DEF ReadComment, Goto
<1>4. CASE EndComment
  BY <1>4, NoTokenIsRight DEF EndComment, LeaveComment, Goto
<1>5. CASE Punctuation
  BY <1>5, BumpIsRight, EmitIsRight DEF Punctuation, Scanning, Goto
<1>6. CASE Arrow
  <2>1. CASE ~NextIs(">")
    BY <1>6, <2>1, BumpIsRight, EmitIsRight DEF Arrow, Scanning, Goto
  <2>2. CASE NextIs(">")
    <3>1. /\ at < Len(text) /\ text[at + 1] = ">"
          /\ at' = at + 2 /\ pos' = BumpChar(BumpChar(pos, text[at]), text[at + 1])
      BY <1>6, <2>2 DEF Arrow, NextIs, Ch
    <3>2. Len(text) \in Nat /\ at \in 1 .. Len(text) /\ at + 1 \in 1 .. Len(text)
          /\ (at + 1) + 1 = at + 2
      BY <3>1, Place
    <3>3. IsPosition(BumpChar(pos, text[at]), at + 1)
      BY <3>2, OneCharacter DEF PositionsAreRight
    <3>4. IsPosition(pos', at')
      BY <3>1, <3>2, <3>3, OneCharacter
    <3> QED
      BY <1>6, <2>2, <3>4, EmitIsRight DEF Arrow, Goto
  <2> QED
    BY <2>1, <2>2
<1>7. CASE BeginWord
  BY <1>7, NoTokenIsRight DEF BeginWord, Goto
<1>8. CASE ReadWord
  BY <1>8, NoTokenIsRight DEF ReadWord, WordGoesOn, Goto
<1>9. CASE EndWord
  BY <1>9, EmitIsRight DEF EndWord, Stay, Goto, PositionsAreRight
<1>10. CASE BeginNumber
  BY <1>10, NoTokenIsRight DEF BeginNumber, Goto
<1>11. CASE ReadNumber
  BY <1>11, NoTokenIsRight DEF ReadNumber, NumberGoesOn, Goto
<1>12. CASE EndNumber
  <2>1. text' = text /\ GoOn /\ Stay /\ IsPosition(pos', at')
    BY <1>12 DEF EndNumber, Goto, Stay, PositionsAreRight
  <2>2. Emit("Int") \/ NoToken
    BY <1>12 DEF EndNumber
  <2> QED
    BY <2>1, <2>2, EmitIsRight, NoTokenIsRight
<1>13. CASE Unexpected
  BY <1>13, NoTokenIsRight DEF Unexpected, Goto
<1>14. CASE AtEnd
  BY <1>14, EmitIsRight DEF AtEnd, Stay, Goto, PositionsAreRight
<1>15. CASE UNCHANGED vars
  BY <1>15, NoTokenIsRight DEF vars, NoToken, Stay, GoOn
<1> QED
  BY <1>1, <1>2, <1>3, <1>4, <1>5, <1>6, <1>7, <1>8, <1>9, <1>10, <1>11, <1>12, <1>13, <1>14,
     <1>15 DEF Next

------------------------------------------------------------------------------
LEMMA Initially == Init => IInv
<1> SUFFICES ASSUME Init PROVE IInv
  OBVIOUS
<1>1. text \in Seq(Chars) /\ at = 1 /\ from = 1 /\ tokens = <<>> /\ status = "scanning"
  BY TextAssumption DEF Init
<1>2. Len(text) \in Nat /\ DOMAIN tokens = {} /\ Behind = 1
  BY <1>1, LenProperties DEF Behind
<1>3. Sequences
  BY <1>1 DEF Sequences
<1> QED
  BY <1>1, <1>2, <1>3 DEF IInv, TypeOK, TokensCoverTheCode, TokensAreMaximal,
     RefusedAtTheFirstCulprit, Closed, Apart, UnderWay

LEMMA Stuttering == ASSUME IInv, UNCHANGED vars PROVE IInv'
<1>1. text' = text /\ at' = at /\ from' = from /\ tokens' = tokens /\ status' = status
  BY DEF vars
<1>2. Behind' = Behind /\ UnderWay'
  BY <1>1, SameText DEF IInv, UnderWay, InTheLoop, Behind
<1>3. status = "failed" => Culprit(from)
  BY DEF IInv, RefusedAtTheFirstCulprit
<1> QED
  BY <1>1, <1>2, <1>3, Standing DEF IInv, TypeOK

LEMMA Inductive == ASSUME IInv, [Next]_vars PROVE IInv'
<1>1. CASE SkipBlank    BY <1>1, BlankStep
<1>2. CASE BeginComment BY <1>2, CommentBegins
<1>3. CASE ReadComment  BY <1>3, CommentGoesOn
<1>4. CASE EndComment   BY <1>4, CommentEnds
<1>5. CASE Punctuation  BY <1>5, PunctuationStep
<1>6. CASE Arrow        BY <1>6, ArrowStep
<1>7. CASE BeginWord    BY <1>7, LoopBegins DEF BeginWord
<1>8. CASE ReadWord     BY <1>8, LoopGoesOn DEF ReadWord, WordGoesOn
<1>9. CASE EndWord      BY <1>9, WordEnds
<1>10. CASE BeginNumber BY <1>10, LoopBegins DEF BeginNumber
<1>11. CASE ReadNumber  BY <1>11, LoopGoesOn DEF ReadNumber, NumberGoesOn
<1>12. CASE EndNumber   BY <1>12, NumberEnds
<1>13. CASE Unexpected  BY <1>13, UnexpectedStep
<1>14. CASE AtEnd       BY <1>14, EndStep
<1>15. CASE UNCHANGED vars BY <1>15, Stuttering
<1> QED
  BY <1>1, <1>2, <1>3, <1>4, <1>5, <1>6, <1>7, <1>8, <1>9, <1>10, <1>11, <1>12, <1>13, <1>14,
     <1>15 DEF Next

LEMMA AlwaysIInv == Spec => []IInv
<1>1. Init => IInv
  BY Initially
<1>2. IInv /\ [Next]_vars => IInv'
  BY Inductive
<1> QED
  BY <1>1, <1>2, PTL DEF Spec

------------------------------------------------------------------------------
(***************************************************************************)
(* The cursor stays in the text, and the tokens lie behind it one after    *)
(* another, none of them empty but the end (tokenize).                     *)
(***************************************************************************)
THEOREM WellTyped == Spec => []TypeOK
<1>1. IInv => TypeOK
  BY DEF IInv
<1> QED
  BY <1>1, AlwaysIInv, PTL

(***************************************************************************)
(* Of the text that was read, everything that is neither white space nor   *)
(* in a comment is in a token, and nothing else is (tokenize).             *)
(***************************************************************************)
THEOREM CodeIsCovered == Spec => []TokensCoverTheCode
<1>1. IInv => TokensCoverTheCode
  BY DEF IInv
<1> QED
  BY <1>1, AlwaysIInv, PTL

(***************************************************************************)
(* No token could have been longer, wherever in the text the loops that    *)
(* read it end (lex_ident_or_keyword, lex_int).                            *)
(***************************************************************************)
THEOREM NothingIsSplit == Spec => []TokensAreMaximal
<1>1. IInv => TokensAreMaximal
  BY DEF IInv
<1> QED
  BY <1>1, AlwaysIInv, PTL

(***************************************************************************)
(* The lexer stops at the first character that is no code or the first     *)
(* number that is no i64, and never elsewhere (tokenize, lex_int).         *)
(***************************************************************************)
THEOREM OnlyCulpritsAreRefused == Spec => []RefusedAtTheFirstCulprit
<1>1. IInv => RefusedAtTheFirstCulprit
  BY DEF IInv
<1> QED
  BY <1>1, AlwaysIInv, PTL

(***************************************************************************)
(* The lexer's position, that of what it began last, with which it reports *)
(* an error, and both positions of every token are those of an editor: the bytes before, the line, the column in characters         *)
(* (bump_char).                                                            *)
(***************************************************************************)
THEOREM PositionsAreAnEditors == Spec => []PositionsAreRight
<1>1. Init => PositionsAreRight
  <2> SUFFICES ASSUME Init PROVE PositionsAreRight
    OBVIOUS
  <2>1. /\ at = 1 /\ pos = Start /\ from = 1 /\ start = Start
        /\ tokens = <<>> /\ Len(text) \in Nat
    BY TextAssumption, LenProperties DEF Init
  <2>2. LineFeeds(1) = {}
    BY DEF LineFeeds
  <2>3. LastFeed(1) = 0 /\ 1 + Cardinality(LineFeeds(1)) = 1 /\ 1 - LastFeed(1) = 1
    BY <2>2, FS_EmptySet DEF LastFeed
  <2>4. IsPosition(pos, at) /\ IsPosition(start, from)
    BY <2>1, <2>3, BytesCounted DEF IsPosition, Start
  <2> QED
    BY <2>1, <2>4 DEF PositionsAreRight
<1>2. IInv /\ PositionsAreRight /\ [Next]_vars => PositionsAreRight'
  BY PositionsStep
<1> QED
  BY <1>1, <1>2, AlwaysIInv, PTL DEF Spec

==============================================================================
