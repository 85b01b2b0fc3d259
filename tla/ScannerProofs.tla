---------------------------- MODULE ScannerProofs ----------------------------
(***************************************************************************)
(* Proofs about Scanner, for every input: a token that is scanned without  *)
(* an error is the text at its position (TokenIsText).                     *)
(***************************************************************************)
EXTENDS Scanner, FiniteSetTheorems, TLAPS

\* Most leaves need no arithmetic: Zenon tries them before SMT does.
USE ZenonT(5), SMTT(10)

-----------------------------------------------------------------------------
(* The inductive invariant *)

IsSeq(s) == \E S : s \in Seq(S)

\* The number of the rune at p, one past the last at the end.
HereAt(p) == IF p.eof THEN Len(text) + 1 ELSE p.ix

\* The last new line up to rune k is rune j.
IsStart(j, k) == (j > 0 => text[j] = NL) /\ \A i \in j + 1 .. k : text[i] # NL

Lines(k) == {i \in 1 .. k : text[i] = NL}

\* The line and the column of p are those of the rune number p.ix.
ExactPos(p) ==
    /\ p.ix \in 0 .. Len(text)
    /\ IsFiniteSet(Lines(p.ix)) /\ p.line = 1 + Cardinality(Lines(p.ix))
    /\ \E j \in 0 .. p.ix : IsStart(j, p.ix) /\ p.col = p.ix - j

IsBlank(r) == r \in {" ", "tab", "cr"}

Blanks(i, j) == \A k \in i .. j : IsBlank(text[k])

\* Where the scanner can be ...
PlaceOK(p) ==
    /\ p = [ix |-> p.ix, eof |-> p.eof, line |-> p.line, col |-> p.col]
    /\ p.eof \in BOOLEAN
    /\ ExactPos(p)

\* ... and what a scan function can be.
Shape(f) ==
    /\ f \in [fn : {f.fn}, id : {f.id}, lit : {f.lit}, pos : {f.pos}, quote : {f.quote},
             n : {f.n}, flag : {f.flag}, noread : {f.noread}, esc : {f.esc},
             from : Nat, mark : Nat]
    /\ f.esc \in [n : {f.esc.n}, base : {f.esc.base}, max : {f.esc.max}, x : {f.esc.x}]
    /\ ExactPos(f.pos)

\* Scan has moved to the first rune.
Started(p) == p.eof \/ p.ix > 0

\* The functions that write the rune they are at before they move on.
Ahead(f) == IF f.fn \in {"code", "rawString", "quoted"} THEN 1 ELSE 0

\* What was scanned of the token is the text from its position to rune n, and
\* only blanks were skipped.
Upto(f, n) ==
    /\ f.pos.ix >= 1 /\ f.pos.ix <= n + 1 /\ n <= Len(text)
    /\ f.lit = SubSeq(text, f.pos.ix, n)
    /\ Blanks(f.from, f.pos.ix - 1)

Scanned(p, f) == Upto(f, HereAt(p) + Ahead(f) - 1)

\* A comment has no end yet, and flag tells whether a star was seen.
InComment(p, f) ==
    /\ f.id \in {"mlcomment", "lcomment"}
    /\ f.flag \in BOOLEAN
    /\ f.id = "lcomment" => ~f.flag
    /\ f.id = "mlcomment" =>
          /\ f.pos.ix + 1 <= p.ix
          /\ f.flag <=> \E k \in f.pos.ix + 2 .. p.ix : text[k] = "*"
          /\ \A k \in f.pos.ix + 3 .. p.ix : ~(text[k - 1] = "*" /\ text[k] = "/")

Functions ==
    {"identifier", "comment", "code", "rawString",
     "quoted", "escape", "unicodeClass", "className", "digits"}

\* The functions that scan a literal.
LiteralFunctions == {"quoted", "escape", "unicodeClass", "className", "digits"}

\* What each function may rely on, as long as there was no error.
Going(p, f) ==
    /\ f.fn \in Functions => Scanned(p, f)
    /\ f.fn = "identifier" => f.id = "ident"
    /\ f.fn = "comment" => ~p.eof /\ InComment(p, f)
    /\ f.fn = "code" => f.id = "code"
    /\ f.fn = "rawString" => f.id = "rstr"
    /\ f.fn \in LiteralFunctions =>
          f.id \in {"str", "char", "class"} /\ f.quote \in {Quote, Tick, "]"} /\ ~f.noread
    /\ f.fn \in {"escape", "className"} => ~p.eof
    /\ f.fn = "digits" => f.esc.base \in {8, 16}
    /\ f.fn = "skip" =>
          /\ f.id = "none" /\ f.lit = <<>> /\ f.flag = FALSE /\ f.noread = FALSE
          /\ Blanks(f.from, HereAt(p) - 1)

ScanInv ==
    /\ text \in Inputs /\ IsSeq(errs)
    /\ PlaceOK(at) /\ Shape(sc)
    /\ sc.fn # "idle" => Started(at) /\ sc.mark <= Len(errs)
    /\ Len(errs) = sc.mark => Going(at, sc)
    /\ TokenIsText

-----------------------------------------------------------------------------
(* The text and places in it *)

\* The runes of the input.
LEMMA TextFacts ==
    ASSUME text \in Inputs
    PROVE  /\ Len(text) \in Nat /\ DOMAIN text = 1 .. Len(text)
           /\ \A k \in 1 .. Len(text) : text[k] # EndRune
           /\ \E S : text \in Seq(S)
<1>1. PICK S : text \in Seq(S)
  BY InputAssumption
<1>2. Len(text) \in Nat /\ DOMAIN text = 1 .. Len(text)
  BY <1>1
<1> QED
  BY <1>1, <1>2, RuneAssumption

\* s.cur is a rune of the text, but for the end and the start.
LEMMA CurFacts ==
    ASSUME text \in Inputs, NEW p, PlaceOK(p)
    PROVE  /\ Cur(p) # EndRune <=> ~p.eof /\ p.ix > 0
           /\ Cur(p) # EndRune => /\ HereAt(p) = p.ix /\ p.ix \in 1 .. Len(text)
                                  /\ Cur(p) = text[p.ix]
           /\ HereAt(p) \in 0 .. Len(text) + 1 /\ HereAt(p) \in Int
           /\ p.ix \in 0 .. Len(text) /\ p.ix \in Int
<1>1. Len(text) \in Nat /\ p.ix \in 0 .. Len(text) /\ p.eof \in BOOLEAN
  BY TextFacts DEF PlaceOK, ExactPos
<1>2. \A k \in 1 .. Len(text) : text[k] # EndRune
  BY TextFacts
<1>3. CASE p.eof
  BY <1>1, <1>3 DEF Cur, HereAt
<1>4. CASE ~p.eof /\ p.ix = 0
  BY <1>1, <1>4 DEF Cur, HereAt
<1>5. CASE ~p.eof /\ p.ix # 0
  <2>1. Cur(p) = text[p.ix] /\ p.ix \in 1 .. Len(text) /\ HereAt(p) = p.ix
    BY <1>1, <1>5 DEF Cur, HereAt
  <2> QED
    BY <1>1, <1>2, <1>5, <2>1
<1> QED
  BY <1>3, <1>4, <1>5

\* read moves on by one rune, the end of the text being one more, and keeps
\* the line and the column right.
LEMMA ReadFacts ==
    ASSUME text \in Inputs, NEW p, PlaceOK(p)
    PROVE  /\ PlaceOK(Read(p)) /\ Started(Read(p))
           /\ ~p.eof => HereAt(Read(p)) = HereAt(p) + 1
           /\ p.eof => Read(p) = p
<1>1. /\ Len(text) \in Nat /\ p.ix \in 0 .. Len(text) /\ p.eof \in BOOLEAN
      /\ p = [ix |-> p.ix, eof |-> p.eof, line |-> p.line, col |-> p.col]
  BY TextFacts DEF PlaceOK, ExactPos
<1>2. CASE p.eof
  BY <1>1, <1>2 DEF Read, Started
<1>3. CASE ~p.eof /\ p.ix = Len(text)
  <2>1. Read(p) = [ix |-> p.ix, eof |-> TRUE, line |-> p.line, col |-> p.col]
    BY <1>1, <1>3 DEF Read
  <2>2. PlaceOK(Read(p))
    BY <2>1 DEF PlaceOK, ExactPos
  <2> QED
    BY <1>1, <1>3, <2>1, <2>2 DEF HereAt, Started
<1>4. CASE ~p.eof /\ p.ix # Len(text)
  <2> DEFINE k == p.ix + 1
  <2>1. k \in 1 .. Len(text) /\ p.ix = k - 1 /\ k \in Nat /\ p.ix \in Nat
    BY <1>1, <1>4
  <2>2. Read(p) = [ix |-> k, eof |-> FALSE,
                   line |-> IF text[k] = NL THEN p.line + 1 ELSE p.line,
                   col |-> IF text[k] = NL THEN 0 ELSE p.col + 1]
    BY <1>4 DEF Read
  <2>3. PICK j \in 0 .. p.ix : IsStart(j, p.ix) /\ p.col = p.ix - j
    BY DEF PlaceOK, ExactPos
  <2>4. IsFiniteSet(Lines(p.ix)) /\ p.line = 1 + Cardinality(Lines(p.ix))
    BY DEF PlaceOK, ExactPos
  <2>5. Cardinality(Lines(p.ix)) \in Nat
    BY <2>4, FS_CardinalityType
  <2> HIDE DEF k
  <2>6. CASE text[k] = NL
    <3>1. Lines(k) = Lines(p.ix) \cup {k} /\ k \notin Lines(p.ix)
      BY <2>1, <2>6 DEF Lines
    <3>2. IsFiniteSet(Lines(k)) /\ Cardinality(Lines(k)) = Cardinality(Lines(p.ix)) + 1
      BY <2>4, <3>1, FS_AddElement
    <3>3. IsStart(k, k) /\ k \in 0 .. k /\ 0 = k - k
      BY <2>1, <2>6 DEF IsStart
    <3>4. Read(p) = [ix |-> k, eof |-> FALSE, line |-> p.line + 1, col |-> 0]
      BY <2>2, <2>6
    <3>5. p.line + 1 = 1 + Cardinality(Lines(k))
      BY <2>4, <2>5, <3>2
    <3> QED
      BY <1>4, <2>1, <3>2, <3>3, <3>4, <3>5 DEF PlaceOK, ExactPos, HereAt, Started
  <2>7. CASE text[k] # NL
    <3>1. Lines(k) = Lines(p.ix)
      BY <2>1, <2>7 DEF Lines
    <3>2. IsStart(j, k) /\ j \in 0 .. k /\ p.col + 1 = k - j
      BY <2>1, <2>3, <2>7 DEF IsStart
    <3>3. Read(p) = [ix |-> k, eof |-> FALSE, line |-> p.line, col |-> p.col + 1]
      BY <2>2, <2>7
    <3> QED
      BY <1>4, <2>1, <2>4, <3>1, <3>2, <3>3 DEF PlaceOK, ExactPos, HereAt, Started
  <2> QED
    BY <2>6, <2>7
<1> QED
  BY <1>2, <1>3, <1>4

\* One rune more of the text.
LEMMA OneMore ==
    ASSUME text \in Inputs, NEW i \in Nat, NEW n \in Nat, i >= 1, i <= n, n <= Len(text)
    PROVE  SubSeq(text, i, n) = Append(SubSeq(text, i, n - 1), text[n])
<1>1. PICK S : text \in Seq(S)
  BY TextFacts
<1>2. Len(text) \in Nat
  BY TextFacts
<1>3. SubSeq(text, i, n - 1) \in Seq(S) /\ SubSeq(text, i, n) \in Seq(S)
  BY <1>1, <1>2
<1>4. /\ Len(SubSeq(text, i, n)) = n - i + 1
      /\ \A k \in 1 .. n - i + 1 : SubSeq(text, i, n)[k] = text[i + k - 1]
  BY <1>1, <1>2
<1>5. /\ Len(SubSeq(text, i, n - 1)) = n - i
      /\ \A k \in 1 .. n - i : SubSeq(text, i, n - 1)[k] = text[i + k - 1]
  BY <1>1, <1>2
<1>6. text[n] \in S
  BY <1>1, <1>2
<1>7. /\ Append(SubSeq(text, i, n - 1), text[n]) \in Seq(S)
      /\ Len(Append(SubSeq(text, i, n - 1), text[n])) = n - i + 1
      /\ \A k \in 1 .. n - i : Append(SubSeq(text, i, n - 1), text[n])[k] = text[i + k - 1]
      /\ Append(SubSeq(text, i, n - 1), text[n])[n - i + 1] = text[n]
  BY <1>3, <1>5, <1>6, SMTT(40)
<1>8. \A k \in 1 .. n - i + 1 :
         SubSeq(text, i, n)[k] = Append(SubSeq(text, i, n - 1), text[n])[k]
  <2> TAKE k \in 1 .. n - i + 1
  <2>1. k \in 1 .. n - i \/ (k = n - i + 1 /\ i + k - 1 = n)
    OBVIOUS
  <2> QED
    BY <1>4, <1>7, <2>1
<1> QED
  BY <1>3, <1>4, <1>7, <1>8

-----------------------------------------------------------------------------
(* The scan functions and their variables *)

\* The variables of a function after a rune is written ...
LEMMA WriteFacts ==
    ASSUME NEW f, Shape(f), NEW r
    PROVE  /\ Shape(Write(f, r))
           /\ Write(f, r).lit = Append(f.lit, Rune(r))
           /\ Write(f, r).fn = f.fn /\ Write(f, r).id = f.id /\ Write(f, r).pos = f.pos
           /\ Write(f, r).quote = f.quote /\ Write(f, r).n = f.n /\ Write(f, r).flag = f.flag
           /\ Write(f, r).noread = f.noread /\ Write(f, r).esc = f.esc
           /\ Write(f, r).from = f.from /\ Write(f, r).mark = f.mark
<1>1. /\ Write(f, r).lit = Append(f.lit, Rune(r))
      /\ Write(f, r).fn = f.fn /\ Write(f, r).id = f.id /\ Write(f, r).pos = f.pos
      /\ Write(f, r).quote = f.quote /\ Write(f, r).n = f.n /\ Write(f, r).flag = f.flag
      /\ Write(f, r).noread = f.noread /\ Write(f, r).esc = f.esc
      /\ Write(f, r).from = f.from /\ Write(f, r).mark = f.mark
  BY DEF Write, Shape
<1>2. Shape(Write(f, r))
  BY DEF Write, Shape
<1> QED
  BY <1>1, <1>2

\* ... and after scanEscape has returned.
LEMMA ReturnedFacts ==
    ASSUME NEW f, Shape(f), NEW ok \in BOOLEAN
    PROVE  /\ Shape(Returned(f, ok))
           /\ Returned(f, ok).lit = f.lit /\ Returned(f, ok).pos = f.pos
           /\ Returned(f, ok).from = f.from /\ Returned(f, ok).mark = f.mark
           /\ Returned(f, ok).id = f.id /\ Returned(f, ok).quote = f.quote
           /\ Returned(f, ok).fn = "quoted" /\ Returned(f, ok).noread = ~ok
<1>1. /\ Returned(f, ok).lit = f.lit /\ Returned(f, ok).pos = f.pos
      /\ Returned(f, ok).from = f.from /\ Returned(f, ok).mark = f.mark
      /\ Returned(f, ok).id = f.id /\ Returned(f, ok).quote = f.quote
      /\ Returned(f, ok).fn = "quoted" /\ Returned(f, ok).noread = ~ok
  BY DEF Returned, Shape
<1>2. Shape(Returned(f, ok))
  BY DEF Returned, Shape, NoEsc
<1> QED
  BY <1>1, <1>2

-----------------------------------------------------------------------------
(* The two kinds of steps *)

\* The token f that ends at p is the text.
Finished(p, f) ==
    LET slice == SubSeq(text, f.pos.ix, HereAt(p) - 1)
    IN  /\ f.id # "eof" => f.lit = IF f.id = "rstr" THEN StripCR(slice) ELSE slice
        /\ Blanks(f.from, IF f.id = "eof" THEN Len(text) ELSE f.pos.ix - 1)
        /\ f.id = "mlcomment" =>
              /\ text[HereAt(p) - 1] = "/"
              /\ \E k \in f.pos.ix + 2 .. HereAt(p) - 2 : text[k] = "*"
              /\ \A k \in f.pos.ix + 3 .. HereAt(p) - 2 : ~(text[k - 1] = "*" /\ text[k] = "/")

\* There is no error, and then P; or an error is reported.
Well(P) ==
    \/ errs' = errs /\ (Len(errs) = sc.mark => P)
    \/ \E what, q : Report(what, q)

\* A report adds an error.
LEMMA ReportGrows ==
    ASSUME IsSeq(errs), NEW what, NEW q, Report(what, q)
    PROVE  IsSeq(errs') /\ Len(errs) \in Nat /\ Len(errs') = Len(errs) + 1
<1> DEFINE x == [what |-> what, pos |-> Pos(q)]
<1>1. PICK S : errs \in Seq(S)
  BY DEF IsSeq
<1>2. errs' = errs \o <<x>>
  BY DEF Report, Error
<1> HIDE DEF x
<1>3. errs \in Seq(S \cup {x}) /\ <<x>> \in Seq(S \cup {x}) /\ Len(<<x>>) = 1 /\ Len(errs) \in Nat
  BY <1>1
<1>4. errs' \in Seq(S \cup {x}) /\ Len(errs') = Len(errs) + 1
  BY <1>2, <1>3
<1> QED
  BY <1>3, <1>4 DEF IsSeq

\* An exact position has the line and the column of its rune.
LEMMA ExactIsPlaced ==
    ASSUME text \in Inputs, NEW p, ExactPos(p)
    PROVE  /\ p.line = 1 + Cardinality({k \in 1 .. p.ix : text[k] = NL})
           /\ p.col = p.ix - LineStart(p.ix)
<1>1. p.ix \in Nat
  BY TextFacts DEF ExactPos
<1>2. PICK j \in 0 .. p.ix : IsStart(j, p.ix) /\ p.col = p.ix - j
  BY DEF ExactPos
<1> DEFINE P(m) == IsStart(m, p.ix)
<1>3. LineStart(p.ix) = CHOOSE m \in 0 .. p.ix : P(m)
  BY DEF LineStart, IsStart
<1>4. ASSUME NEW m \in 0 .. p.ix, P(m)
      PROVE  m = j
  <2>1. ASSUME m < j PROVE FALSE
    <3>1. j \in m + 1 .. p.ix /\ j > 0
      BY <1>1, <2>1
    <3> QED
      BY <1>2, <1>4, <3>1 DEF IsStart
  <2>2. ASSUME j < m PROVE FALSE
    <3>1. m \in j + 1 .. p.ix /\ m > 0
      BY <1>1, <2>2
    <3> QED
      BY <1>2, <1>4, <3>1 DEF IsStart
  <2> QED
    BY <1>1, <2>1, <2>2
<1>5. P(j)
  BY <1>2
<1> HIDE DEF P
<1>6. LineStart(p.ix) = j
  BY <1>3, <1>4, <1>5
<1>7. p.line = 1 + Cardinality({k \in 1 .. p.ix : text[k] = NL})
  BY DEF ExactPos, Lines
<1> QED
  BY <1>2, <1>6, <1>7

\* What is said of places and functions depends on the text only.
LEMMA SameText ==
    ASSUME text' = text, NEW p, NEW f
    PROVE  /\ PlaceOK(p)' <=> PlaceOK(p)
           /\ Shape(f)' <=> Shape(f)
           /\ Going(p, f)' <=> Going(p, f)
<1>1. \A q : ExactPos(q)' <=> ExactPos(q)
  BY DEF ExactPos, Lines, IsStart
<1>2. PlaceOK(p)' <=> PlaceOK(p)
  BY <1>1 DEF PlaceOK
<1>3. Shape(f)' <=> Shape(f)
  BY <1>1 DEF Shape
<1>4. HereAt(p)' = HereAt(p) /\ \A i, j : Blanks(i, j)' <=> Blanks(i, j)
  BY DEF HereAt, Blanks
<1>5. Scanned(p, f)' <=> Scanned(p, f)
  BY <1>4 DEF Scanned, Upto, Ahead
<1>6. InComment(p, f)' <=> InComment(p, f)
  BY DEF InComment
<1>7. Going(p, f)' <=> Going(p, f)
  BY <1>4, <1>5, <1>6 DEF Going
<1> QED
  BY <1>2, <1>3, <1>7

\* A step that goes on in a function preserves the invariant.
LEMMA GotoKeeps ==
    ASSUME ScanInv, sc.fn # "idle", NEW p, NEW f, Goto(p, f),
           PlaceOK(p), Started(p), Shape(f), f.mark = sc.mark, f.fn # "done",
           Well(Going(p, f))
    PROVE  ScanInv'
<1>1. /\ text' = text /\ at' = p /\ sc' = f /\ text \in Inputs /\ IsSeq(errs)
      /\ sc.mark <= Len(errs) /\ sc.mark \in Nat
  BY DEF Goto, ScanInv, Shape
<1>2. Len(errs) \in Nat
  BY <1>1 DEF IsSeq
<1>3. PlaceOK(at)' /\ Shape(sc)'
  BY <1>1, SameText
<1>4. Started(at)'
  BY <1>1 DEF Started
<1>5. TokenIsText'
  BY <1>1 DEF TokenIsText, Clean
<1>6. /\ IsSeq(errs') /\ sc'.mark <= Len(errs')
      /\ Len(errs') = sc'.mark => Going(p, f)
  <2>1. CASE errs' = errs /\ (Len(errs) = sc.mark => Going(p, f))
    BY <1>1, <2>1
  <2>2. CASE \E what, q : Report(what, q)
    <3>1. IsSeq(errs') /\ Len(errs') = Len(errs) + 1
      BY <1>1, <2>2, ReportGrows
    <3> QED
      BY <1>1, <1>2, <3>1
  <2> QED
    BY <2>1, <2>2 DEF Well
<1>7. Len(errs') = sc'.mark => Going(at, sc)'
  BY <1>1, <1>6, SameText
<1> QED
  BY <1>1, <1>3, <1>4, <1>5, <1>6, <1>7 DEF ScanInv

\* A step that ends a function preserves the invariant.
LEMMA DoneKeeps ==
    ASSUME ScanInv, sc.fn # "idle", NEW p, NEW f, Done(p, f),
           PlaceOK(p), Started(p), Shape(f), f.mark = sc.mark,
           Well(Finished(p, f))
    PROVE  ScanInv'
<1> DEFINE g == [f EXCEPT !.fn = "done"]
<1>1. /\ text' = text /\ at' = p /\ sc' = g /\ text \in Inputs /\ IsSeq(errs)
      /\ sc.mark <= Len(errs) /\ sc.mark \in Nat
  BY DEF Done, ScanInv, Shape
<1>2. /\ g.fn = "done" /\ g.id = f.id /\ g.lit = f.lit /\ g.pos = f.pos
      /\ g.from = f.from /\ g.mark = f.mark
  BY DEF Shape
<1>3. Shape(g)
  BY DEF Shape
<1> HIDE DEF g
<1>4. Len(errs) \in Nat
  BY <1>1 DEF IsSeq
<1>5. PlaceOK(at)' /\ Shape(sc)'
  BY <1>1, <1>3, SameText
<1>6. Started(at)'
  BY <1>1 DEF Started
<1>7. /\ IsSeq(errs') /\ sc'.mark <= Len(errs')
      /\ Len(errs') = sc'.mark => Finished(p, f)
  <2>1. CASE errs' = errs /\ (Len(errs) = sc.mark => Finished(p, f))
    BY <1>1, <1>2, <2>1
  <2>2. CASE \E what, q : Report(what, q)
    <3>1. IsSeq(errs') /\ Len(errs') = Len(errs) + 1
      BY <1>1, <2>2, ReportGrows
    <3> QED
      BY <1>1, <1>2, <1>4, <3>1
  <2> QED
    BY <2>1, <2>2 DEF Well
<1>8. Going(at, sc)'
  BY <1>1, <1>2 DEF Going, Functions, LiteralFunctions
<1>9. ASSUME Len(errs') = sc'.mark
      PROVE  TokenIsText'
  <2>1. ExactPos(g.pos)
    BY <1>3 DEF Shape
  <2>2. /\ g.pos.line = 1 + Cardinality({k \in 1 .. g.pos.ix : text[k] = NL})
        /\ g.pos.col = g.pos.ix - LineStart(g.pos.ix)
    BY <1>1, <2>1, ExactIsPlaced
  <2>3. Placed'
    BY <1>1, <2>2 DEF Placed, LineStart
  <2>4. Here' = HereAt(p)
    BY <1>1 DEF Here, HereAt
  <2>5. Finished(p, f)
    BY <1>7, <1>9
  <2>6. CommentEnds' <=>
            /\ text[HereAt(p) - 1] = "/"
            /\ \E k \in f.pos.ix + 2 .. HereAt(p) - 2 : text[k] = "*"
            /\ \A k \in f.pos.ix + 3 .. HereAt(p) - 2 : ~(text[k - 1] = "*" /\ text[k] = "/")
    BY <1>1, <1>2, <2>4 DEF CommentEnds
  <2>7. g.id = "mlcomment" => CommentEnds'
    BY <1>2, <2>5, <2>6 DEF Finished
  <2>8. /\ g.id # "eof" =>
             g.lit = IF g.id = "rstr" THEN StripCR(SubSeq(text, g.pos.ix, HereAt(p) - 1))
                     ELSE SubSeq(text, g.pos.ix, HereAt(p) - 1)
        /\ \A k \in g.from .. (IF g.id = "eof" THEN Len(text) ELSE g.pos.ix - 1) :
              text[k] \in {" ", "tab", "cr"}
    BY <1>2, <2>5, Zenon DEF Finished, Blanks, IsBlank
  <2> QED
    BY <1>1, <2>3, <2>4, <2>7, <2>8, Zenon DEF TokenIsText
<1>10. Len(errs') # sc'.mark => TokenIsText'
  BY DEF TokenIsText, Clean
<1> QED
  BY <1>1, <1>5, <1>6, <1>7, <1>8, <1>9, <1>10 DEF ScanInv

-----------------------------------------------------------------------------
(* Each step preserves the invariant *)

\* A scan function is in progress.
LEMMA StepFacts ==
    ASSUME ScanInv, sc.fn # "idle"
    PROVE  /\ text \in Inputs /\ PlaceOK(at) /\ Shape(sc) /\ Started(at)
           /\ Cur(at) = EndRune <=> at.eof
           /\ PlaceOK(Read(at)) /\ Started(Read(at))
           /\ PlaceOK(Read(Read(at))) /\ Started(Read(Read(at)))
           /\ Cur(Read(at)) = EndRune <=> Read(at).eof
           /\ ~at.eof => HereAt(Read(at)) = HereAt(at) + 1
           /\ ~Read(at).eof => HereAt(Read(Read(at))) = HereAt(Read(at)) + 1
<1>1. text \in Inputs /\ PlaceOK(at) /\ Shape(sc) /\ Started(at)
  BY DEF ScanInv
<1>2. /\ PlaceOK(Read(at)) /\ Started(Read(at))
      /\ ~at.eof => HereAt(Read(at)) = HereAt(at) + 1
  BY <1>1, ReadFacts
<1>3. /\ PlaceOK(Read(Read(at))) /\ Started(Read(Read(at)))
      /\ ~Read(at).eof => HereAt(Read(Read(at))) = HereAt(Read(at)) + 1
  BY <1>1, <1>2, ReadFacts
<1>4. Cur(at) = EndRune <=> at.eof
  BY <1>1, CurFacts DEF Started
<1>5. Cur(Read(at)) = EndRune <=> Read(at).eof
  BY <1>1, <1>2, CurFacts DEF Started
<1> QED
  BY <1>1, <1>2, <1>3, <1>4, <1>5

\* Writing the current rune.
LEMMA WriteUpto ==
    ASSUME text \in Inputs, NEW p, PlaceOK(p), Started(p), ~p.eof,
           NEW f, Shape(f), Upto(f, HereAt(p) - 1)
    PROVE  Upto(Write(f, Cur(p)), HereAt(p))
<1>1. /\ Cur(p) # EndRune /\ HereAt(p) = p.ix /\ p.ix \in 1 .. Len(text)
      /\ Cur(p) = text[p.ix] /\ Len(text) \in Nat
  BY CurFacts, TextFacts DEF Started
<1>2. f.pos.ix \in Nat /\ f.pos.ix >= 1 /\ f.pos.ix <= p.ix
  <2>1. f.pos.ix \in 0 .. Len(text)
    BY DEF Shape, ExactPos
  <2> QED
    BY <1>1, <2>1 DEF Upto
<1>3. SubSeq(text, f.pos.ix, p.ix) = Append(SubSeq(text, f.pos.ix, p.ix - 1), text[p.ix])
  <2>1. p.ix \in Nat /\ p.ix >= 1 /\ p.ix <= Len(text)
    BY <1>1
  <2> QED
    BY <1>2, <2>1, OneMore
<1>4. Rune(Cur(p)) = text[p.ix]
  BY <1>1 DEF Rune
<1>5. /\ Write(f, Cur(p)).lit = Append(f.lit, text[p.ix])
      /\ Write(f, Cur(p)).pos = f.pos /\ Write(f, Cur(p)).from = f.from
  BY <1>4, WriteFacts
<1>6. f.lit = SubSeq(text, f.pos.ix, p.ix - 1) /\ Blanks(f.from, f.pos.ix - 1)
  BY <1>1 DEF Upto
<1> DEFINE w == Write(f, Cur(p))
<1>7. /\ w.lit = SubSeq(text, f.pos.ix, p.ix) /\ Blanks(f.from, f.pos.ix - 1)
      /\ w.pos = f.pos /\ w.from = f.from
  BY <1>3, <1>5, <1>6
<1>8. f.pos.ix >= 1 /\ f.pos.ix <= p.ix + 1 /\ p.ix <= Len(text)
  BY <1>1, <1>2
<1> HIDE DEF w
<1>9. Upto(w, p.ix)
  BY <1>7, <1>8, Zenon DEF Upto
<1> QED
  BY <1>1, <1>9 DEF w

\* Scan starts at the current rune.
LEMMA ScanKeeps == ASSUME ScanInv, Scan PROVE ScanInv'
<1> DEFINE p == IF at.ix = 0 THEN Read(at) ELSE at
<1> DEFINE f == [NoScan EXCEPT !.fn = "skip", !.mark = Len(errs),
                               !.from = IF p.eof THEN Len(text) + 1 ELSE p.ix]
<1>1. /\ text' = text /\ errs' = errs /\ at' = p /\ sc' = f
      /\ text \in Inputs /\ IsSeq(errs) /\ PlaceOK(at)
  BY DEF Scan, Goto, Silent, ScanInv
<1>2. PlaceOK(p) /\ Started(p)
  <2>1. CASE at.ix = 0
    BY <1>1, <2>1, ReadFacts
  <2>2. CASE at.ix # 0
    BY <1>1, <2>2, CurFacts DEF Started
  <2> QED
    BY <2>1, <2>2
<1>3. Len(errs) \in Nat /\ Len(text) \in Nat
  BY <1>1, TextFacts DEF IsSeq
<1>4. HereAt(p) \in Nat /\ f.from = HereAt(p)
  <2>1. HereAt(p) \in Nat
    BY <1>1, <1>2, <1>3, CurFacts
  <2> QED
    BY <2>1 DEF HereAt, NoScan
<1> HIDE DEF p
<1>5. /\ f.fn = "skip" /\ f.id = "none" /\ f.lit = <<>> /\ f.flag = FALSE
      /\ f.noread = FALSE /\ f.mark = Len(errs) /\ f.pos = [ix |-> 0, line |-> 1, col |-> 0]
      /\ f.esc = NoEsc
  BY DEF NoScan
<1>6. ExactPos(f.pos)
  <2>1. Lines(0) = {}
    BY DEF Lines
  <2>2. IsFiniteSet(Lines(0)) /\ Cardinality(Lines(0)) = 0
    BY <2>1, FS_EmptySet
  <2>3. IsStart(0, 0) /\ 0 \in 0 .. 0 /\ 0 \in 0 .. Len(text)
    BY <1>3 DEF IsStart
  <2> QED
    BY <1>5, <2>2, <2>3 DEF ExactPos
<1>7. f \in [fn : {f.fn}, id : {f.id}, lit : {f.lit}, pos : {f.pos}, quote : {f.quote},
             n : {f.n}, flag : {f.flag}, noread : {f.noread}, esc : {f.esc},
             from : {f.from}, mark : {f.mark}]
  BY DEF NoScan
<1>8. Shape(f)
  BY <1>3, <1>4, <1>5, <1>6, <1>7 DEF Shape, NoEsc
<1> HIDE DEF f
<1>9. Going(p, f)
  <2>1. \A m \in Nat : Blanks(m, m - 1)
    BY DEF Blanks
  <2>2. Blanks(f.from, HereAt(p) - 1)
    BY <1>4, <2>1
  <2> QED
    BY <1>5, <2>2 DEF Going, Functions, LiteralFunctions
<1>10. PlaceOK(at)' /\ Shape(sc)' /\ Going(at, sc)'
  BY <1>1, <1>2, <1>8, <1>9, SameText
<1>11. Started(at)' /\ sc'.mark <= Len(errs')
  BY <1>1, <1>2, <1>3, <1>5 DEF Started
<1>12. TokenIsText'
  BY <1>1, <1>5 DEF TokenIsText, Clean
<1> QED
  BY <1>1, <1>10, <1>11, <1>12 DEF ScanInv

\* skipWhitespace skips blanks.
LEMMA SkipKeeps == ASSUME ScanInv, SkipWhitespace PROVE ScanInv'
<1>1. /\ sc.fn = "skip" /\ IsBlank(Cur(at)) /\ Cur(at) # EndRune /\ errs' = errs
      /\ Goto(Read(at), sc)
  BY Zenon DEF SkipWhitespace, Silent, IsBlank, EndRune
<1>2. /\ text \in Inputs /\ PlaceOK(at) /\ Shape(sc) /\ ~at.eof
      /\ PlaceOK(Read(at)) /\ Started(Read(at)) /\ HereAt(Read(at)) = HereAt(at) + 1
  BY <1>1, StepFacts
<1>3. /\ HereAt(at) = at.ix /\ at.ix \in Int /\ Cur(at) = text[at.ix]
  BY <1>1, <1>2, CurFacts
<1>4. ASSUME Going(at, sc) PROVE Going(Read(at), sc)
  <2>1. /\ sc.id = "none" /\ sc.lit = <<>> /\ sc.flag = FALSE /\ sc.noread = FALSE
        /\ Blanks(sc.from, at.ix - 1)
    BY <1>1, <1>3, <1>4 DEF Going
  <2>2. sc.from \in Nat
    BY <1>2 DEF Shape
  <2>3. Blanks(sc.from, at.ix)
    <3> SUFFICES ASSUME NEW k \in sc.from .. at.ix
                 PROVE  IsBlank(text[k])
      BY DEF Blanks
    <3>1. k = at.ix \/ k \in sc.from .. at.ix - 1
      BY <1>3, <2>2
    <3> QED
      BY <1>1, <1>3, <2>1, <3>1 DEF Blanks
  <2>4. HereAt(Read(at)) - 1 = at.ix
    BY <1>2, <1>3
  <2> QED
    BY <1>1, <2>1, <2>3, <2>4 DEF Going, Functions, LiteralFunctions
<1>5. Well(Going(Read(at), sc))
  BY <1>1, <1>4 DEF Well, ScanInv
<1> QED
  BY <1>1, <1>2, <1>5, GotoKeeps

\* The caller takes the token, and may add errors.
LEMMA CallerKeeps == ASSUME ScanInv, Take \/ CallerErrs PROVE ScanInv'
<1>1. CASE Take
  <2> DEFINE g == [sc EXCEPT !.fn = "idle"]
  <2>1. sc' = g /\ UNCHANGED <<text, at, errs>>
    BY <1>1 DEF Take
  <2>2. g.fn = "idle" /\ Shape(g)
    BY DEF Shape, ScanInv
  <2> HIDE DEF g
  <2>3. Going(at, g)
    BY <2>2 DEF Going, Functions, LiteralFunctions
  <2>4. PlaceOK(at)' /\ Shape(sc)' /\ Going(at, sc)'
    BY <2>1, <2>2, <2>3, SameText DEF ScanInv
  <2>5. TokenIsText'
    BY <2>1, <2>2 DEF TokenIsText, Clean
  <2> QED
    BY <2>1, <2>2, <2>4, <2>5 DEF ScanInv
<1>2. CASE CallerErrs
  <2>1. sc.fn = "idle" /\ UNCHANGED <<text, at, sc>> /\ IsSeq(errs')
    BY <1>2 DEF CallerErrs, IsSeq
  <2>2. PlaceOK(at)' /\ Shape(sc)'
    BY <2>1, SameText DEF ScanInv
  <2>3. Going(at, sc)'
    BY <2>1 DEF Going, Functions, LiteralFunctions
  <2>4. TokenIsText'
    BY <2>1 DEF TokenIsText, Clean
  <2> QED
    BY <2>1, <2>2, <2>3, <2>4 DEF ScanInv
<1> QED
  BY <1>1, <1>2

\* g is the function that Scan calls for the rune at the current position.
Fresh(g) ==
    /\ Shape(g) /\ g.pos = Pos(at) /\ g.lit = sc.lit /\ g.from = sc.from
    /\ g.mark = sc.mark /\ g.flag = sc.flag /\ g.noread = sc.noread

\* The token begins where the blanks end.
LEMMA FreshUpto ==
    ASSUME ScanInv, sc.fn = "skip", Len(errs) = sc.mark, NEW g, Fresh(g), ~at.eof
    PROVE  /\ Upto(g, HereAt(at) - 1) /\ Upto(Write(g, Cur(at)), HereAt(at))
           /\ g.flag = FALSE /\ g.noread = FALSE /\ Blanks(g.from, g.pos.ix - 1)
<1>1. text \in Inputs /\ PlaceOK(at) /\ Started(at) /\ Cur(at) # EndRune
  BY StepFacts
<1>2. /\ HereAt(at) = at.ix /\ at.ix \in 1 .. Len(text) /\ Len(text) \in Nat
  BY <1>1, CurFacts, TextFacts
<1>3. /\ sc.lit = <<>> /\ sc.flag = FALSE /\ sc.noread = FALSE
      /\ Blanks(sc.from, at.ix - 1)
  BY <1>2 DEF ScanInv, Going
<1>4. /\ g.lit = <<>> /\ g.pos.ix = at.ix /\ g.from = sc.from /\ Shape(g)
      /\ g.flag = FALSE /\ g.noread = FALSE
  BY <1>3 DEF Fresh, Pos
<1>5. SubSeq(text, at.ix, at.ix - 1) = <<>>
  BY <1>2
<1>6. at.ix >= 1 /\ at.ix <= (at.ix - 1) + 1 /\ at.ix - 1 <= Len(text)
  BY <1>2
<1>7. Upto(g, at.ix - 1)
  BY <1>3, <1>4, <1>5, <1>6, Zenon DEF Upto
<1>8. Upto(g, HereAt(at) - 1)
  BY <1>2, <1>7
<1>9. Upto(Write(g, Cur(at)), HereAt(at))
  BY <1>1, <1>4, <1>8, WriteUpto
<1> QED
  BY <1>3, <1>4, <1>8, <1>9

\* A position of the scanner is one of its tokens.
LEMMA PosExact == ASSUME PlaceOK(at) PROVE ExactPos(Pos(at))
BY DEF PlaceOK, ExactPos, Pos

\* What a table of five distinct runes says of each of them.
LEMMA FiveRunes ==
    ASSUME NEW a, NEW b, NEW c, NEW d, NEW e, NEW x, NEW y,
           a # b, a # c, a # d, a # e, b # c, b # d, b # e, c # d, c # e, d # e,
           NEW r \in {a, b, c, d, e}, NEW o,
           o = [k \in {a, b, c, d, e} |->
                   CASE k = a -> [fn |-> "quoted", id |-> "str", quote |-> a, n |-> 0]
                     [] k = b -> [fn |-> "quoted", id |-> "char", quote |-> b, n |-> 0]
                     [] k = c -> [fn |-> "quoted", id |-> "class", quote |-> x, n |-> 0]
                     [] k = d -> [fn |-> "rawString", id |-> "rstr", quote |-> d, n |-> 0]
                     [] k = e -> [fn |-> "code", id |-> "code", quote |-> y, n |-> 1]]
    PROVE  \/ /\ o[r].fn = "quoted" /\ o[r].id \in {"str", "char", "class"}
              /\ o[r].quote \in {a, b, x}
           \/ o[r].fn = "rawString" /\ o[r].id = "rstr"
           \/ o[r].fn = "code" /\ o[r].id = "code"
<1>1. CASE r = a
  BY <1>1
<1>2. CASE r = b
  BY <1>2
<1>3. CASE r = c
  BY <1>3
<1>4. CASE r = d
  BY <1>4
<1>5. CASE r = e
  BY <1>5
<1> QED
  BY <1>1, <1>2, <1>3, <1>4, <1>5

\* The functions that Scan calls for the runes that open a token.
LEMMA OpeningFacts ==
    ASSUME NEW r \in DOMAIN Opening
    PROVE  /\ r # EndRune
           /\ \/ /\ Opening[r].fn = "quoted" /\ Opening[r].id \in {"str", "char", "class"}
                 /\ Opening[r].quote \in {Quote, Tick, "]"}
              \/ Opening[r].fn = "rawString" /\ Opening[r].id = "rstr"
              \/ Opening[r].fn = "code" /\ Opening[r].id = "code"
<1>1. r \in {Quote, Tick, "[", Backquote, "{"}
  BY DEF Opening
<1>2. r # EndRune
  BY <1>1, Zenon DEF EndRune, Quote, Tick, Backquote
<1>3. /\ Quote # Tick /\ Quote # "[" /\ Quote # Backquote /\ Quote # "{"
      /\ Tick # "[" /\ Tick # Backquote /\ Tick # "{"
      /\ "[" # Backquote /\ "[" # "{" /\ Backquote # "{"
  BY Zenon DEF Quote, Tick, Backquote
<1> QED
  BY <1>1, <1>2, <1>3, FiveRunes, Zenon DEF Opening

\* A token that is the text from its position on is finished.
LEMMA Ends ==
    ASSUME NEW p, NEW f, Upto(f, HereAt(p) - 1), f.id \notin {"eof", "rstr", "mlcomment"}
    PROVE  Finished(p, f)
BY DEF Upto, Finished

\* The switch of Scan calls the function for the rune it is at.
LEMMA DispatchKeeps == ASSUME ScanInv, Dispatch PROVE ScanInv'
<1> DEFINE f == [sc EXCEPT !.pos = Pos(at)]
<1>1. sc.fn = "skip" /\ errs' = errs
  BY DEF Dispatch, Silent
<1>2. /\ text \in Inputs /\ PlaceOK(at) /\ Shape(sc) /\ Started(at)
      /\ Cur(at) = EndRune <=> at.eof
      /\ PlaceOK(Read(at)) /\ Started(Read(at))
      /\ Cur(Read(at)) = EndRune <=> Read(at).eof
      /\ ~at.eof => HereAt(Read(at)) = HereAt(at) + 1
  BY <1>1, StepFacts
<1>3. Len(errs) = sc.mark => Going(at, sc)
  BY DEF ScanInv
<1>4. ExactPos(Pos(at)) /\ Len(text) \in Nat
  BY <1>2, PosExact, TextFacts
<1>5. CASE at.eof /\ Done(at, [f EXCEPT !.id = "eof"])
  <2> DEFINE g == [f EXCEPT !.id = "eof"]
  <2>1. Shape(g) /\ g.mark = sc.mark /\ g.from = sc.from /\ g.id = "eof"
    BY <1>2, <1>4 DEF Shape
  <2> HIDE DEF g
  <2>2. ASSUME Len(errs) = sc.mark PROVE Finished(at, g)
    <3>1. Blanks(sc.from, HereAt(at) - 1) /\ HereAt(at) - 1 = Len(text)
      BY <1>1, <1>3, <1>4, <1>5, <2>2 DEF Going, HereAt
    <3> QED
      BY <2>1, <3>1 DEF Finished
  <2> QED
    BY <1>1, <1>2, <1>5, <2>1, <2>2, DoneKeeps DEF Well, g
<1>6. CASE IsLetter(Cur(at)) /\ Goto(at, [f EXCEPT !.fn = "identifier", !.id = "ident"])
  <2> DEFINE g == [f EXCEPT !.fn = "identifier", !.id = "ident"]
  <2>1. Fresh(g) /\ g.fn = "identifier" /\ g.id = "ident"
    BY <1>2, <1>4 DEF Shape, Fresh
  <2>2. ~at.eof
    BY <1>2, <1>6, EndAssumption
  <2> HIDE DEF g
  <2>3. ASSUME Len(errs) = sc.mark PROVE Going(at, g)
    <3>1. Upto(g, HereAt(at) - 1)
      BY <1>1, <2>1, <2>2, <2>3, FreshUpto
    <3>2. Scanned(at, g)
      BY <1>2, <2>1, <3>1, CurFacts DEF Scanned, Ahead
    <3> QED
      BY <2>1, <3>2 DEF Going, LiteralFunctions
  <2>4. Shape(g) /\ g.mark = sc.mark
    BY <2>1 DEF Fresh
  <2> QED
    BY <1>1, <1>2, <1>6, <2>1, <2>3, <2>4, GotoKeeps DEF Well, g
<1>7. CASE Cur(at) \in DOMAIN Opening /\
           LET o == Opening[Cur(at)]
           IN  Goto(at, Write([f EXCEPT !.fn = o.fn, !.id = o.id, !.quote = o.quote,
                                        !.n = o.n], Cur(at)))
  <2> DEFINE o == Opening[Cur(at)]
  <2> DEFINE g == [f EXCEPT !.fn = o.fn, !.id = o.id, !.quote = o.quote, !.n = o.n]
  <2> DEFINE w == Write(g, Cur(at))
  <2>1. /\ Cur(at) # EndRune
        /\ \/ /\ o.fn = "quoted" /\ o.id \in {"str", "char", "class"}
              /\ o.quote \in {Quote, Tick, "]"}
           \/ o.fn = "rawString" /\ o.id = "rstr"
           \/ o.fn = "code" /\ o.id = "code"
    BY <1>7, OpeningFacts, Zenon
  <2>2. Goto(at, w)
    BY <1>7
  <2> HIDE DEF o
  <2>3. Fresh(g) /\ g.fn = o.fn /\ g.id = o.id /\ g.quote = o.quote
    BY <1>2, <1>4 DEF Shape, Fresh
  <2> HIDE DEF g
  <2>4. /\ Shape(w) /\ w.mark = sc.mark /\ w.fn = o.fn /\ w.id = o.id
        /\ w.quote = o.quote /\ w.noread = g.noread
    BY <2>3, WriteFacts DEF Fresh
  <2>5. o.fn \in {"quoted", "rawString", "code"}
    BY <2>1
  <2>6. ASSUME Len(errs) = sc.mark PROVE Going(at, w)
    <3>1. Upto(w, HereAt(at)) /\ g.noread = FALSE
      BY <1>1, <1>2, <2>1, <2>3, <2>6, FreshUpto
    <3>2. HereAt(at) \in Int
      BY <1>2, CurFacts
    <3> HIDE DEF w
    <3>3. Ahead(w) = 1
      BY <2>4, <2>5 DEF Ahead
    <3>4. HereAt(at) + Ahead(w) - 1 = HereAt(at)
      BY <3>2, <3>3
    <3>5. Scanned(at, w)
      BY <3>1, <3>4 DEF Scanned
    <3>6. w.fn = "quoted" => w.id \in {"str", "char", "class"} /\ w.quote \in {Quote, Tick, "]"}
      BY <2>1, <2>4, Zenon
    <3>7. (w.fn = "code" => w.id = "code") /\ (w.fn = "rawString" => w.id = "rstr")
      BY <2>1, <2>4, Zenon
    <3>8. w.noread = FALSE /\ w.fn \in {"quoted", "rawString", "code"}
      BY <2>4, <2>5, <3>1
    <3> QED
      BY <3>5, <3>6, <3>7, <3>8, Zenon DEF Going, LiteralFunctions
  <2> HIDE DEF w
  <2>7. w.fn # "done"
    BY <2>4, <2>5
  <2> QED
    BY <1>1, <1>2, <2>2, <2>4, <2>6, <2>7, GotoKeeps DEF Well
<1>8. CASE /\ Cur(at) = "/" /\ Cur(Read(at)) \in {"*", "/"}
           /\ Goto(Read(at), Write([f EXCEPT !.fn = "comment",
                       !.id = IF Cur(Read(at)) = "*" THEN "mlcomment" ELSE "lcomment"], Cur(at)))
  <2> DEFINE b == Read(at)
  <2>1. ~at.eof /\ ~b.eof
    <3>1. "/" # EndRune /\ "*" # EndRune
      BY Zenon DEF EndRune
    <3> QED
      BY <1>2, <1>8, <3>1, Zenon
  <2>2. PICK id \in {"mlcomment", "lcomment"} :
           Goto(b, Write([f EXCEPT !.fn = "comment", !.id = id], Cur(at)))
    BY <1>8, Zenon
  <2> DEFINE g == [f EXCEPT !.fn = "comment", !.id = id]
  <2> DEFINE w == Write(g, Cur(at))
  <2>3. Fresh(g) /\ g.fn = "comment" /\ g.id = id
    BY <1>2, <1>4 DEF Shape, Fresh
  <2> HIDE DEF g
  <2>4. /\ Shape(w) /\ w.mark = sc.mark /\ w.fn = "comment" /\ w.id = id
        /\ w.flag = g.flag /\ w.pos = Pos(at)
    BY <2>3, WriteFacts DEF Fresh
  <2>5. Goto(b, w)
    BY <2>2 DEF g
  <2>6. ASSUME Len(errs) = sc.mark PROVE Going(b, w)
    <3>1. Upto(w, HereAt(at)) /\ g.flag = FALSE
      BY <1>1, <2>1, <2>3, <2>6, FreshUpto
    <3> HIDE DEF w
    <3>2. /\ HereAt(at) \in Int /\ HereAt(b) = HereAt(at) + 1 /\ at.ix \in Int
          /\ HereAt(at) = at.ix /\ HereAt(b) = b.ix /\ b.ix \in Int
      BY <1>2, <2>1, CurFacts DEF HereAt
    <3>3. Ahead(w) = 0
      BY <2>4 DEF Ahead
    <3>4. HereAt(b) + Ahead(w) - 1 = HereAt(at)
      BY <3>2, <3>3
    <3>5. Scanned(b, w)
      BY <3>1, <3>4 DEF Scanned
    <3>6. w.pos.ix = at.ix /\ b.ix = at.ix + 1
      BY <2>4, <3>2 DEF Pos
    <3>7. w.pos.ix + 1 <= b.ix /\ w.pos.ix + 2 .. b.ix = {} /\ w.pos.ix + 3 .. b.ix = {}
      BY <3>2, <3>6
    <3>8. InComment(b, w)
      BY <2>2, <2>4, <3>1, <3>7, Zenon DEF InComment
    <3> QED
      BY <2>1, <2>4, <3>5, <3>8, Zenon DEF Going, LiteralFunctions
  <2> HIDE DEF w
  <2> QED
    BY <1>1, <1>2, <2>4, <2>5, <2>6, GotoKeeps DEF Well
<1>9. CASE /\ Cur(at) \in Operators
           /\ Done(Read(at), Write([f EXCEPT !.id = Cur(at)], Cur(at)))
  <2> DEFINE b == Read(at)
  <2> DEFINE g == [f EXCEPT !.id = Cur(at)]
  <2> DEFINE w == Write(g, Cur(at))
  <2>1. Cur(at) # EndRune /\ Cur(at) \notin {"eof", "rstr", "mlcomment"}
    BY <1>9, Zenon DEF Operators, EndRune, NL
  <2>2. Fresh(g) /\ g.id = Cur(at)
    BY <1>2, <1>4 DEF Shape, Fresh
  <2>3. Done(b, w)
    BY <1>9
  <2> HIDE DEF g
  <2>4. Shape(w) /\ w.mark = sc.mark /\ w.id = Cur(at)
    BY <2>2, WriteFacts DEF Fresh
  <2>5. ASSUME Len(errs) = sc.mark PROVE Finished(b, w)
    <3>1. Upto(w, HereAt(at))
      BY <1>1, <1>2, <2>1, <2>2, <2>5, FreshUpto
    <3> HIDE DEF w
    <3>2. HereAt(b) - 1 = HereAt(at)
      BY <1>2, <2>1, CurFacts
    <3> QED
      BY <2>1, <2>4, <3>1, <3>2, Ends
  <2> HIDE DEF w
  <2> QED
    BY <1>1, <1>2, <2>3, <2>4, <2>5, DoneKeeps DEF Well
<1> QED
  BY <1>5, <1>6, <1>7, <1>8, <1>9, Zenon DEF Dispatch

\* scanRuleDef scans one of the four operators.
LEMMA RuleDefKeeps == ASSUME ScanInv, ScanRuleDef PROVE ScanInv'
<1> DEFINE b == Read(at)
           g == [sc EXCEPT !.pos = Pos(at), !.id = "ruledef"]
           f == Write(g, Cur(at))
<1>1. sc.fn = "skip" /\ Cur(at) # EndRune /\ Cur(at) # "none"
  BY Zenon DEF ScanRuleDef, IsRuleDefStart, EndRune
<1>2. /\ text \in Inputs /\ PlaceOK(at) /\ Shape(sc) /\ Started(at) /\ ~at.eof
      /\ PlaceOK(b) /\ Started(b) /\ PlaceOK(Read(b)) /\ Started(Read(b))
      /\ Cur(b) = EndRune <=> b.eof
      /\ HereAt(b) = HereAt(at) + 1 /\ (~b.eof => HereAt(Read(b)) = HereAt(b) + 1)
  BY <1>1, StepFacts
<1>3. /\ HereAt(at) \in Int /\ HereAt(b) \in Int
  BY <1>2, CurFacts
<1>4. Fresh(g) /\ g.id = "ruledef"
  BY <1>2, PosExact DEF Shape, Fresh
<1>5. \/ Done(b, f) /\ errs' = errs
      \/ Cur(b) = "-" /\ Done(Read(b), Write(f, Cur(b))) /\ errs' = errs
      \/ \E h \in {f, Write(f, Cur(b))} : Done(Read(b), h) /\ \E what, q : Report(what, q)
  BY Zenon DEF ScanRuleDef, Silent
<1>6. "-" # EndRune
  BY Zenon DEF EndRune
<1> HIDE DEF g
<1>7. Shape(f) /\ f.id = "ruledef" /\ f.mark = sc.mark
  BY <1>4, WriteFacts DEF Fresh
<1>8. Len(errs) = sc.mark => Upto(f, HereAt(at))
  BY <1>1, <1>2, <1>4, FreshUpto
<1> HIDE DEF f
<1> DEFINE h == Write(f, Cur(b))
<1>9. Shape(h) /\ h.id = "ruledef" /\ h.mark = sc.mark
  BY <1>7, WriteFacts
<1>10. CASE Done(b, f) /\ errs' = errs
  <2>1. ASSUME Len(errs) = sc.mark PROVE Finished(b, f)
    <3>1. HereAt(b) - 1 = HereAt(at)
      BY <1>2, <1>3
    <3> QED
      BY <1>7, <1>8, <2>1, <3>1, Ends
  <2> QED
    BY <1>1, <1>2, <1>7, <1>10, <2>1, DoneKeeps DEF Well
<1>11. CASE Cur(b) = "-" /\ Done(Read(b), h) /\ errs' = errs
  <2>1. ~b.eof
    BY <1>2, <1>6, <1>11, Zenon
  <2>2. ASSUME Len(errs) = sc.mark PROVE Finished(Read(b), h)
    <3>1. HereAt(b) - 1 = HereAt(at) /\ HereAt(Read(b)) - 1 = HereAt(b)
      BY <1>2, <1>3, <2>1
    <3>2. Upto(f, HereAt(b) - 1)
      BY <1>8, <2>2, <3>1
    <3>3. Upto(h, HereAt(b))
      BY <1>2, <1>7, <2>1, <3>2, WriteUpto
    <3> HIDE DEF h
    <3> QED
      BY <1>9, <3>1, <3>3, Ends
  <2> HIDE DEF h
  <2>3. Done(Read(b), h) /\ errs' = errs
    BY <1>11, Zenon
  <2> QED
    BY <1>1, <1>2, <1>9, <2>2, <2>3, DoneKeeps DEF Well
<1>12. CASE \E k \in {f, h} : Done(Read(b), k) /\ \E what, q : Report(what, q)
  <2> HIDE DEF h
  <2>1. PICK k \in {f, h} : Done(Read(b), k) /\ \E what, q : Report(what, q)
    BY <1>12
  <2>2. Shape(k) /\ k.mark = sc.mark
    BY <1>7, <1>9
  <2>3. Well(Finished(Read(b), k))
    BY <2>1 DEF Well
  <2> QED
    BY <1>1, <1>2, <2>1, <2>2, <2>3, DoneKeeps
<1> QED
  BY <1>5, <1>10, <1>11, <1>12

\* A rune that begins no token is reported.
LEMMA InvalidKeeps == ASSUME ScanInv, InvalidCharacter PROVE ScanInv'
<1> DEFINE g == [sc EXCEPT !.pos = Pos(at), !.id = "invalid"]
           f == Write(g, Cur(at))
<1>1. sc.fn = "skip" /\ Done(Read(at), f) /\ \E what, q : Report(what, q)
  BY Zenon DEF InvalidCharacter
<1>2. PlaceOK(at) /\ Shape(sc) /\ PlaceOK(Read(at)) /\ Started(Read(at))
  BY <1>1, StepFacts
<1>3. Shape(g) /\ g.mark = sc.mark
  BY <1>2, PosExact DEF Shape
<1> HIDE DEF g
<1>4. Shape(f) /\ f.mark = sc.mark
  BY <1>3, WriteFacts
<1> HIDE DEF f
<1> QED
  BY <1>1, <1>2, <1>4, DoneKeeps DEF Well

\* scanIdentifier stops before the rune that ends the identifier.
LEMMA IdentifierKeeps == ASSUME ScanInv, ScanIdentifier PROVE ScanInv'
<1> DEFINE r == Cur(at)
           f == Write(sc, r)
<1>1. sc.fn = "identifier"
  BY DEF ScanIdentifier
<1>2. /\ text \in Inputs /\ PlaceOK(at) /\ Shape(sc) /\ Started(at)
      /\ r = EndRune <=> at.eof
      /\ PlaceOK(Read(at)) /\ Started(Read(at))
      /\ ~at.eof => HereAt(Read(at)) = HereAt(at) + 1
  BY <1>1, StepFacts
<1>3. HereAt(at) \in Int
  BY <1>2, CurFacts
<1>4. ASSUME Len(errs) = sc.mark PROVE Upto(sc, HereAt(at) - 1) /\ sc.id = "ident"
  <2>1. Scanned(at, sc) /\ sc.id = "ident"
    BY <1>1, <1>4 DEF ScanInv, Going, Functions
  <2>2. HereAt(at) + Ahead(sc) - 1 = HereAt(at) - 1
    BY <1>1, <1>3 DEF Ahead
  <2> QED
    BY <2>1, <2>2 DEF Scanned
<1>5. CASE (IsLetter(r) \/ IsDigit(r)) /\ Goto(Read(at), f) /\ Silent
  <2>1. ~at.eof
    BY <1>2, <1>5, EndAssumption
  <2>2. Shape(f) /\ f.fn = "identifier" /\ f.id = sc.id /\ f.mark = sc.mark
    BY <1>1, <1>2, WriteFacts
  <2>3. ASSUME Len(errs) = sc.mark PROVE Going(Read(at), f)
    <3>1. Upto(f, HereAt(at))
      BY <1>2, <1>4, <2>1, <2>3, WriteUpto
    <3> HIDE DEF f
    <3>2. HereAt(Read(at)) + Ahead(f) - 1 = HereAt(at)
      BY <1>2, <1>3, <2>1, <2>2 DEF Ahead
    <3>3. Scanned(Read(at), f)
      BY <3>1, <3>2 DEF Scanned
    <3> QED
      BY <1>4, <2>2, <2>3, <3>3 DEF Going, LiteralFunctions
  <2> HIDE DEF f
  <2> QED
    BY <1>1, <1>2, <1>5, <2>2, <2>3, GotoKeeps DEF Well, Silent
<1>6. CASE Done(at, sc) /\ \/ \E what, q : Report(what, q)
                           \/ Silent
  <2>1. Len(errs) = sc.mark => Finished(at, sc)
    BY <1>4, Ends
  <2>2. Well(Finished(at, sc))
    BY <1>6, <2>1 DEF Well, Silent
  <2> QED
    BY <1>1, <1>2, <1>6, <2>2, DoneKeeps
<1> QED
  BY <1>5, <1>6, Zenon DEF ScanIdentifier

\* The functions that look at the next rune have written the text up to it.
LEMMA NextFacts ==
    ASSUME ScanInv, sc.fn \in {"code", "rawString", "quoted"}
    PROVE  /\ HereAt(at) \in Int /\ HereAt(Read(at)) \in Int /\ HereAt(Read(Read(at))) \in Int
           /\ Len(errs) = sc.mark => Upto(sc, HereAt(at))
           /\ ~Read(at).eof => HereAt(Read(at)) - 1 = HereAt(at)
           /\ ~Read(at).eof => HereAt(Read(Read(at))) - 1 = HereAt(Read(at))
<1>1. /\ text \in Inputs /\ PlaceOK(at) /\ PlaceOK(Read(at)) /\ PlaceOK(Read(Read(at)))
      /\ ~at.eof => HereAt(Read(at)) = HereAt(at) + 1
      /\ ~Read(at).eof => HereAt(Read(Read(at))) = HereAt(Read(at)) + 1
      /\ at.eof => Read(at) = at
  BY StepFacts, ReadFacts
<1>2. HereAt(at) \in Int /\ HereAt(Read(at)) \in Int /\ HereAt(Read(Read(at))) \in Int
  BY <1>1, CurFacts
<1>3. ASSUME Len(errs) = sc.mark PROVE Upto(sc, HereAt(at))
  <2>1. Scanned(at, sc)
    BY <1>3 DEF ScanInv, Going, Functions
  <2>2. HereAt(at) + Ahead(sc) - 1 = HereAt(at)
    BY <1>2 DEF Ahead
  <2> QED
    BY <2>1, <2>2 DEF Scanned
<1>4. ASSUME ~Read(at).eof
      PROVE  HereAt(Read(at)) - 1 = HereAt(at) /\ HereAt(Read(Read(at))) - 1 = HereAt(Read(at))
  BY <1>1, <1>2, <1>4
<1> QED
  BY <1>2, <1>3, <1>4

\* The optional suffix is scanned with the literal.
LEMMA SuffixFacts ==
    ASSUME text \in Inputs, NEW p, PlaceOK(p), Started(p), NEW f, Shape(f)
    PROVE  /\ PlaceOK(Suffixed(p)) /\ Started(Suffixed(p)) /\ Shape(WithSuffix(f, p))
           /\ WithSuffix(f, p).mark = f.mark /\ WithSuffix(f, p).id = f.id
           /\ Upto(f, HereAt(p) - 1) => Upto(WithSuffix(f, p), HereAt(Suffixed(p)) - 1)
<1>1. "i" # EndRune
  BY Zenon DEF EndRune
<1>2. CASE Cur(p) = "i"
  <2>1. ~p.eof
    BY <1>1, <1>2, CurFacts
  <2>2. /\ PlaceOK(Read(p)) /\ Started(Read(p)) /\ HereAt(Read(p)) = HereAt(p) + 1
        /\ HereAt(p) \in Int
    BY <2>1, ReadFacts, CurFacts
  <2>3. HereAt(Read(p)) - 1 = HereAt(p)
    BY <2>2
  <2>4. Suffixed(p) = Read(p) /\ WithSuffix(f, p) = Write(f, Cur(p))
    BY <1>2 DEF Suffixed, WithSuffix
  <2>5. Upto(f, HereAt(p) - 1) => Upto(Write(f, Cur(p)), HereAt(p))
    BY <2>1, WriteUpto
  <2> QED
    BY <2>2, <2>3, <2>4, <2>5, WriteFacts
<1>3. CASE Cur(p) # "i"
  BY <1>3 DEF Suffixed, WithSuffix
<1> QED
  BY <1>2, <1>3

\* scanCode scans up to the brace that closes the block.
LEMMA CodeKeeps == ASSUME ScanInv, ScanCode PROVE ScanInv'
<1> DEFINE b == Read(at)
           f == Write(sc, Cur(b))
<1>1. sc.fn = "code"
  BY DEF ScanCode
<1>2. /\ text \in Inputs /\ PlaceOK(at) /\ Shape(sc) /\ Started(at)
      /\ PlaceOK(b) /\ Started(b) /\ PlaceOK(Read(b)) /\ Started(Read(b))
      /\ Cur(b) = EndRune <=> b.eof
  BY <1>1, StepFacts
<1>3. /\ HereAt(b) \in Int
      /\ Len(errs) = sc.mark => Upto(sc, HereAt(at)) /\ sc.id = "code"
      /\ ~b.eof => HereAt(b) - 1 = HereAt(at) /\ HereAt(Read(b)) - 1 = HereAt(b)
  BY <1>1, NextFacts DEF ScanInv, Going
<1>4. /\ Shape(f) /\ f.fn = "code" /\ f.id = sc.id /\ f.mark = sc.mark
  BY <1>1, <1>2, WriteFacts
<1>5. \/ Done(b, f) /\ \E what, q : Report(what, q)
      \/ ~b.eof /\ errs' = errs /\ \E n : Goto(b, [f EXCEPT !.n = n])
      \/ ~b.eof /\ errs' = errs /\ Done(Read(b), [f EXCEPT !.n = 0])
      \/ ~b.eof /\ errs' = errs /\ Goto(b, f)
  <2>1. "{" # EndRune /\ "}" # EndRune
    BY Zenon DEF EndRune
  <2>2. CASE Cur(b) = EndRune /\ Done(b, f) /\ Report("code block not terminated", b)
    BY <2>2, Zenon
  <2>3. CASE Cur(b) = "{" /\ Goto(b, [f EXCEPT !.n = @ + 1]) /\ Silent
    BY <1>2, <2>1, <2>3, Zenon DEF Silent
  <2>4. CASE Cur(b) = "}" /\ sc.n > 1 /\ Goto(b, [f EXCEPT !.n = @ - 1]) /\ Silent
    BY <1>2, <2>1, <2>4, Zenon DEF Silent
  <2>5. CASE Cur(b) = "}" /\ sc.n = 1 /\ Done(Read(b), [f EXCEPT !.n = 0]) /\ Silent
    BY <1>2, <2>1, <2>5, Zenon DEF Silent
  <2>6. CASE Cur(b) \notin {EndRune, "{", "}"} /\ Goto(b, f) /\ Silent
    BY <1>2, <2>6, Zenon DEF Silent
  <2> QED
    BY <2>2, <2>3, <2>4, <2>5, <2>6, Zenon DEF ScanCode
<1>6. ASSUME Len(errs) = sc.mark, ~b.eof PROVE Upto(f, HereAt(b))
  BY <1>2, <1>3, <1>6, WriteUpto
<1> HIDE DEF f
<1>7. CASE Done(b, f) /\ \E what, q : Report(what, q)
  BY <1>1, <1>2, <1>4, <1>7, DoneKeeps DEF Well
<1>8. ASSUME NEW g, Shape(g), g.fn = "code", g.id = f.id, g.mark = f.mark, g.pos = f.pos,
             g.lit = f.lit, g.from = f.from,
             ~b.eof, errs' = errs, Goto(b, g) \/ Done(Read(b), g)
      PROVE  ScanInv'
  <2>1. Len(errs) = sc.mark => Upto(g, HereAt(b))
    BY <1>6, <1>8 DEF Upto
  <2>2. ASSUME Len(errs) = sc.mark PROVE Going(b, g) /\ Finished(Read(b), g)
    <3>1. HereAt(b) + Ahead(g) - 1 = HereAt(b)
      BY <1>3, <1>8 DEF Ahead
    <3>2. Scanned(b, g)
      BY <2>1, <2>2, <3>1 DEF Scanned
    <3>3. Finished(Read(b), g)
      BY <1>3, <1>4, <1>8, <2>1, <2>2, Ends
    <3>4. Going(b, g)
      BY <1>3, <1>4, <1>8, <2>2, <3>2 DEF Going, LiteralFunctions
    <3> QED
      BY <3>3, <3>4
  <2>3. CASE Goto(b, g)
    BY <1>1, <1>2, <1>4, <1>8, <2>2, <2>3, GotoKeeps DEF Well
  <2>4. CASE Done(Read(b), g)
    BY <1>1, <1>2, <1>4, <1>8, <2>2, <2>4, DoneKeeps DEF Well
  <2> QED
    BY <1>8, <2>3, <2>4
<1>9. ASSUME NEW n
      PROVE  LET g == [f EXCEPT !.n = n]
             IN  /\ Shape(g) /\ g.fn = "code" /\ g.id = f.id /\ g.mark = f.mark /\ g.pos = f.pos
                 /\ g.lit = f.lit /\ g.from = f.from
  BY <1>4 DEF Shape
<1> QED
  BY <1>4, <1>5, <1>7, <1>8, <1>9

\* The functions on a raw string with the carriage returns left out.
LEMMA StripFacts ==
    ASSUME NEW f, Shape(f)
    PROVE  LET g == [f EXCEPT !.lit = StripCR(@)]
           IN  /\ Shape(g) /\ g.mark = f.mark /\ g.id = f.id /\ g.pos = f.pos
               /\ g.from = f.from /\ g.lit = StripCR(f.lit)
<1> DEFINE S(x) == StripCR(x)
<1> HIDE DEF S
<1> DEFINE g == [f EXCEPT !.lit = S(@)]
<1>1. /\ g.mark = f.mark /\ g.id = f.id /\ g.pos = f.pos
      /\ g.from = f.from /\ g.lit = S(f.lit)
  BY DEF Shape
<1>2. Shape(g)
  BY DEF Shape
<1> QED
  BY <1>1, <1>2 DEF S

\* scanRawString scans up to the next backquote.
LEMMA RawStringKeeps == ASSUME ScanInv, ScanRawString PROVE ScanInv'
<1> DEFINE b == Read(at)
           f == Write(sc, Cur(b))
           w == WithSuffix(f, Read(b))
           e == Suffixed(Read(b))
           s == [w EXCEPT !.lit = StripCR(@)]
           t == [sc EXCEPT !.lit = StripCR(@)]
<1>1. sc.fn = "rawString"
  BY DEF ScanRawString
<1>2. /\ text \in Inputs /\ PlaceOK(at) /\ Shape(sc) /\ Started(at)
      /\ PlaceOK(b) /\ Started(b) /\ PlaceOK(Read(b)) /\ Started(Read(b))
      /\ Cur(b) = EndRune <=> b.eof
  BY <1>1, StepFacts
<1>3. /\ HereAt(b) \in Int
      /\ Len(errs) = sc.mark => Upto(sc, HereAt(at)) /\ sc.id = "rstr"
      /\ ~b.eof => HereAt(b) - 1 = HereAt(at) /\ HereAt(Read(b)) - 1 = HereAt(b)
  BY <1>1, NextFacts DEF ScanInv, Going
<1>4. /\ Shape(f) /\ f.fn = "rawString" /\ f.id = sc.id /\ f.mark = sc.mark
  BY <1>1, <1>2, WriteFacts
<1>5. Shape(t) /\ t.mark = sc.mark
  BY <1>2, StripFacts
<1>6. \/ Done(b, t) /\ \E what, q : Report(what, q)
      \/ ~b.eof /\ errs' = errs /\ Done(e, s)
      \/ ~b.eof /\ errs' = errs /\ Goto(b, f)
  <2>1. Backquote # EndRune
    BY Zenon DEF EndRune, Backquote
  <2> QED
    BY <1>2, <2>1, Zenon DEF ScanRawString, Silent
<1>7. ASSUME Len(errs) = sc.mark, ~b.eof PROVE Upto(f, HereAt(b))
  BY <1>2, <1>3, <1>7, WriteUpto
<1> HIDE DEF f, t
<1>8. /\ PlaceOK(e) /\ Started(e) /\ Shape(w) /\ w.mark = sc.mark /\ w.id = sc.id
      /\ Upto(f, HereAt(Read(b)) - 1) => Upto(w, HereAt(e) - 1)
  BY <1>2, <1>4, SuffixFacts
<1> HIDE DEF e, w
<1>9. /\ Shape(s) /\ s.mark = w.mark /\ s.id = w.id /\ s.pos = w.pos
      /\ s.from = w.from /\ s.lit = StripCR(w.lit)
  BY <1>8, StripFacts
<1> HIDE DEF s
<1>10. CASE Done(b, t) /\ \E what, q : Report(what, q)
  BY <1>1, <1>2, <1>5, <1>10, DoneKeeps DEF Well
<1>11. CASE ~b.eof /\ errs' = errs /\ Done(e, s)
  <2>1. ASSUME Len(errs) = sc.mark PROVE Finished(e, s)
    <3>1. Upto(w, HereAt(e) - 1) /\ w.id = "rstr"
      BY <1>3, <1>7, <1>8, <1>11, <2>1
    <3>2. w.lit = SubSeq(text, w.pos.ix, HereAt(e) - 1) /\ Blanks(w.from, w.pos.ix - 1)
      BY <3>1 DEF Upto
    <3>3. s.lit = StripCR(SubSeq(text, s.pos.ix, HereAt(e) - 1)) /\ Blanks(s.from, s.pos.ix - 1)
      BY <1>9, <3>2, Zenon
    <3>4. s.id = "rstr"
      BY <1>9, <3>1
    <3> QED
      BY <3>3, <3>4, Zenon DEF Finished
  <2> QED
    BY <1>1, <1>2, <1>8, <1>9, <1>11, <2>1, DoneKeeps DEF Well
<1>12. CASE ~b.eof /\ errs' = errs /\ Goto(b, f)
  <2>1. ASSUME Len(errs) = sc.mark PROVE Going(b, f)
    <3>1. HereAt(b) + Ahead(f) - 1 = HereAt(b)
      BY <1>3, <1>4 DEF Ahead
    <3>2. Scanned(b, f)
      BY <1>7, <1>12, <2>1, <3>1 DEF Scanned
    <3> QED
      BY <1>3, <1>4, <2>1, <3>2 DEF Going, LiteralFunctions
  <2> QED
    BY <1>1, <1>2, <1>4, <1>12, <2>1, GotoKeeps DEF Well
<1> QED
  BY <1>6, <1>10, <1>11, <1>12

\* In a literal, as long as there was no error.
InLiteral(f) ==
    f.id \in {"str", "char", "class"} /\ f.quote \in {Quote, Tick, "]"} /\ ~f.noread

\* A literal goes on at p.
LEMMA LiteralGoes ==
    ASSUME text \in Inputs, NEW p, PlaceOK(p), NEW f, InLiteral(f),
           f.fn \in LiteralFunctions,
           f.fn \in {"escape", "className"} => ~p.eof,
           f.fn = "digits" => f.esc.base \in {8, 16},
           Upto(f, IF f.fn = "quoted" THEN HereAt(p) ELSE HereAt(p) - 1)
    PROVE  Going(p, f)
<1>1. HereAt(p) \in Int
  BY CurFacts
<1>2. f.fn \in Functions /\ f.fn \notin {"identifier", "comment", "code", "rawString", "skip"}
  BY DEF Functions, LiteralFunctions
<1>3. HereAt(p) + Ahead(f) - 1 = IF f.fn = "quoted" THEN HereAt(p) ELSE HereAt(p) - 1
  BY <1>1, <1>2 DEF Ahead
<1>4. Scanned(p, f)
  BY <1>3 DEF Scanned
<1> QED
  BY <1>2, <1>4, Zenon DEF Going, InLiteral

\* What a literal's function relies on.
LEMMA LiteralFacts ==
    ASSUME ScanInv, sc.fn \in LiteralFunctions, Len(errs) = sc.mark
    PROVE  /\ InLiteral(sc)
           /\ sc.fn = "quoted" => Upto(sc, HereAt(at))
           /\ sc.fn # "quoted" => Upto(sc, HereAt(at) - 1)
           /\ sc.fn \in {"escape", "className"} => ~at.eof
           /\ sc.fn = "digits" => sc.esc.base \in {8, 16}
<1>1. Going(at, sc)
  BY DEF ScanInv
<1>2. InLiteral(sc) /\ (sc.fn \in {"escape", "className"} => ~at.eof)
      /\ (sc.fn = "digits" => sc.esc.base \in {8, 16})
  BY <1>1, Zenon DEF Going, InLiteral
<1>3. Scanned(at, sc)
  BY <1>1 DEF Going, Functions, LiteralFunctions
<1>4. HereAt(at) \in Int
  BY CurFacts DEF ScanInv
<1>5. HereAt(at) + Ahead(sc) - 1 = IF sc.fn = "quoted" THEN HereAt(at) ELSE HereAt(at) - 1
  BY <1>4 DEF Ahead, LiteralFunctions
<1> QED
  BY <1>2, <1>3, <1>5, Zenon DEF Scanned

\* scanString, scanChar and scanClass scan up to the closing quote.
LEMMA QuotedKeeps == ASSUME ScanInv, ScanQuoted PROVE ScanInv'
<1> DEFINE b == IF sc.noread THEN at ELSE Read(at)
           f == [sc EXCEPT !.noread = FALSE]
           w == Write(f, Cur(b))
           e == Suffixed(Read(b))
           s == WithSuffix(w, Read(b))
<1>1. sc.fn = "quoted" /\ sc.fn \in LiteralFunctions
  BY DEF ScanQuoted, LiteralFunctions
<1>2. /\ text \in Inputs /\ PlaceOK(at) /\ Shape(sc) /\ Started(at)
      /\ PlaceOK(Read(at)) /\ Started(Read(at))
  BY <1>1, StepFacts
<1>3. PlaceOK(b) /\ Started(b) /\ PlaceOK(Read(b)) /\ Started(Read(b))
  BY <1>2, ReadFacts
<1>4. Cur(b) = EndRune <=> b.eof
  BY <1>2, <1>3, CurFacts DEF Started
<1>5. /\ Shape(f) /\ f.fn = "quoted" /\ f.id = sc.id /\ f.quote = sc.quote /\ f.mark = sc.mark
      /\ f.lit = sc.lit /\ f.pos = sc.pos /\ f.from = sc.from /\ f.noread = FALSE
  BY <1>1, <1>2 DEF Shape
<1>6. HereAt(b) \in Int /\ HereAt(at) \in Int /\ HereAt(Read(b)) \in Int
  BY <1>2, <1>3, CurFacts
<1>7. ASSUME Len(errs) = sc.mark
      PROVE  InLiteral(f) /\ (~b.eof => Upto(f, HereAt(b) - 1) /\ HereAt(Read(b)) - 1 = HereAt(b))
  <2>1. InLiteral(sc) /\ Upto(sc, HereAt(at))
    BY <1>1, <1>7, LiteralFacts
  <2>2. b = Read(at)
    BY <2>1 DEF InLiteral
  <2>3. InLiteral(f)
    BY <1>5, <2>1, Zenon DEF InLiteral
  <2>4. ASSUME ~b.eof PROVE HereAt(b) - 1 = HereAt(at) /\ HereAt(Read(b)) - 1 = HereAt(b)
    <3>1. at.eof => Read(at) = at
      BY <1>2, ReadFacts
    <3>2. ~at.eof => HereAt(Read(at)) = HereAt(at) + 1
      BY <1>2, ReadFacts
    <3>3. HereAt(Read(b)) = HereAt(b) + 1
      BY <1>2, <1>3, <2>4, ReadFacts
    <3> QED
      BY <1>6, <2>2, <2>4, <3>1, <3>2, <3>3
  <2>5. Upto(f, HereAt(at))
    BY <1>5, <2>1 DEF Upto
  <2> QED
    BY <2>3, <2>4, <2>5
<1>8. \/ Cur(b) = Backslash /\ Goto(b, [f EXCEPT !.fn = "escape", !.n = @ + 1]) /\ errs' = errs
      \/ Done(b, f) /\ \E what, q : Report(what, q)
      \/ /\ Cur(b) = sc.quote /\ Done(e, s)
         /\ errs' = errs \/ \E what, q : Report(what, q)
      \/ Cur(b) # EndRune /\ Goto(b, [w EXCEPT !.n = @ + 1]) /\ errs' = errs
  BY Zenon DEF ScanQuoted, Silent, LineEnd
<1> HIDE DEF b, f
<1>9. /\ Shape(w) /\ w.fn = "quoted" /\ w.id = sc.id /\ w.quote = sc.quote /\ w.mark = sc.mark
      /\ w.noread = FALSE
  BY <1>5, WriteFacts
<1>10. ASSUME Len(errs) = sc.mark, ~b.eof PROVE Upto(w, HereAt(b))
  BY <1>2, <1>3, <1>5, <1>7, <1>10, WriteUpto
<1> HIDE DEF w
<1>11. CASE Cur(b) = Backslash /\ Goto(b, [f EXCEPT !.fn = "escape", !.n = @ + 1]) /\ errs' = errs
  <2> DEFINE g == [f EXCEPT !.fn = "escape", !.n = @ + 1]
  <2>1. ~b.eof
    BY <1>4, <1>11, Zenon DEF Backslash, EndRune
  <2>2. /\ Shape(g) /\ g.fn = "escape" /\ g.id = f.id /\ g.quote = f.quote /\ g.mark = f.mark
        /\ g.lit = f.lit /\ g.pos = f.pos /\ g.from = f.from /\ g.noread = f.noread
    BY <1>5 DEF Shape
  <2>3. Goto(b, g)
    BY <1>11
  <2> HIDE DEF g
  <2>4. ASSUME Len(errs) = sc.mark PROVE Going(b, g)
    <3>1. InLiteral(g)
      BY <1>7, <2>2, <2>4, Zenon DEF InLiteral
    <3>2. Upto(g, HereAt(b) - 1)
      BY <1>7, <2>1, <2>2, <2>4, Zenon DEF Upto
    <3> QED
      BY <1>2, <1>3, <2>1, <2>2, <3>1, <3>2, LiteralGoes DEF LiteralFunctions
  <2> QED
    BY <1>1, <1>3, <1>5, <1>11, <2>2, <2>3, <2>4, GotoKeeps DEF Well
<1>12. CASE Done(b, f) /\ \E what, q : Report(what, q)
  BY <1>1, <1>3, <1>5, <1>12, DoneKeeps DEF Well
<1>13. CASE /\ Cur(b) = sc.quote /\ Done(e, s)
            /\ errs' = errs \/ \E what, q : Report(what, q)
  <2>1. /\ PlaceOK(e) /\ Started(e) /\ Shape(s) /\ s.mark = sc.mark /\ s.id = sc.id
        /\ Upto(w, HereAt(Read(b)) - 1) => Upto(s, HereAt(e) - 1)
    BY <1>2, <1>3, <1>9, SuffixFacts
  <2> HIDE DEF e, s
  <2>2. ASSUME Len(errs) = sc.mark PROVE Finished(e, s)
    <3>1. InLiteral(f)
      BY <1>7, <2>2
    <3>2. sc.quote # EndRune /\ s.id \notin {"eof", "rstr", "mlcomment"}
      BY <1>5, <2>1, <3>1, Zenon DEF InLiteral, Quote, Tick, EndRune
    <3>3. ~b.eof
      BY <1>4, <1>13, <3>2
    <3>4. Upto(s, HereAt(e) - 1)
      BY <1>7, <1>10, <2>1, <2>2, <3>3
    <3> QED
      BY <3>2, <3>4, Ends
  <2>3. Well(Finished(e, s))
    BY <1>13, <2>2 DEF Well
  <2> QED
    BY <1>1, <1>13, <2>1, <2>3, DoneKeeps
<1>14. CASE Cur(b) # EndRune /\ Goto(b, [w EXCEPT !.n = @ + 1]) /\ errs' = errs
  <2> DEFINE g == [w EXCEPT !.n = @ + 1]
  <2>1. /\ Shape(g) /\ g.fn = "quoted" /\ g.id = w.id /\ g.quote = w.quote /\ g.mark = w.mark
        /\ g.lit = w.lit /\ g.pos = w.pos /\ g.from = w.from /\ g.noread = w.noread
    BY <1>9 DEF Shape
  <2>2. Goto(b, g) /\ ~b.eof
    BY <1>4, <1>14
  <2> HIDE DEF g
  <2>3. ASSUME Len(errs) = sc.mark PROVE Going(b, g)
    <3>1. InLiteral(g)
      BY <1>5, <1>7, <1>9, <2>1, <2>3, Zenon DEF InLiteral
    <3>2. Upto(g, HereAt(b))
      BY <1>10, <2>1, <2>2, <2>3, Zenon DEF Upto
    <3> QED
      BY <1>2, <1>3, <2>1, <3>1, <3>2, LiteralGoes DEF LiteralFunctions
  <2> QED
    BY <1>1, <1>3, <1>9, <1>14, <2>1, <2>2, <2>3, GotoKeeps DEF Well
<1> QED
  BY <1>8, <1>11, <1>12, <1>13, <1>14

\* The functions scan the same token.
Alike(g, h) ==
    /\ g.id = h.id /\ g.quote = h.quote /\ g.mark = h.mark
    /\ g.lit = h.lit /\ g.pos = h.pos /\ g.from = h.from

\* A step in a literal or in an escape sequence.
LEMMA LiteralStep ==
    ASSUME ScanInv, sc.fn \in LiteralFunctions,
           NEW p, PlaceOK(p), Started(p), NEW h, NEW g, Shape(g), Alike(g, h), Goto(p, g),
           h.id = sc.id, h.quote = sc.quote, h.mark = sc.mark, g.fn \in LiteralFunctions,
           \/ \E what, q : Report(what, q)
           \/ /\ errs' = errs
              /\ Len(errs) = sc.mark =>
                    /\ g.fn \in {"escape", "className"} => ~p.eof
                    /\ g.fn = "digits" => g.esc.base \in {8, 16}
                    /\ ~g.noread
                    /\ Upto(h, IF g.fn = "quoted" THEN HereAt(p) ELSE HereAt(p) - 1)
    PROVE  ScanInv'
<1>1. sc.fn # "idle" /\ g.fn # "done" /\ g.mark = sc.mark /\ text \in Inputs
  BY DEF LiteralFunctions, Alike, ScanInv
<1>2. ASSUME Len(errs) = sc.mark,
             /\ g.fn \in {"escape", "className"} => ~p.eof
             /\ g.fn = "digits" => g.esc.base \in {8, 16}
             /\ ~g.noread
             /\ Upto(h, IF g.fn = "quoted" THEN HereAt(p) ELSE HereAt(p) - 1)
      PROVE  Going(p, g)
  <2>1. InLiteral(sc)
    BY <1>2, LiteralFacts
  <2>2. InLiteral(g)
    BY <1>2, <2>1, Zenon DEF InLiteral, Alike
  <2>3. Upto(g, IF g.fn = "quoted" THEN HereAt(p) ELSE HereAt(p) - 1)
    BY <1>2, Zenon DEF Upto, Alike
  <2> QED
    BY <1>1, <1>2, <2>2, <2>3, LiteralGoes
<1>3. Well(Going(p, g))
  BY <1>2 DEF Well
<1> QED
  BY <1>1, <1>3, GotoKeeps

\* scanEscape returns.
LEMMA ReturnedStep ==
    ASSUME ScanInv, sc.fn \in LiteralFunctions,
           NEW p, PlaceOK(p), Started(p), NEW h, Shape(h), NEW ok \in BOOLEAN,
           Goto(p, Returned(h, ok)), h.id = sc.id, h.quote = sc.quote, h.mark = sc.mark,
           \/ \E what, q : Report(what, q)
           \/ errs' = errs /\ ok /\ (Len(errs) = sc.mark => Upto(h, HereAt(p)))
    PROVE  ScanInv'
<1> DEFINE g == Returned(h, ok)
<1>1. Shape(g) /\ Alike(g, h) /\ g.fn = "quoted" /\ g.noread = ~ok
  BY ReturnedFacts DEF Alike
<1>2. Goto(p, g)
  OBVIOUS
<1> HIDE DEF g
<1>3. g.fn \in LiteralFunctions
  BY <1>1 DEF LiteralFunctions
<1> QED
  BY <1>1, <1>2, <1>3, LiteralStep

\* The digits of the numeric escapes.
LEMMA EscapeDigitsFacts ==
    ASSUME NEW r \in DOMAIN EscapeDigits
    PROVE  /\ r # EndRune /\ EscapeDigits[r].base = 16
           /\ \E n, max : EscapeDigits[r] = Digital(n, 16, max)
<1>1. r \in {"x", "u", "U"} /\ r # EndRune
  BY Zenon DEF EscapeDigits, EndRune
<1>2. \E n, max : EscapeDigits[r] = Digital(n, 16, max)
  <2> DEFINE D(n, max) == Digital(n, 16, max)
  <2>1. EscapeDigits[r] = CASE r = "x" -> D(2, 255) [] r = "u" -> D(4, MaxRune)
                            [] r = "U" -> D(8, MaxRune)
    BY <1>1 DEF EscapeDigits
  <2>2. EscapeDigits[r] \in {D(2, 255), D(4, MaxRune), D(8, MaxRune)}
    BY <1>1, <2>1
  <2> QED
    BY <2>2
<1>3. PICK n, max : EscapeDigits[r] = Digital(n, 16, max)
  BY <1>2
<1>4. EscapeDigits[r].base = 16
  BY <1>3 DEF Digital
<1> QED
  BY <1>1, <1>2, <1>4, Zenon

\* h at the start of an escape with digits.
AtDigits(g, h, e) == g = [h EXCEPT !.fn = "digits", !.esc = e]

\* What it changes.
LEMMA DigitsShape ==
    ASSUME NEW h, Shape(h), NEW g, NEW e, AtDigits(g, h, e),
           NEW n, NEW base, NEW max, e = Digital(n, base, max)
    PROVE  /\ Shape(g) /\ Alike(g, h) /\ g.fn = "digits"
           /\ g.esc.base = base /\ g.noread = h.noread
<1> USE DEF AtDigits
<1>1. e \in [n : {e.n}, base : {e.base}, max : {e.max}, x : {e.x}] /\ e.base = base
  BY DEF Digital
<1>2. /\ g.fn = "digits" /\ g.id = h.id /\ g.lit = h.lit /\ g.pos = h.pos
      /\ g.quote = h.quote /\ g.noread = h.noread /\ g.esc = e
      /\ g.from = h.from /\ g.mark = h.mark
  BY DEF Shape
<1>3. g \in [fn : {g.fn}, id : {g.id}, lit : {g.lit}, pos : {g.pos}, quote : {g.quote},
             n : {g.n}, flag : {g.flag}, noread : {g.noread}, esc : {g.esc},
             from : Nat, mark : Nat]
  BY DEF Shape
<1>4. Shape(g)
  BY <1>1, <1>2, <1>3 DEF Shape
<1> QED
  BY <1>1, <1>2, <1>4 DEF Alike

\* scanEscape looks at the rune after the backslash.
LEMMA EscapeKeeps == ASSUME ScanInv, ScanEscape PROVE ScanInv'
<1> DEFINE f == Write(sc, Cur(at))
           b == Read(at)
           w == Write(f, Cur(b))
<1>1. sc.fn = "escape" /\ sc.fn \in LiteralFunctions /\ sc.fn # "idle"
  BY DEF ScanEscape, LiteralFunctions
<1>2. /\ text \in Inputs /\ PlaceOK(at) /\ Shape(sc) /\ Started(at)
      /\ PlaceOK(b) /\ Started(b) /\ PlaceOK(Read(b)) /\ Started(Read(b))
      /\ Cur(b) = EndRune <=> b.eof
      /\ ~at.eof => HereAt(b) = HereAt(at) + 1
      /\ ~b.eof => HereAt(Read(b)) = HereAt(b) + 1
  BY <1>1, StepFacts
<1>3. HereAt(at) \in Int /\ HereAt(b) \in Int /\ HereAt(Read(b)) \in Int
  BY <1>2, CurFacts
<1>4. /\ Shape(f) /\ f.id = sc.id /\ f.quote = sc.quote /\ f.mark = sc.mark
      /\ f.noread = sc.noread
  BY <1>2, WriteFacts
<1>5. ASSUME Len(errs) = sc.mark PROVE InLiteral(sc) /\ Upto(f, HereAt(b) - 1)
  <2>1. InLiteral(sc) /\ Upto(sc, HereAt(at) - 1) /\ ~at.eof
    BY <1>1, <1>5, LiteralFacts
  <2>2. Upto(f, HereAt(at))
    BY <1>2, <2>1, WriteUpto
  <2>3. HereAt(b) - 1 = HereAt(at)
    BY <1>2, <1>3, <2>1
  <2> QED
    BY <2>1, <2>2, <2>3
<1>6. \/ /\ Cur(b) # sc.quote => Cur(b) # EndRune
         /\ Goto(b, Returned(w, TRUE)) /\ errs' = errs
      \/ Goto(b, [f EXCEPT !.fn = "digits", !.esc = Digital(3, 8, 255)]) /\ errs' = errs
      \/ /\ Cur(b) \in DOMAIN EscapeDigits /\ errs' = errs
         /\ Goto(Read(b), [w EXCEPT !.fn = "digits", !.esc = EscapeDigits[Cur(b)]])
      \/ Cur(b) # EndRune /\ Goto(Read(b), [w EXCEPT !.fn = "unicodeClass"]) /\ errs' = errs
      \/ \E p \in {b, Read(b)} : Goto(p, Returned(w, FALSE)) /\ \E what, q : Report(what, q)
  <2>1. /\ "a" # EndRune /\ "b" # EndRune /\ "f" # EndRune /\ "n" # EndRune /\ "r" # EndRune
        /\ "t" # EndRune /\ "v" # EndRune /\ Backslash # EndRune /\ "p" # EndRune
    BY Zenon DEF EndRune, Backslash
  <2> QED
    BY <2>1, Zenon DEF ScanEscape, Silent
<1> HIDE DEF f
<1>7. /\ Shape(w) /\ w.id = sc.id /\ w.quote = sc.quote /\ w.mark = sc.mark
      /\ w.noread = sc.noread
  BY <1>4, WriteFacts
<1>8. ASSUME Len(errs) = sc.mark, ~b.eof
      PROVE  Upto(w, HereAt(b)) /\ HereAt(Read(b)) - 1 = HereAt(b)
  BY <1>2, <1>3, <1>4, <1>5, <1>8, WriteUpto
<1> HIDE DEF w
<1>9. CASE /\ Cur(b) # sc.quote => Cur(b) # EndRune
           /\ Goto(b, Returned(w, TRUE)) /\ errs' = errs
  <2>1. ASSUME Len(errs) = sc.mark PROVE Upto(w, HereAt(b))
    <3>1. sc.quote # EndRune
      BY <1>5, <2>1, Zenon DEF InLiteral, Quote, Tick, EndRune
    <3> QED
      BY <1>2, <1>8, <1>9, <2>1, <3>1
  <2> QED
    BY <1>1, <1>2, <1>7, <1>9, <2>1, ReturnedStep
<1>10. CASE Goto(b, [f EXCEPT !.fn = "digits", !.esc = Digital(3, 8, 255)]) /\ errs' = errs
  <2> DEFINE e == Digital(3, 8, 255)
             g == [f EXCEPT !.fn = "digits", !.esc = e]
  <2>1. Goto(b, g)
    BY <1>10
  <2> HIDE DEF e
  <2>2. e = Digital(3, 8, 255)
    BY DEF e
  <2>3. AtDigits(g, f, e)
    BY DEF AtDigits
  <2> HIDE DEF g
  <2>4. Shape(g) /\ Alike(g, f) /\ g.fn = "digits" /\ g.esc.base = 8 /\ g.noread = f.noread
    BY <1>4, <2>2, <2>3, DigitsShape
  <2>5. g.fn \in LiteralFunctions
    BY <2>4 DEF LiteralFunctions
  <2>6. Len(errs) = sc.mark => ~g.noread /\ Upto(f, HereAt(b) - 1)
    BY <1>4, <1>5, <2>4 DEF InLiteral
  <2> QED
    BY <1>1, <1>2, <1>4, <1>10, <2>4, <2>1, <2>5, <2>6, LiteralStep
<1>11. CASE /\ Cur(b) \in DOMAIN EscapeDigits /\ errs' = errs
            /\ Goto(Read(b), [w EXCEPT !.fn = "digits", !.esc = EscapeDigits[Cur(b)]])
  <2>1. PICK n, max : EscapeDigits[Cur(b)] = Digital(n, 16, max)
    BY <1>11, EscapeDigitsFacts
  <2>2. ~b.eof
    BY <1>2, <1>11, EscapeDigitsFacts
  <2> DEFINE e == EscapeDigits[Cur(b)]
             g == [w EXCEPT !.fn = "digits", !.esc = e]
  <2>3. Goto(Read(b), g)
    BY <1>11
  <2>4. e = Digital(n, 16, max)
    BY <2>1
  <2> HIDE DEF e
  <2>5. AtDigits(g, w, e)
    BY DEF AtDigits
  <2> HIDE DEF g
  <2>6. Shape(g) /\ Alike(g, w) /\ g.fn = "digits" /\ g.esc.base = 16 /\ g.noread = w.noread
    BY <1>7, <2>4, <2>5, DigitsShape
  <2>7. g.fn \in LiteralFunctions
    BY <2>6 DEF LiteralFunctions
  <2>8. Len(errs) = sc.mark => ~g.noread /\ Upto(w, HereAt(Read(b)) - 1)
    BY <1>5, <1>7, <1>8, <2>2, <2>6 DEF InLiteral
  <2> QED
    BY <1>1, <1>2, <1>7, <1>11, <2>6, <2>3, <2>7, <2>8, LiteralStep
<1>12. CASE Cur(b) # EndRune /\ Goto(Read(b), [w EXCEPT !.fn = "unicodeClass"]) /\ errs' = errs
  <2> DEFINE g == [w EXCEPT !.fn = "unicodeClass"]
  <2>1. Shape(g) /\ Alike(g, w) /\ g.fn = "unicodeClass" /\ g.noread = w.noread
    BY <1>7 DEF Shape, Alike
  <2>2. Goto(Read(b), g)
    BY <1>12
  <2> HIDE DEF g
  <2>3. g.fn \in LiteralFunctions
    BY <2>1 DEF LiteralFunctions
  <2>4. Len(errs) = sc.mark => ~g.noread /\ Upto(w, HereAt(Read(b)) - 1)
    BY <1>2, <1>5, <1>7, <1>8, <1>12, <2>1 DEF InLiteral
  <2> QED
    BY <1>1, <1>2, <1>7, <1>12, <2>1, <2>2, <2>3, <2>4, LiteralStep
<1>13. CASE \E p \in {b, Read(b)} : Goto(p, Returned(w, FALSE)) /\ \E what, q : Report(what, q)
  <2>1. PICK p \in {b, Read(b)} : Goto(p, Returned(w, FALSE)) /\ \E what, q : Report(what, q)
    BY <1>13
  <2>2. PlaceOK(p) /\ Started(p)
    BY <1>2
  <2> QED
    BY <1>1, <1>7, <2>1, <2>2, ReturnedStep
<1> QED
  BY <1>6, <1>9, <1>10, <1>11, <1>12, <1>13

\* After \p: a letter, or the name of a class between braces.
LEMMA UnicodeClassKeeps == ASSUME ScanInv, ScanUnicodeClass PROVE ScanInv'
<1> DEFINE w == Write(sc, Cur(at))
           g == [sc EXCEPT !.fn = "className"]
<1>1. sc.fn = "unicodeClass" /\ sc.fn \in LiteralFunctions /\ sc.fn # "idle"
  BY DEF ScanUnicodeClass, LiteralFunctions
<1>2. /\ text \in Inputs /\ PlaceOK(at) /\ Shape(sc) /\ Started(at)
      /\ Cur(at) = EndRune <=> at.eof
  BY <1>1, StepFacts
<1>3. /\ Shape(w) /\ w.id = sc.id /\ w.quote = sc.quote /\ w.mark = sc.mark
  BY <1>2, WriteFacts
<1>4. Shape(g) /\ Alike(g, sc) /\ g.fn = "className" /\ g.noread = sc.noread
  BY <1>2 DEF Shape, Alike
<1>5. \/ Goto(at, Returned(sc, FALSE)) /\ \E what, q : Report(what, q)
      \/ Cur(at) # EndRune /\ Goto(at, g) /\ errs' = errs
      \/ Cur(at) # EndRune /\ Goto(at, Returned(w, TRUE)) /\ errs' = errs
  <2>1. "{" # EndRune
    BY Zenon DEF EndRune
  <2> QED
    BY <2>1, Zenon DEF ScanUnicodeClass, Silent, LineEnd
<1>6. ASSUME Len(errs) = sc.mark PROVE ~sc.noread /\ Upto(sc, HereAt(at) - 1)
  BY <1>1, <1>6, LiteralFacts DEF InLiteral
<1>7. ASSUME Len(errs) = sc.mark, ~at.eof PROVE Upto(w, HereAt(at))
  BY <1>2, <1>6, <1>7, WriteUpto
<1> HIDE DEF w, g
<1>8. CASE Goto(at, Returned(sc, FALSE)) /\ \E what, q : Report(what, q)
  BY <1>1, <1>2, <1>8, ReturnedStep
<1>9. CASE Cur(at) # EndRune /\ Goto(at, g) /\ errs' = errs
  <2>1. g.fn \in LiteralFunctions
    BY <1>4 DEF LiteralFunctions
  <2> QED
    BY <1>1, <1>2, <1>4, <1>6, <1>9, <2>1, LiteralStep
<1>10. CASE Cur(at) # EndRune /\ Goto(at, Returned(w, TRUE)) /\ errs' = errs
  BY <1>1, <1>2, <1>3, <1>7, <1>10, ReturnedStep
<1> QED
  BY <1>5, <1>8, <1>9, <1>10

\* The name of a Unicode class ends with a brace.
LEMMA ClassNameKeeps == ASSUME ScanInv, ScanClassName PROVE ScanInv'
<1> DEFINE h == Write(sc, Cur(at))
           f == [h EXCEPT !.esc.n = @ + 1]
           b == Read(at)
           w == Write(f, Cur(b))
<1>1. sc.fn = "className" /\ sc.fn \in LiteralFunctions /\ sc.fn # "idle"
  BY DEF ScanClassName, LiteralFunctions
<1>2. /\ text \in Inputs /\ PlaceOK(at) /\ Shape(sc) /\ Started(at)
      /\ PlaceOK(b) /\ Started(b)
      /\ Cur(b) = EndRune <=> b.eof
      /\ ~at.eof => HereAt(b) = HereAt(at) + 1
  BY <1>1, StepFacts
<1>3. HereAt(at) \in Int /\ HereAt(b) \in Int
  BY <1>2, CurFacts
<1>4. /\ Shape(h) /\ h.id = sc.id /\ h.quote = sc.quote /\ h.mark = sc.mark
      /\ h.noread = sc.noread /\ h.fn = "className"
  BY <1>1, <1>2, WriteFacts
<1>5. \/ Goto(b, Returned(f, FALSE)) /\ \E what, q : Report(what, q)
      \/ /\ Cur(b) # EndRune /\ Goto(b, Returned(w, TRUE))
         /\ errs' = errs \/ \E what, q : Report(what, q)
      \/ Cur(b) # EndRune /\ Goto(b, f) /\ errs' = errs
  <2>1. "}" # EndRune
    BY Zenon DEF EndRune
  <2> QED
    BY <2>1, Zenon DEF ScanClassName, Silent, LineEnd
<1>6. ASSUME Len(errs) = sc.mark PROVE ~sc.noread /\ Upto(h, HereAt(b) - 1)
  <2>1. InLiteral(sc) /\ Upto(sc, HereAt(at) - 1) /\ ~at.eof
    BY <1>1, <1>6, LiteralFacts
  <2>2. Upto(h, HereAt(at))
    BY <1>2, <2>1, WriteUpto
  <2>3. HereAt(b) - 1 = HereAt(at)
    BY <1>2, <1>3, <2>1
  <2> QED
    BY <2>1, <2>2, <2>3 DEF InLiteral
<1> HIDE DEF h
<1>7. Shape(f) /\ Alike(f, h) /\ f.fn = "className" /\ f.noread = h.noread
  BY <1>4 DEF Shape, Alike
<1> HIDE DEF f
<1>8. f.id = sc.id /\ f.quote = sc.quote /\ f.mark = sc.mark
  BY <1>4, <1>7 DEF Alike
<1>9. Shape(w) /\ w.id = sc.id /\ w.quote = sc.quote /\ w.mark = sc.mark
  BY <1>7, <1>8, WriteFacts
<1>10. Len(errs) = sc.mark => Upto(f, HereAt(b) - 1)
  BY <1>6, <1>7, Zenon DEF Upto, Alike
<1>11. ASSUME Len(errs) = sc.mark, ~b.eof PROVE Upto(w, HereAt(b))
  BY <1>2, <1>7, <1>10, <1>11, WriteUpto
<1> HIDE DEF w
<1>12. CASE Goto(b, Returned(f, FALSE)) /\ \E what, q : Report(what, q)
  BY <1>1, <1>2, <1>7, <1>8, <1>12, ReturnedStep
<1>13. CASE /\ Cur(b) # EndRune /\ Goto(b, Returned(w, TRUE))
            /\ errs' = errs \/ \E what, q : Report(what, q)
  BY <1>1, <1>2, <1>9, <1>11, <1>13, ReturnedStep
<1>14. CASE Cur(b) # EndRune /\ Goto(b, f) /\ errs' = errs
  <2>1. f.fn \in LiteralFunctions
    BY <1>7 DEF LiteralFunctions
  <2> QED
    BY <1>1, <1>2, <1>4, <1>6, <1>7, <1>14, <2>1, LiteralStep
<1> QED
  BY <1>5, <1>12, <1>13, <1>14

\* The digits of a numeric escape.
LEMMA DigitsKeeps == ASSUME ScanInv, ScanDigits PROVE ScanInv'
<1> DEFINE f == Write(sc, Cur(at))
<1>1. sc.fn = "digits" /\ sc.fn \in LiteralFunctions /\ sc.fn # "idle"
  BY DEF ScanDigits, LiteralFunctions
<1>2. /\ text \in Inputs /\ PlaceOK(at) /\ Shape(sc) /\ Started(at)
      /\ Cur(at) = EndRune <=> at.eof
      /\ PlaceOK(Read(at)) /\ Started(Read(at))
      /\ ~at.eof => HereAt(Read(at)) = HereAt(at) + 1
  BY <1>1, StepFacts
<1>3. HereAt(at) \in Int /\ HereAt(Read(at)) \in Int
  BY <1>2, CurFacts
<1>4. /\ Shape(f) /\ f.id = sc.id /\ f.quote = sc.quote /\ f.mark = sc.mark
      /\ f.noread = sc.noread /\ f.esc = sc.esc /\ f.fn = "digits"
  BY <1>1, <1>2, WriteFacts
<1>5. ASSUME Len(errs) = sc.mark
      PROVE  ~sc.noread /\ Upto(sc, HereAt(at) - 1) /\ sc.esc.base \in {8, 16}
  BY <1>1, <1>5, LiteralFacts DEF InLiteral
<1>6. ASSUME Len(errs) = sc.mark, DigitVal(Cur(at)) < sc.esc.base
      PROVE  ~at.eof /\ Upto(f, HereAt(at))
  <2>1. Cur(at) # EndRune
    BY <1>5, <1>6, EndAssumption DEF DigitVal
  <2> QED
    BY <1>2, <1>5, <1>6, <2>1, WriteUpto
<1>7. \/ \E p \in {at, Read(at)} : Goto(p, Returned(f, FALSE)) /\ \E what, q : Report(what, q)
      \/ /\ DigitVal(Cur(at)) < sc.esc.base /\ errs' = errs
         /\ \E x : Goto(Read(at), [f EXCEPT !.esc.n = @ - 1, !.esc.x = x])
      \/ DigitVal(Cur(at)) < sc.esc.base /\ errs' = errs /\ Goto(at, Returned(f, TRUE))
  BY Zenon DEF ScanDigits, Silent
<1> HIDE DEF f
<1>8. CASE \E p \in {at, Read(at)} : Goto(p, Returned(f, FALSE)) /\ \E what, q : Report(what, q)
  <2>1. PICK p \in {at, Read(at)} : Goto(p, Returned(f, FALSE)) /\ \E what, q : Report(what, q)
    BY <1>8
  <2>2. PlaceOK(p) /\ Started(p)
    BY <1>2
  <2> QED
    BY <1>1, <1>4, <2>1, <2>2, ReturnedStep
<1>9. CASE /\ DigitVal(Cur(at)) < sc.esc.base /\ errs' = errs
           /\ \E x : Goto(Read(at), [f EXCEPT !.esc.n = @ - 1, !.esc.x = x])
  <2>1. PICK x : Goto(Read(at), [f EXCEPT !.esc.n = @ - 1, !.esc.x = x])
    BY <1>9
  <2> DEFINE g == [f EXCEPT !.esc.n = @ - 1, !.esc.x = x]
  <2>2. /\ Shape(g) /\ Alike(g, f) /\ g.fn = "digits" /\ g.noread = f.noread
        /\ g.esc.base = f.esc.base
    BY <1>4 DEF Shape, Alike
  <2>3. Goto(Read(at), g)
    BY <2>1
  <2> HIDE DEF g
  <2>4. g.fn \in LiteralFunctions
    BY <2>2 DEF LiteralFunctions
  <2>5. ASSUME Len(errs) = sc.mark
        PROVE  ~g.noread /\ g.esc.base \in {8, 16} /\ Upto(f, HereAt(Read(at)) - 1)
    <3>1. HereAt(Read(at)) - 1 = HereAt(at)
      BY <1>2, <1>3, <1>6, <1>9, <2>5
    <3> QED
      BY <1>4, <1>5, <1>6, <1>9, <2>2, <2>5, <3>1
  <2> QED
    BY <1>1, <1>2, <1>4, <1>9, <2>2, <2>3, <2>4, <2>5, LiteralStep
<1>10. CASE DigitVal(Cur(at)) < sc.esc.base /\ errs' = errs /\ Goto(at, Returned(f, TRUE))
  BY <1>1, <1>2, <1>4, <1>6, <1>10, ReturnedStep
<1> QED
  BY <1>7, <1>8, <1>9, <1>10

\* One more rune of a comment that has no end yet.
LEMMA CommentRune ==
    ASSUME NEW t, NEW i \in Int, NEW n \in Int, i + 1 <= n - 1,
           NEW star, NEW slash, star # slash, NEW seen \in BOOLEAN,
           seen <=> \E k \in i + 2 .. n - 1 : t[k] = star,
           \A k \in i + 3 .. n - 1 : ~(t[k - 1] = star /\ t[k] = slash),
           t[n] = slash => ~seen
    PROVE  /\ t[n] = star => \E k \in i + 2 .. n : t[k] = star
           /\ t[n] # star => (seen <=> \E k \in i + 2 .. n : t[k] = star)
           /\ \A k \in i + 3 .. n : ~(t[k - 1] = star /\ t[k] = slash)
<1>1. n \in i + 2 .. n /\ \A k \in i + 2 .. n : k = n \/ k \in i + 2 .. n - 1
  OBVIOUS
<1>2. \A k \in i + 2 .. n - 1 : k \in i + 2 .. n
  OBVIOUS
<1>3. t[n] = star => \E k \in i + 2 .. n : t[k] = star
  BY <1>1
<1>4. t[n] # star => (seen <=> \E k \in i + 2 .. n : t[k] = star)
  BY <1>1, <1>2
<1>5. ASSUME NEW k \in i + 3 .. n, t[k - 1] = star, t[k] = slash
      PROVE  FALSE
  <2>1. k = n \/ k \in i + 3 .. n - 1
    OBVIOUS
  <2>2. CASE k = n
    <3>1. n - 1 \in i + 2 .. n - 1 /\ t[n - 1] = star /\ t[n] = slash
      BY <1>5, <2>2
    <3> QED
      BY <3>1
  <2>3. CASE k \in i + 3 .. n - 1
    BY <1>5, <2>3
  <2> QED
    BY <2>1, <2>2, <2>3
<1> QED
  BY <1>3, <1>4, <1>5

\* scanComment scans up to the end of the line, or up to a slash after a star.
LEMMA CommentKeeps == ASSUME ScanInv, ScanComment PROVE ScanInv'
<1> DEFINE f == Write(sc, Cur(at))
           b == Read(at)
           w == Write(f, Cur(b))
           g == [f EXCEPT !.flag = TRUE]
<1>1. sc.fn = "comment"
  BY Zenon DEF ScanComment
<1>2. /\ text \in Inputs /\ PlaceOK(at) /\ Shape(sc) /\ Started(at)
      /\ PlaceOK(b) /\ Started(b) /\ PlaceOK(Read(b)) /\ Started(Read(b))
      /\ Cur(b) = EndRune <=> b.eof
      /\ ~at.eof => HereAt(b) = HereAt(at) + 1
      /\ ~b.eof => HereAt(Read(b)) = HereAt(b) + 1
  BY <1>1, StepFacts
<1>3. HereAt(at) \in Int /\ HereAt(b) \in Int /\ HereAt(Read(b)) \in Int
  BY <1>2, CurFacts
<1>4. /\ Shape(f) /\ f.fn = "comment" /\ f.id = sc.id /\ f.mark = sc.mark /\ f.flag = sc.flag
      /\ f.pos = sc.pos
  BY <1>1, <1>2, WriteFacts
<1>5. ASSUME Len(errs) = sc.mark
      PROVE  /\ ~at.eof /\ InComment(at, sc) /\ Upto(f, HereAt(b) - 1)
             /\ HereAt(b) - 1 = HereAt(at) /\ HereAt(at) = at.ix
  <2>1. Scanned(at, sc) /\ ~at.eof /\ InComment(at, sc)
    BY <1>1, <1>5 DEF ScanInv, Going, Functions
  <2>2. HereAt(at) + Ahead(sc) - 1 = HereAt(at) - 1 /\ HereAt(b) - 1 = HereAt(at)
    BY <1>1, <1>2, <1>3, <2>1 DEF Ahead
  <2>3. Upto(f, HereAt(at))
    BY <1>2, <2>1, <2>2, WriteUpto DEF Scanned
  <2> QED
    BY <2>1, <2>2, <2>3 DEF HereAt
<1>6. \/ sc.id # "mlcomment" /\ Done(b, f) /\ errs' = errs
      \/ Done(b, f) /\ \E what, q : Report(what, q)
      \/ Cur(b) = "*" /\ sc.id = "mlcomment" /\ Goto(b, g) /\ errs' = errs
      \/ Cur(b) = "/" /\ sc.flag /\ Done(Read(b), w) /\ errs' = errs
      \/ /\ Cur(b) # EndRune /\ (Cur(b) = "*" => sc.id # "mlcomment")
         /\ Cur(b) = "/" => ~sc.flag
         /\ Goto(b, f) /\ errs' = errs
  BY Zenon DEF ScanComment, Silent
<1>7. PICK star, slash : star = "*" /\ slash = "/" /\ star # slash
                         /\ star # EndRune /\ slash # EndRune
  <2>1. "*" # "/" /\ "*" # EndRune /\ "/" # EndRune
    BY Zenon DEF EndRune
  <2> QED
    BY <2>1, Zenon
<1>8. InComment(at, sc) <=>
        /\ sc.id \in {"mlcomment", "lcomment"}
        /\ sc.flag \in BOOLEAN
        /\ sc.id = "lcomment" => ~sc.flag
        /\ sc.id = "mlcomment" =>
              /\ sc.pos.ix + 1 <= at.ix
              /\ sc.flag <=> \E k \in sc.pos.ix + 2 .. at.ix : text[k] = star
              /\ \A k \in sc.pos.ix + 3 .. at.ix : ~(text[k - 1] = star /\ text[k] = slash)
  BY <1>7, Zenon DEF InComment
<1>9. sc.pos.ix \in Int /\ at.ix \in Int /\ b.ix \in Int
  BY <1>2, CurFacts DEF Shape, ExactPos
<1>10. ASSUME Len(errs) = sc.mark, ~b.eof
       PROVE  HereAt(b) = b.ix /\ b.ix = at.ix + 1 /\ at.ix = b.ix - 1 /\ Cur(b) = text[b.ix]
  BY <1>2, <1>5, <1>9, <1>10, CurFacts DEF HereAt
<1> HIDE DEF f
<1>11. Shape(w) /\ w.mark = sc.mark /\ w.id = sc.id /\ w.pos = sc.pos
  BY <1>4, WriteFacts
<1>12. ASSUME Len(errs) = sc.mark, ~b.eof PROVE Upto(w, HereAt(b))
  BY <1>2, <1>4, <1>5, <1>12, WriteUpto
<1>13. /\ Shape(g) /\ g.fn = "comment" /\ g.id = f.id /\ g.mark = f.mark /\ g.flag = TRUE
       /\ g.pos = f.pos /\ g.lit = f.lit /\ g.from = f.from
  BY <1>4 DEF Shape
<1> HIDE DEF w, g
<1>14. \A h : /\ h.pos = sc.pos /\ h.id = sc.id /\ h.flag \in BOOLEAN
              /\ h.id \in {"mlcomment", "lcomment"}
              /\ h.id = "lcomment" => ~h.flag
              /\ h.id = "mlcomment" =>
                    /\ sc.pos.ix + 1 <= b.ix
                    /\ h.flag <=> \E k \in sc.pos.ix + 2 .. b.ix : text[k] = star
                    /\ \A k \in sc.pos.ix + 3 .. b.ix : ~(text[k - 1] = star /\ text[k] = slash)
              => InComment(b, h)
  BY <1>7, Zenon DEF InComment
<1>15. ASSUME NEW h, h.fn = "comment", ~b.eof, InComment(b, h), Upto(h, HereAt(b) - 1)
       PROVE  Going(b, h)
  <2>1. HereAt(b) + Ahead(h) - 1 = HereAt(b) - 1
    BY <1>3, <1>15 DEF Ahead
  <2>2. Scanned(b, h)
    BY <1>15, <2>1 DEF Scanned
  <2> QED
    BY <1>15, <2>2 DEF Going, LiteralFunctions
<1>16. CASE sc.id # "mlcomment" /\ Done(b, f) /\ errs' = errs
  <2>1. ASSUME Len(errs) = sc.mark PROVE Finished(b, f)
    <3>1. f.id = "lcomment" /\ Upto(f, HereAt(b) - 1)
      BY <1>4, <1>5, <1>8, <1>16, <2>1
    <3> QED
      BY <3>1, Ends
  <2> QED
    BY <1>1, <1>2, <1>4, <1>16, <2>1, DoneKeeps DEF Well
<1>17. CASE Done(b, f) /\ \E what, q : Report(what, q)
  BY <1>1, <1>2, <1>4, <1>17, DoneKeeps DEF Well
<1>18. CASE Cur(b) = star /\ sc.id = "mlcomment" /\ Goto(b, g) /\ errs' = errs
  <2>1. ~b.eof
    BY <1>2, <1>7, <1>18
  <2>2. ASSUME Len(errs) = sc.mark PROVE Going(b, g)
    <3>1. b.ix = at.ix + 1 /\ at.ix = b.ix - 1 /\ text[b.ix] = star /\ text[b.ix] # slash
      BY <1>7, <1>10, <1>18, <2>1, <2>2
    <3>2. /\ sc.flag \in BOOLEAN /\ sc.pos.ix + 1 <= b.ix - 1
          /\ sc.flag <=> \E k \in sc.pos.ix + 2 .. b.ix - 1 : text[k] = star
          /\ \A k \in sc.pos.ix + 3 .. b.ix - 1 : ~(text[k - 1] = star /\ text[k] = slash)
      BY <1>5, <1>8, <1>18, <2>2, <3>1
    <3>3. /\ \E k \in sc.pos.ix + 2 .. b.ix : text[k] = star
          /\ \A k \in sc.pos.ix + 3 .. b.ix : ~(text[k - 1] = star /\ text[k] = slash)
      BY <1>7, <1>9, <3>1, <3>2, CommentRune
    <3>4. sc.pos.ix + 1 <= b.ix
      BY <1>9, <3>2
    <3>5. InComment(b, g)
      BY <1>4, <1>13, <1>14, <1>18, <3>3, <3>4
    <3>6. Upto(g, HereAt(b) - 1)
      BY <1>5, <1>13, <2>2, Zenon DEF Upto
    <3> QED
      BY <1>13, <1>15, <2>1, <3>5, <3>6
  <2> QED
    BY <1>1, <1>2, <1>4, <1>13, <1>18, <2>2, GotoKeeps DEF Well
<1>19. CASE Cur(b) = slash /\ sc.flag /\ Done(Read(b), w) /\ errs' = errs
  <2>1. ~b.eof
    BY <1>2, <1>7, <1>19
  <2>2. ASSUME Len(errs) = sc.mark PROVE Finished(Read(b), w)
    <3>1. /\ HereAt(b) = b.ix /\ at.ix = b.ix - 1 /\ text[b.ix] = slash
          /\ HereAt(Read(b)) - 1 = b.ix /\ HereAt(Read(b)) - 2 = at.ix
      BY <1>2, <1>3, <1>9, <1>10, <1>19, <2>1, <2>2
    <3>2. /\ sc.id = "mlcomment"
          /\ \E k \in sc.pos.ix + 2 .. at.ix : text[k] = star
          /\ \A k \in sc.pos.ix + 3 .. at.ix : ~(text[k - 1] = star /\ text[k] = slash)
      BY <1>5, <1>8, <1>19, <2>2
    <3>3. Upto(w, HereAt(Read(b)) - 1) /\ w.id = "mlcomment" /\ w.pos = sc.pos
      BY <1>11, <1>12, <2>1, <2>2, <3>1, <3>2
    <3>4. /\ text[HereAt(Read(b)) - 1] = "/"
          /\ \E k \in w.pos.ix + 2 .. HereAt(Read(b)) - 2 : text[k] = "*"
          /\ \A k \in w.pos.ix + 3 .. HereAt(Read(b)) - 2 : ~(text[k - 1] = "*" /\ text[k] = "/")
      BY <1>7, <3>1, <3>2, <3>3, Zenon
    <3>5. /\ w.lit = SubSeq(text, w.pos.ix, HereAt(Read(b)) - 1)
          /\ Blanks(w.from, w.pos.ix - 1)
      BY <3>3 DEF Upto
    <3>6. w.id # "eof" /\ w.id # "rstr"
      BY <3>3
    <3> QED
      BY <3>4, <3>5, <3>6, Zenon DEF Finished
  <2> QED
    BY <1>1, <1>2, <1>11, <1>19, <2>2, DoneKeeps DEF Well
<1>20. CASE /\ Cur(b) # EndRune /\ (Cur(b) = star => sc.id # "mlcomment")
            /\ Cur(b) = slash => ~sc.flag
            /\ Goto(b, f) /\ errs' = errs
  <2>1. ~b.eof
    BY <1>2, <1>20
  <2>2. ASSUME Len(errs) = sc.mark PROVE Going(b, f)
    <3>1. b.ix = at.ix + 1 /\ at.ix = b.ix - 1 /\ Cur(b) = text[b.ix]
      BY <1>10, <2>1, <2>2
    <3>2. /\ sc.id \in {"mlcomment", "lcomment"} /\ sc.flag \in BOOLEAN
          /\ sc.id = "lcomment" => ~sc.flag
      BY <1>5, <1>8, <2>2
    <3>3. ASSUME sc.id = "mlcomment"
          PROVE  /\ sc.pos.ix + 1 <= b.ix
                 /\ sc.flag <=> \E k \in sc.pos.ix + 2 .. b.ix : text[k] = star
                 /\ \A k \in sc.pos.ix + 3 .. b.ix : ~(text[k - 1] = star /\ text[k] = slash)
      <4>1. /\ sc.flag \in BOOLEAN /\ sc.pos.ix + 1 <= b.ix - 1
            /\ sc.flag <=> \E k \in sc.pos.ix + 2 .. b.ix - 1 : text[k] = star
            /\ \A k \in sc.pos.ix + 3 .. b.ix - 1 : ~(text[k - 1] = star /\ text[k] = slash)
        BY <1>5, <1>8, <2>2, <3>1, <3>3
      <4>2. text[b.ix] # star /\ (text[b.ix] = slash => ~sc.flag)
        BY <1>20, <3>1, <3>3
      <4>3. /\ sc.flag <=> \E k \in sc.pos.ix + 2 .. b.ix : text[k] = star
            /\ \A k \in sc.pos.ix + 3 .. b.ix : ~(text[k - 1] = star /\ text[k] = slash)
        BY <1>7, <1>9, <4>1, <4>2, CommentRune
      <4>4. sc.pos.ix + 1 <= b.ix
        BY <1>9, <4>1
      <4> QED
        BY <4>3, <4>4
    <3>4. InComment(b, f)
      BY <1>4, <1>14, <3>2, <3>3
    <3> QED
      BY <1>4, <1>5, <1>15, <2>1, <2>2, <3>4
  <2> QED
    BY <1>1, <1>2, <1>4, <1>20, <2>2, GotoKeeps DEF Well
<1> QED
  BY <1>6, <1>7, <1>16, <1>17, <1>18, <1>19, <1>20, Zenon

-----------------------------------------------------------------------------
(* The theorem *)

\* Nothing has been scanned at first.
LEMMA ScanInvInit == ScanInit => ScanInv
<1> SUFFICES ASSUME ScanInit PROVE ScanInv
  OBVIOUS
<1>1. /\ text \in Inputs /\ at = [ix |-> 0, eof |-> FALSE, line |-> 1, col |-> 0]
      /\ sc = NoScan /\ errs = <<>>
  BY DEF ScanInit
<1>2. IsSeq(errs) /\ Len(text) \in Nat
  BY <1>1, TextFacts DEF IsSeq
<1>3. Lines(0) = {}
  BY DEF Lines
<1>4. IsFiniteSet(Lines(0)) /\ Cardinality(Lines(0)) = 0
  BY <1>3, FS_EmptySet
<1>5. IsStart(0, 0) /\ 0 \in 0 .. 0 /\ 0 \in 0 .. Len(text)
  BY <1>2 DEF IsStart
<1>6. PlaceOK(at)
  BY <1>1, <1>4, <1>5 DEF PlaceOK, ExactPos
<1>7. /\ sc.fn = "idle" /\ sc.pos = [ix |-> 0, line |-> 1, col |-> 0] /\ sc.esc = NoEsc
      /\ sc.from = 0 /\ sc.mark = 0
  BY <1>1 DEF NoScan
<1>8. ExactPos(sc.pos)
  BY <1>4, <1>5, <1>7 DEF ExactPos
<1>9. sc \in [fn : {sc.fn}, id : {sc.id}, lit : {sc.lit}, pos : {sc.pos}, quote : {sc.quote},
              n : {sc.n}, flag : {sc.flag}, noread : {sc.noread}, esc : {sc.esc},
              from : {sc.from}, mark : {sc.mark}]
  BY <1>1 DEF NoScan
<1>10. Shape(sc)
  BY <1>7, <1>8, <1>9 DEF Shape, NoEsc
<1>11. Going(at, sc)
  BY <1>7 DEF Going, Functions, LiteralFunctions
<1>12. TokenIsText
  BY <1>7 DEF TokenIsText, Clean
<1> QED
  BY <1>1, <1>2, <1>6, <1>7, <1>10, <1>11, <1>12 DEF ScanInv

\* Every step of the scanner and of its caller preserves the invariant.
LEMMA ScanInvStep == ScanInv /\ [ScanNext]_scanVars => ScanInv'
<1> SUFFICES ASSUME ScanInv, [ScanNext]_scanVars PROVE ScanInv'
  OBVIOUS
<1>1. CASE Scan
  BY <1>1, ScanKeeps
<1>2. CASE ScanStep
  BY <1>2, SkipKeeps, DispatchKeeps, RuleDefKeeps, InvalidKeeps, IdentifierKeeps, CommentKeeps,
     CodeKeeps, RawStringKeeps, QuotedKeeps, EscapeKeeps, UnicodeClassKeeps, ClassNameKeeps,
     DigitsKeeps DEF ScanStep
<1>3. CASE Take \/ CallerErrs
  BY <1>3, CallerKeeps
<1>4. CASE UNCHANGED scanVars
  <2>1. UNCHANGED <<text, at, sc, errs, toks>>
    BY <1>4 DEF scanVars
  <2>2. PlaceOK(at)' /\ Shape(sc)' /\ (Going(at, sc) => Going(at, sc)')
    BY <2>1, SameText DEF ScanInv
  <2>3. TokenIsText'
    BY <2>1, Zenon DEF ScanInv, TokenIsText, Clean, Placed, Here, CommentEnds, LineStart
  <2>4. Started(at) => Started(at)'
    BY <2>1 DEF Started
  <2> QED
    BY <2>1, <2>2, <2>3, <2>4 DEF ScanInv
<1> QED
  BY <1>1, <1>2, <1>3, <1>4 DEF ScanNext

\* For every input: a token that Scan returns without an error is, rune for
\* rune, the text from its position to where the scanner stands (a raw string
\* without its carriage returns), with the line and the column of its first
\* rune; only blanks were skipped before it; and a comment ends at a slash after
\* a star, no later than at the first star and slash.
THEOREM ScannerTokenIsText == ScanSpec => []TokenIsText
<1>1. ScanInv => TokenIsText
  BY DEF ScanInv
<1> QED
  BY <1>1, ScanInvInit, ScanInvStep, PTL DEF ScanSpec

=============================================================================
