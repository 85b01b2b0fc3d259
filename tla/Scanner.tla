------------------------------ MODULE Scanner -------------------------------
(***************************************************************************)
(* The scanner of peg/bootstrap (scan.go).  A step is one round of a loop  *)
(* of a scan function, or what such a function does outside of its loops.  *)
(***************************************************************************)
EXTENDS Integers, Sequences, FiniteSets, GoRunes

CONSTANT Inputs     \* the inputs to scan, sequences of runes

ASSUME InputAssumption == \A d \in Inputs : d \in Seq({d[k] : k \in DOMAIN d})

VARIABLES
    text,   \* what s.r reads
    at,     \* s.eof and s.cpos: cpos.Off is the offset of the rune number ix
    sc,     \* the scan function in progress, its variables, and the token
    errs,   \* the errors given to errh: what and where
    toks    \* the tokens that Scan has returned

scanVars == <<text, at, sc, errs, toks>>

EndRune == "eof"      \* s.cur after the end, and before the first rune

\* The value -1 is not a rune ...
ASSUME RuneAssumption == \A d \in Inputs : \A k \in DOMAIN d : d[k] # EndRune

\* s.cur
Cur(p) == IF p.eof \/ p.ix = 0 THEN EndRune ELSE text[p.ix]

\* What read() makes of p.  The position does not move past the last rune.
Read(p) ==
    CASE p.eof -> p
      [] ~p.eof /\ p.ix = Len(text) -> [p EXCEPT !.eof = TRUE]
      [] OTHER ->
            LET nl == text[p.ix + 1] = NL
            IN  [ix |-> p.ix + 1, eof |-> FALSE,
                 line |-> IF nl THEN p.line + 1 ELSE p.line, col |-> IF nl THEN 0 ELSE p.col + 1]

\* What tok.WriteRune(r) appends: the value -1 is not a rune.
Rune(r) == IF r = EndRune THEN BadRune ELSE r

Pos(p) == [ix |-> p.ix, line |-> p.line, col |-> p.col]

Error(what, p) == <<[what |-> what, pos |-> Pos(p)]>>

-----------------------------------------------------------------------------
(* scan.go and token.go: the runes that decide which function scans *)

IsLetter(r) == r \in Letters \cup {"_"}
IsDigit(r) == r \in Digits
IsRuleDefStart(r) == r \in {"=", "<", "larrow", "longlarrow"}

\* 16 for what is not a digit.
DigitVal(r) == IF IsHexDigit(r) THEN Value(r) ELSE 16

\* ... and neither a letter nor a digit.
ASSUME EndAssumption == ~IsLetter(EndRune) /\ ~IsDigit(EndRune) /\ ~IsHexDigit(EndRune)

Operators == {":", ";", "(", ")", ".", "&", "!", "?", "+", "*", "/", NL}

BlacklistedIdents == ReservedWords

\* What the rune that opens a token starts: the scan function, the token, the
\* rune that closes it, and the initial depth.
Opening ==
    LET Function(fn, id, quote, n) == [fn |-> fn, id |-> id, quote |-> quote, n |-> n]
    IN  [r \in {Quote, Tick, "[", Backquote, "{"} |->
            CASE r = Quote -> Function("quoted", "str", Quote, 0)
              [] r = Tick -> Function("quoted", "char", Tick, 0)
              [] r = "[" -> Function("quoted", "class", "]", 0)
              [] r = Backquote -> Function("rawString", "rstr", Backquote, 0)
              [] r = "{" -> Function("code", "code", "}", 1)]

\* Runes that end a line or the input, and with it a literal.
LineEnd == {NL, EndRune}

-----------------------------------------------------------------------------
(* The scan function in progress.  fn says where it is; lit is s.tok.  n is   *)
(* depth or cnt, flag is closing, multiline or hasCR; esc holds the variables *)
(* of scanEscape.  from and mark, the place and the number of errors at the   *)
(* start of Scan, are only there for the properties.                          *)

NoEsc == [n |-> 0, base |-> 0, max |-> 0, x |-> 0]

NoScan ==
    [fn |-> "idle", id |-> "none", lit |-> <<>>, pos |-> [ix |-> 0, line |-> 1, col |-> 0],
     quote |-> "none", n |-> 0, flag |-> FALSE, noread |-> FALSE, esc |-> NoEsc,
     from |-> 0, mark |-> 0]

ScanInit ==
    /\ text \in Inputs
    /\ at = [ix |-> 0, eof |-> FALSE, line |-> 1, col |-> 0]
    /\ sc = NoScan /\ errs = <<>> /\ toks = <<>>

\* A step in the function: the scanner is at p, the function is f.
Goto(p, f) == at' = p /\ sc' = f /\ UNCHANGED <<text, toks>>

Silent == UNCHANGED errs
Report(what, p) == errs' = errs \o Error(what, p)

\* f with r written to s.tok.
Write(f, r) == [f EXCEPT !.lit = Append(@, Rune(r))]

\* The function ends: Scan returns the token.
Done(p, f) ==
    /\ at' = p
    /\ sc' = [f EXCEPT !.fn = "done"]
    /\ toks' = Append(toks, [id |-> f.id, lit |-> f.lit, pos |-> f.pos])
    /\ UNCHANGED text

\* The optional "i" after a literal.
Suffixed(p) == IF Cur(p) = "i" THEN Read(p) ELSE p
WithSuffix(f, p) == IF Cur(p) = "i" THEN Write(f, "i") ELSE f

-----------------------------------------------------------------------------
(* Scan *)

\* Scan is called: it moves to the first rune.
Scan ==
    /\ sc.fn = "idle"
    /\ LET p == IF at.ix = 0 THEN Read(at) ELSE at
       IN  Goto(p, [NoScan EXCEPT !.fn = "skip", !.mark = Len(errs),
                                  !.from = IF p.eof THEN Len(text) + 1 ELSE p.ix])
    /\ Silent

SkipWhitespace ==
    /\ sc.fn = "skip" /\ Cur(at) \in {" ", "tab", "cr"}
    /\ Goto(Read(at), sc)
    /\ Silent

\* The switch of Scan: the function to call, or the token of one rune.
Dispatch ==
    LET r == Cur(at)
        f == [sc EXCEPT !.pos = Pos(at)]
        next == Cur(Read(at))
    IN  /\ sc.fn = "skip"
        /\ \/ at.eof /\ Done(at, [f EXCEPT !.id = "eof"])
           \/ IsLetter(r) /\ Goto(at, [f EXCEPT !.fn = "identifier", !.id = "ident"])
           \/ /\ r \in DOMAIN Opening
              /\ LET o == Opening[r]
                 IN  Goto(at, Write([f EXCEPT !.fn = o.fn, !.id = o.id, !.quote = o.quote,
                                              !.n = o.n], r))
           \/ /\ r = "/" /\ next \in {"*", "/"}
              /\ Goto(Read(at), Write([f EXCEPT !.fn = "comment",
                                    !.id = IF next = "*" THEN "mlcomment" ELSE "lcomment"], r))
           \/ /\ r \in Operators /\ ~(r = "/" /\ next \in {"*", "/"})
              /\ Done(Read(at), Write([f EXCEPT !.id = r], r))
        /\ Silent

\* scanRuleDef
ScanRuleDef ==
    LET r == Cur(at)
        b == Read(at)
        f == Write([sc EXCEPT !.pos = Pos(at), !.id = "ruledef"], r)
    IN  /\ sc.fn = "skip" /\ IsRuleDefStart(r)
        /\ \/ r # "<" /\ Done(b, f) /\ Silent
           \/ r = "<" /\ Cur(b) = "-" /\ Done(Read(b), Write(f, "-")) /\ Silent
           \/ /\ r = "<" /\ Cur(b) # "-"
              /\ Done(Read(b), IF Cur(b) = EndRune THEN f ELSE Write(f, Cur(b)))
              /\ Report("rule definition not terminated", b)

\* The runes that begin no token.
InvalidCharacter ==
    LET r == Cur(at)
    IN  /\ sc.fn = "skip" /\ ~at.eof
        /\ ~IsLetter(r) /\ ~IsRuleDefStart(r)
        /\ r \notin Operators \cup {" ", "tab", "cr"} \cup DOMAIN Opening
        /\ Done(Read(at), Write([sc EXCEPT !.pos = Pos(at), !.id = "invalid"], r))
        /\ Report("invalid character", Read(at))

-----------------------------------------------------------------------------
(* The scan functions *)

\* Mutant: the rune that ends an identifier is read with it.
ScanIdentifierReadsOn ==
    LET r == Cur(at)
    IN  /\ sc.fn = "identifier"
        /\ \/ (IsLetter(r) \/ IsDigit(r)) /\ Goto(Read(at), Write(sc, r)) /\ Silent
           \/ /\ ~(IsLetter(r) \/ IsDigit(r))
              /\ Done(Read(at), sc)
              /\ IF sc.lit \in BlacklistedIdents THEN Report("illegal identifier", sc.pos) ELSE Silent

ScanIdentifier ==
    LET r == Cur(at)
    IN  /\ sc.fn = "identifier"
        /\ \/ (IsLetter(r) \/ IsDigit(r)) /\ Goto(Read(at), Write(sc, r)) /\ Silent
           \/ /\ ~(IsLetter(r) \/ IsDigit(r))
              /\ Done(at, sc)
              /\ IF sc.lit \in BlacklistedIdents THEN Report("illegal identifier", sc.pos) ELSE Silent

\* scanComment: flag is closing.
ScanComment ==
    LET f == Write(sc, Cur(at))
        b == Read(at)
        r == Cur(b)
        multiline == sc.id = "mlcomment"
    IN  /\ sc.fn = "comment"
        /\ \/ r \in LineEnd /\ ~multiline /\ Done(b, f) /\ Silent
           \/ r = EndRune /\ multiline /\ Done(b, f) /\ Report("comment not terminated", b)
           \/ r = "*" /\ multiline /\ Goto(b, [f EXCEPT !.flag = TRUE]) /\ Silent
           \/ r = "/" /\ sc.flag /\ Done(Read(b), Write(f, r)) /\ Silent
           \/ /\ r = NL => multiline
              /\ r # EndRune /\ (r = "*" => ~multiline) /\ (r = "/" => ~sc.flag)
              /\ Goto(b, f) /\ Silent

\* scanCode: n is depth.
ScanCode ==
    LET b == Read(at)
        r == Cur(b)
        f == Write(sc, r)
    IN  /\ sc.fn = "code"
        /\ \/ r = EndRune /\ Done(b, f) /\ Report("code block not terminated", b)
           \/ r = "{" /\ Goto(b, [f EXCEPT !.n = @ + 1]) /\ Silent
           \/ r = "}" /\ sc.n > 1 /\ Goto(b, [f EXCEPT !.n = @ - 1]) /\ Silent
           \/ r = "}" /\ sc.n = 1 /\ Done(Read(b), [f EXCEPT !.n = 0]) /\ Silent
           \/ r \notin {EndRune, "{", "}"} /\ Goto(b, f) /\ Silent

\* stripCR, when a carriage return was read
StripCR(s) == SelectSeq(s, LAMBDA r : r # "cr")

ScanRawString ==
    LET b == Read(at)
        r == Cur(b)
        Strip(f) == [f EXCEPT !.lit = StripCR(@)]
    IN  /\ sc.fn = "rawString"
        /\ \/ r = EndRune /\ Done(b, Strip(sc)) /\ Report("raw string literal not terminated", b)
           \/ /\ r = Backquote
              /\ Done(Suffixed(Read(b)), Strip(WithSuffix(Write(sc, r), Read(b)))) /\ Silent
           \/ r \notin {EndRune, Backquote} /\ Goto(b, Write(sc, r)) /\ Silent

\* scanString, scanChar and scanClass, which differ in the closing quote; n is
\* cnt, and only scanChar looks at it.
ScanQuoted ==
    LET b == IF sc.noread THEN at ELSE Read(at)
        r == Cur(b)
        f == [sc EXCEPT !.noread = FALSE]
        end == Read(b)
    IN  /\ sc.fn = "quoted"
        /\ \/ r = Backslash /\ Goto(b, [f EXCEPT !.fn = "escape", !.n = @ + 1]) /\ Silent
           \/ r \in LineEnd /\ Done(b, f) /\ Report("literal not terminated", b)
           \/ /\ r = sc.quote
              /\ Done(Suffixed(end), WithSuffix(Write(f, r), end))
              /\ IF sc.id = "char" /\ sc.n # 1 THEN Report("rune literal is not a single rune", end)
                 ELSE Silent
           \/ /\ r \notin LineEnd \cup {Backslash, sc.quote}
              /\ Goto(b, [Write(f, r) EXCEPT !.n = @ + 1]) /\ Silent

-----------------------------------------------------------------------------
(* scanEscape, called by the functions above: when it returns false the rune *)
(* it has stopped at has not been looked at yet.                             *)

Returned(f, ok) == [f EXCEPT !.fn = "quoted", !.noread = ~ok, !.esc = NoEsc]

\* The number of digits, the base and the greatest value of an escape.
Digital(n, base, max) == [n |-> n, base |-> base, max |-> max, x |-> 0]

\* Mutant: an off-by-one.
MaxRunePlusOne == 1114112

MaxRune == 1114111
EscapeDigits == [r \in {"x", "u", "U"} |->
    CASE r = "x" -> Digital(2, 16, 255) [] r = "u" -> Digital(4, 16, MaxRune)
      [] r = "U" -> Digital(8, 16, MaxRune)]

\* The code points that scanEscape takes for surrogate halves.
Surrogates == 55296 .. 57344

ScanEscape ==
    LET f == Write(sc, Cur(at))
        b == Read(at)
        r == Cur(b)
        simple == {"a", "b", "f", "n", "r", "t", "v", Backslash, sc.quote}
        unicode == r = "p" /\ sc.quote = "]"
    IN  /\ sc.fn = "escape"
        /\ \/ r \in simple /\ Goto(b, Returned(Write(f, r), TRUE)) /\ Silent
           \/ /\ r \in OctalDigits
              /\ Goto(b, [f EXCEPT !.fn = "digits", !.esc = Digital(3, 8, 255)]) /\ Silent
           \/ /\ r \in DOMAIN EscapeDigits
              /\ Goto(Read(b), [Write(f, r) EXCEPT !.fn = "digits", !.esc = EscapeDigits[r]])
              /\ Silent
           \/ unicode /\ Goto(Read(b), [Write(f, r) EXCEPT !.fn = "unicodeClass"]) /\ Silent
           \/ /\ r \notin simple \cup OctalDigits \cup DOMAIN EscapeDigits /\ ~unicode
              /\ Goto(IF r \in LineEnd THEN b ELSE Read(b), Returned(Write(f, r), FALSE))
              /\ Report("escape sequence", b)

\* After \p: the name of a class is a letter, or up to a closing brace.
ScanUnicodeClass ==
    LET r == Cur(at)
    IN  /\ sc.fn = "unicodeClass"
        /\ \/ r \in LineEnd /\ Goto(at, Returned(sc, FALSE)) /\ Report("escape sequence", at)
           \/ r = "{" /\ Goto(at, [sc EXCEPT !.fn = "className"]) /\ Silent
           \/ r \notin LineEnd \cup {"{"} /\ Goto(at, Returned(Write(sc, r), TRUE)) /\ Silent

\* Mutant: a bracket ends the name of a Unicode class.
ScanClassNameBracket ==
    LET f == [Write(sc, Cur(at)) EXCEPT !.esc.n = @ + 1]
        b == Read(at)
        r == Cur(b)
    IN  /\ sc.fn = "className"
        /\ \/ r \in LineEnd /\ Goto(b, Returned(f, FALSE)) /\ Report("escape sequence", b)
           \/ /\ r \in {"}", "]"} /\ Goto(b, Returned(Write(f, r), TRUE))
              /\ IF f.esc.n < 2 THEN Report("empty Unicode class", b) ELSE Silent
           \/ r \notin LineEnd \cup {"}", "]"} /\ Goto(b, f) /\ Silent

\* esc.n is cnt.
ScanClassName ==
    LET f == [Write(sc, Cur(at)) EXCEPT !.esc.n = @ + 1]
        b == Read(at)
        r == Cur(b)
    IN  /\ sc.fn = "className"
        /\ \/ r \in LineEnd /\ Goto(b, Returned(f, FALSE)) /\ Report("escape sequence", b)
           \/ /\ r = "}" /\ Goto(b, Returned(Write(f, r), TRUE))
              /\ IF f.esc.n < 2 THEN Report("empty Unicode class", b) ELSE Silent
           \/ r \notin LineEnd \cup {"}"} /\ Goto(b, f) /\ Silent

ScanDigits ==
    LET r == Cur(at)
        f == Write(sc, r)
        d == DigitVal(r)
        x == sc.esc.x * sc.esc.base + d
        invalid == x > sc.esc.max \/ x \in Surrogates
    IN  /\ sc.fn = "digits"
        /\ \/ /\ d >= sc.esc.base
              /\ Goto(IF r \in LineEnd THEN at ELSE Read(at), Returned(f, FALSE))
              /\ Report("escape sequence", at)
           \/ /\ d < sc.esc.base /\ sc.esc.n > 1
              /\ Goto(Read(at), [f EXCEPT !.esc.n = @ - 1, !.esc.x = x])
              /\ Silent
           \/ /\ d < sc.esc.base /\ sc.esc.n = 1 /\ ~invalid
              /\ Goto(at, Returned(f, TRUE)) /\ Silent
           \/ /\ d < sc.esc.base /\ sc.esc.n = 1 /\ invalid
              /\ Goto(Read(at), Returned(f, FALSE)) /\ Report("invalid code point", at)

ScanStep ==
    \/ SkipWhitespace \/ Dispatch \/ ScanRuleDef \/ InvalidCharacter
    \/ ScanIdentifier \/ ScanComment \/ ScanCode \/ ScanRawString \/ ScanQuoted
    \/ ScanEscape \/ ScanUnicodeClass \/ ScanClassName \/ ScanDigits

\* The caller takes the token.
Take == /\ sc.fn = "done"
        /\ sc' = [sc EXCEPT !.fn = "idle"]
        /\ UNCHANGED <<text, at, errs, toks>>

\* Between two calls of Scan the parser adds errors of its own to the list.
CallerErrs ==
    /\ sc.fn = "idle"
    /\ errs' \in Seq([what : STRING, pos : [ix : Nat, line : Nat, col : Nat]])
    /\ Len(errs) <= Len(errs')
    /\ SubSeq(errs', 1, Len(errs)) = errs
    /\ UNCHANGED <<text, at, sc, toks>>

ScanNext == Scan \/ ScanStep \/ Take \/ CallerErrs

ScanSpec == ScanInit /\ [][ScanNext]_scanVars

-----------------------------------------------------------------------------
(* Properties *)

\* The number of the first rune that no token includes yet.
Here == IF at.eof THEN Len(text) + 1 ELSE at.ix

\* A token has just been scanned, without an error.
Clean == sc.fn = "done" /\ Len(errs) = sc.mark

\* The number of the last rune up to number k that is a new line, or 0.
LineStart(k) ==
    CHOOSE j \in 0 .. k : /\ j > 0 => text[j] = NL
                          /\ \A i \in j + 1 .. k : text[i] # NL

\* The position of the token is that of its first rune.
Placed ==
    /\ sc.pos.line = 1 + Cardinality({k \in 1 .. sc.pos.ix : text[k] = NL})
    /\ sc.pos.col = sc.pos.ix - LineStart(sc.pos.ix)

\* The token does not run past the place where a comment ends in Go, and ends
\* at a slash after a star.  (It may end too early: scanComment does not ask
\* that the star stands right before the slash.)
CommentEnds ==
    /\ text[Here - 1] = "/"
    /\ \E k \in sc.pos.ix + 2 .. Here - 2 : text[k] = "*"
    /\ \A k \in sc.pos.ix + 3 .. Here - 2 : ~(text[k - 1] = "*" /\ text[k] = "/")

\* Scan loses nothing and invents nothing: a token that is returned without an
\* error is, rune for rune, the input from its position to where the next Scan
\* starts (a raw string without its carriage returns), only blanks are skipped
\* before it, its line and column are right, and a comment ends in time.  Each
\* scan function decides for itself which runes it writes, whether it leaves
\* the last one to its caller, and where it ends.
TokenIsText ==
    Clean =>
        LET slice == SubSeq(text, sc.pos.ix, Here - 1)
        IN  /\ sc.id # "eof" => sc.lit = IF sc.id = "rstr" THEN StripCR(slice) ELSE slice
            /\ \A k \in sc.from .. (IF sc.id = "eof" THEN Len(text) ELSE sc.pos.ix - 1) :
                  text[k] \in {" ", "tab", "cr"}
            /\ Placed
            /\ sc.id = "mlcomment" => CommentEnds
=============================================================================
