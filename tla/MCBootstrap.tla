----------------------------- MODULE MCBootstrap -----------------------------
(* The hand-written scanner and parser on grammars of the repository, and on  *)
(* short texts of every kind of token.                                        *)
EXTENDS BootstrapParser, BootGrammar, JsonGrammar, PegTexts

\* The sequences over S of up to n elements.
UpTo(S, n) == UNION {[1 .. k -> S] : k \in 0 .. n}

\* The texts put together of up to n of the words.
Texts(words, n) == {FlattenSeq(s) : s \in UpTo({Source(w) : w \in words}, n)}

\* Rules made of up to three tokens.
MCRules == {Chars("A=") \o s : s \in Texts({"a ", "b:", "&", "(", ")", "*", "/", "'x'", "{}", ";"}, 3)}

MCClasses ==
    {Chars("A=[") \o s \o <<"]">> : s \in Texts({"a", "c", "-"}, 6)
                                      \cup Texts({"a", "-", "^", "\\]", "\\x2d", "\\pL", "\\p{Nd}"}, 3)}

MCLiterals ==
    {Chars("A=") \o <<q>> \o s : q \in {Quote, Tick}, s \in Texts({"\\", "x", "4", "\"", "'"}, 4)}
    \cup {Chars("A=\"\\") \o s \o <<Quote>> : s \in Texts({"x41", "u0041", "U00000041", "101", "400",
                                                       "ud800", "ue000", "u10", "U00110000"}, 1)}

MCComments == {Chars("/*") \o s : s \in Texts({"*", "/", "#", "a"}, 4)} \cup Texts({"/", "*", "#"}, 3)

\* Texts with errors, and what the sets above leave out.
MCOthers ==
    {Source(w) : w \in {
        "A \"n\" @ .;B<-C", "A 'n'i=.", "A 'nn'=.", "A \"\\q\"=.", "A", "if=.", "A<b", "<", "{{}#",
        "{}A=[", "A=[i", "A=[\\p{W", "A=[\\p{W]]", "A=[\\p{}]", "A=[\\p", "A=[\\", "A=[\\q]", "A=[\\x4", "$",
        "A=~a~i", "A=~a", "A=(a", "A=()", "A=/", "A=+", "A=a B=b", "A9=B_?", "A=\"a\"i/b+",
        "A=#.#;#", "A=#"}}
    \cup {<<"A", "=", Backquote, "a", "cr", "b", Backquote>>}

MCInputs ==
    {BootstrapText, CalculatorText, JsonText}
    \cup MCRules \cup MCClasses \cup MCLiterals \cup MCComments \cup MCOthers

-----------------------------------------------------------------------------
(* Properties *)

Table(d) ==
    CASE d = BootstrapText -> BootTable [] d = CalculatorText -> Calculator [] d = JsonText -> Json

\* The bootstrap: the hand-written parser reads the grammar of the first
\* generated parser, and what the builder writes for it is the parser that is
\* checked in, rule for rule and code block for code block.  It also reads the
\* grammars of two examples as pigeon did when it generated their parsers.
Regenerates ==
    text \in {BootstrapText, CalculatorText, JsonText} /\ res.st # "pending" =>
        res.st = "ok" /\ errs = <<>> /\ WriteGrammar(res.val) = Table(text)

RECURSIVE Unparse(_)
\* The texts of the tokens that the tree stands for, in order.
Unparse(x) ==
    LET all == FlattenSeq([k \in DOMAIN x.kids |-> Unparse(x.kids[k])])
        Op(op) == <<<<op>>>>
        Slash(done, kid) == (IF done = <<>> THEN <<>> ELSE done \o Op("/")) \o Unparse(kid)
    IN  CASE x = Nil -> <<>>
          [] x.tag \in {"grammar", "seq", "action"} -> all
          [] x.tag = "choice" -> FoldLeft(Slash, <<>>, x.kids)
          [] x.tag = "rule" -> <<x.text>> \o Unparse(x.kids[1]) \o Op("=") \o Unparse(x.kids[2])
          [] x.tag = "labeled" -> <<x.text>> \o Op(":") \o all
          [] x.tag \in {"and", "not"} -> Op(IF x.tag = "and" THEN "&" ELSE "!") \o all
          [] x.tag \in {"zeroOrOne", "zeroOrMore", "oneOrMore"} ->
                all \o Op(CASE x.tag = "zeroOrOne" -> "?" [] x.tag = "zeroOrMore" -> "*"
                            [] x.tag = "oneOrMore" -> "+")
          [] OTHER -> <<x.text>>

\* The text of a token as the tree has it.
Meaning(t) ==
    CASE t.id \in Literals -> LitOf(t).val.text [] t.id = "ruledef" -> <<"=">> [] OTHER -> t.lit

\* A grammar that is read without an error holds every token of the text once
\* and in order: none is lost or read twice when the parser looks ahead for a
\* colon, when an expression ends at a token it does not know, or when a rule
\* is left in the middle.  And nothing that was read ahead is left for the
\* next Parse of the same Parser.
RoundTrip ==
    res.st = "ok" /\ errs = <<>> =>
        LET kept == SelectSeq(toks, LAMBDA t : t.id \notin Separators \cup {"(", ")", "eof"})
        IN  /\ Unparse(res.val) = [k \in DOMAIN kept |-> Meaning(kept[k])]
            /\ pk = NoToken

\* The scanner and strconv.Unquote agree on what a literal is: a token without
\* an error can be unquoted, and one with an error cannot, so that primaryExpr
\* never makes an empty literal of a token that the scanner took for a good
\* one.  The exception is U+E000, which scanEscape refuses with the surrogates.
LiteralsAsGo ==
    sc.fn = "done" /\ sc.id \in Literals =>
        LET lit == LitOf([lit |-> sc.lit])
        IN  (Len(errs) = sc.mark) <=> (lit.ok /\ ~Contains(lit.val.text, RuneOf(57344)))

\* A character class that is scanned without an error is one that
\* CharClassMatcher.parse can read ("content of char class is necessarily
\* valid"): it does not panic on it, and it returns.
ClassReadable ==
    Clean /\ sc.id = "class" => ~ClassTooShort(sc.lit) /\ ParseClass(sc.lit).ends

RECURSIVE Units(_)
\* The elements of a character class: the runes each stands for, and whether
\* it is a minus sign that is not escaped.
Units(s) ==
    LET Unit(set, kind, n) ==
            <<[set |-> set, kind |-> kind]>> \o Units(SubSeq(s, n + 1, Len(s)))
        esc == Escape(Tail(s), "]")
    IN  CASE s = <<>> -> <<>>
          [] s[1] # Backslash -> Unit({s[1]}, IF s[1] = "-" THEN "minus" ELSE "rune", 1)
          [] s[1] = Backslash /\ s[2] = "p" ->
                LET to == IF s[3] = "{" THEN Find(s, "}") ELSE 3
                IN  Unit(UnicodeRunes(IF to = 3 THEN <<s[3]>> ELSE SubSeq(s, 4, to - 1)), "class", to)
          [] OTHER -> Unit({RuneOf(esc.code)}, "escaped", esc.len + 1)

RECURSIVE Denoted(_)
\* What the rule CharClassMatcher of the grammars says of the elements u: a
\* range is tried first, then a single rune.
Denoted(u) ==
    LET Code(unit) == CodePoint[CHOOSE r \in unit.set : TRUE]
        range == Len(u) > 2 /\ u[1].kind # "class" /\ u[2].kind = "minus" /\ u[3].kind # "class"
    IN  CASE u = <<>> -> {}
          [] range -> Runes(Code(u[1]), Code(u[3])) \cup Denoted(SubSeq(u, 4, Len(u)))
          [] OTHER -> u[1].set \cup Denoted(Tail(u))

\* CharClassMatcher.parse finds the ranges of a class where the grammar of
\* pigeon has them, wherever the minus signs are: first, last, after a range,
\* or several in a row.  It differs where it cannot tell: a minus sign that is
\* escaped, and one next to a Unicode class, which parse has taken out.
ClassMeaning ==
    Clean /\ sc.id = "class" =>
        LET inner == SubSeq(sc.lit, 2, Len(sc.lit) - 1)
            u == Units(IF inner # <<>> /\ inner[1] = "^" THEN Tail(inner) ELSE inner)
            apart == /\ \A k \in DOMAIN u : u[k].kind = "escaped" => u[k].set # {"-"}
                     /\ \A k \in 1 .. Len(u) - 1 : {u[k].kind, u[k + 1].kind} # {"minus", "class"}
        IN  text \in MCClasses /\ apart =>
                WriteCharClassMatcher(sc.lit).arg.chars = Denoted(u)

\* Parse ends on every text, unless it gives a class that is not terminated to
\* CharClassMatcher.parse: each round of the loops of the scanner and of the
\* parser consumes a rune or a token.
ParseEnds == <>(res.st # "pending")
=============================================================================
