----------------------------- MODULE PegBuilder ------------------------------
(***************************************************************************)
(* From the syntax tree of a grammar to the parser that pigeon generates:  *)
(* the character classes of package ast, and the tables and the functions  *)
(* that package builder writes.  What is written is an expression of       *)
(* PegGrammars; the names of Go functions and of rules are strings.        *)
(***************************************************************************)
EXTENDS PegGrammars

-----------------------------------------------------------------------------
(* ast.CharClassMatcher.parse *)

\* How many runes follow the first one of an escape sequence.
ConsumeN(r) == CASE r = "x" -> 2 [] r = "u" -> 4 [] r = "U" -> 8 [] r \in OctalDigits -> 2
                 [] OTHER -> 0

\* strconv.UnquoteChar of the escape sequence s: rune 0 when it is invalid.
UnquoteChar(s) == LET esc == Escape(s, "none") IN RuneOf(IF esc.ok THEN esc.code ELSE 0)

\* The place of the first r in s, or 0.
Find(s, r) == SelectInSeq(s, LAMBDA x : x = r)

\* The rune that ReadRune returns at the end of the text.
At(s, n) == IF n <= Len(s) THEN s[n] ELSE RuneOf(0)

RECURSIVE ReadClass(_, _)
\* The loop that reads the text of a class: its runes in order, escapes
\* replaced, and its Unicode classes.  It never ends on a \p{ without a }.
ReadClass(s, read) ==
    LET Rest(n) == SubSeq(s, n + 1, Len(s))
        Char(r, n) == ReadClass(Rest(n), [read EXCEPT !.chars = Append(@, r)])
        UnicodeClass(name, n) == ReadClass(Rest(n), [read EXCEPT !.classes = Append(@, name)])
        Escaped(n) == Char(UnquoteChar([k \in 1 .. n |-> At(s, k + 1)]), n + 1)
    IN  CASE s = <<>> -> read
          [] s[1] # Backslash -> Char(s[1], 1)
          [] At(s, 2) = "]" -> Char("]", 2)
          [] At(s, 2) = "p" /\ At(s, 3) # "{" -> UnicodeClass(<<At(s, 3)>>, 3)
          [] At(s, 2) = "p" /\ At(s, 3) = "{" ->
                LET to == Find(s, "}")
                IN  IF to = 0 THEN [read EXCEPT !.ends = FALSE]
                    ELSE UnicodeClass(SubSeq(s, 4, to - 1), to)
          [] OTHER -> Escaped(1 + ConsumeN(At(s, 2)))

\* Mutant: a minus sign after a range starts another one.
ExtractTwice(chars, acc, i) ==
    LET r == chars[i]
    IN  CASE acc.inRange -> [acc EXCEPT !.ranges = Append(@, r), !.inRange = FALSE]
          [] ~acc.inRange /\ r = "-" /\ acc.chars # <<>> /\ i < Len(chars) ->
                [acc EXCEPT !.inRange = TRUE, !.ranges = Append(@, Last(acc.chars)),
                            !.chars = Front(@)]
          [] OTHER -> [acc EXCEPT !.chars = Append(@, r)]

\* The step of the loop over chars that extracts the ranges.
Extract(chars, acc, i) ==
    LET r == chars[i]
    IN  CASE acc.inRange ->
                [acc EXCEPT !.ranges = Append(@, r), !.inRange = FALSE, !.wasRange = TRUE]
          [] ~acc.inRange /\ r = "-" /\ ~acc.wasRange /\ acc.chars # <<>> /\ i < Len(chars) ->
                [acc EXCEPT !.inRange = TRUE, !.ranges = Append(@, Last(acc.chars)),
                            !.chars = Front(@)]
          [] OTHER -> [acc EXCEPT !.wasRange = FALSE, !.chars = Append(@, r)]

\* The loop over chars.
ExtractRanges(chars) ==
    FoldLeftDomain(LAMBDA acc, i : Extract(chars, acc, i),
        [chars |-> <<>>, ranges |-> <<>>, inRange |-> FALSE, wasRange |-> FALSE], chars)

ParseClass(raw) ==
    LET ignoreCase == Last(raw) = "i"
        inner == SubSeq(raw, 2, Len(raw) - IF ignoreCase THEN 2 ELSE 1)
        inverted == inner # <<>> /\ Head(inner) = "^"
        Fields(read, split) ==
            [ends |-> read.ends, chars |-> split.chars, ranges |-> split.ranges,
             classes |-> read.classes, ignoreCase |-> ignoreCase, inverted |-> inverted]
        Parsed(read) == Fields(read, ExtractRanges(read.chars))
    IN  Parsed(ReadClass(IF inverted THEN Tail(inner) ELSE inner,
                         [chars |-> <<>>, classes |-> <<>>, ends |-> TRUE]))

-----------------------------------------------------------------------------
(* builder: writeGrammar.  What is written for a character class is the set  *)
(* of the runes in its chars, ranges and Unicode classes.                    *)

Word(text) == FoldLeft(LAMBDA w, r : w \o r, "", text)

\* The Unicode classes of the repository's grammars, in runes of one byte.
UnicodeRunes(class) == CASE class = <<"L">> -> Letters [] class = Chars("Nd") -> Digits

LowerIf(ignoreCase, r) == IF ignoreCase THEN ToLower(r) ELSE r

\* What is written for the class c that parse has read.
WriteClass(c) ==
    LET Bound(k) == CodePoint[LowerIf(c.ignoreCase, c.ranges[k])]
        ranges == {Runes(Bound(k), Bound(k + 1)) : k \in {j \in DOMAIN c.ranges : j % 2 = 1}}
        classes == {UnicodeRunes(c.classes[k]) : k \in DOMAIN c.classes}
    IN  CharClass({LowerIf(c.ignoreCase, r) : r \in Range(c.chars)} \cup UNION (ranges \cup classes),
                  c.ignoreCase, c.inverted)

WriteCharClassMatcher(raw) == WriteClass(ParseClass(raw))

\* Mutant: expressions are counted from 0.
FuncNameFromZero(rule, ix) == "on" \o rule \o ToString(ix - 1)

FuncName(rule, ix) == "on" \o rule \o ToString(ix)

RECURSIVE WriteExpr(_, _, _)
RECURSIVE WriteExprs(_, _, _, _)
\* writeExpr for the n first of xs, in order.
WriteExprs(xs, n, rule, ix) ==
    IF n = 0 THEN [ix |-> ix, es |-> <<>>]
    ELSE LET before == WriteExprs(xs, n - 1, rule, ix)
             w == WriteExpr(xs[n], rule, before.ix)
         IN  [ix |-> w.ix, es |-> Append(before.es, w.e)]

\* writeExpr for x, when ix expressions of the rule have been written: what is
\* written, and how many have been written then.
WriteExpr(x, rule, ix) ==
    LET me == ix + 1
        kids == CASE x.tag = "action" -> <<x.kids[1]>>
                  [] x.tag \in {"andCode", "notCode"} -> <<>>
                  [] OTHER -> x.kids
        all == WriteExprs(kids, Len(kids), rule, me)
        e == CASE x.tag \in {"action", "andCode", "notCode"} ->
                    Node(x.tag, all.es, FuncName(rule, me))
               [] x.tag \in {"ruleRef", "labeled"} -> Node(x.tag, all.es, Word(x.text))
               [] x.tag = "lit" -> Lit(x.text)
               [] x.tag = "lit i" -> LitMatcher([k \in DOMAIN x.text |-> ToLower(x.text[k])], TRUE)
               [] x.tag = "class" -> WriteCharClassMatcher(x.text)
               [] OTHER -> Node(x.tag, all.es, "")
    IN  [ix |-> all.ix, e |-> e]

WriteRule(r) == Rule(Word(r.text), WriteExpr(r.kids[2], Word(r.text), 0).e)

WriteGrammar(g) == [k \in 1 .. Len(g.kids) - 1 |-> WriteRule(g.kids[k + 1])]

-----------------------------------------------------------------------------
(* builder: the functions for the code blocks, writeRuleCode.  A function has *)
(* a name and the labels whose values it takes.                               *)

RECURSIVE AddedArgs(_)
\* The labels that writeExprCode for e adds to the set on top of argsStack: the
\* set that a label or an alternative pushes is popped again.
AddedArgs(e) ==
    CASE e.op = "labeled" -> <<e.arg>>
      [] e.op = "choice" -> <<>>
      [] OTHER -> FlattenSeq([k \in DOMAIN e.kids |-> AddedArgs(e.kids[k])])

RECURSIVE WriteExprCode(_, _)
\* The functions that writeExprCode writes for e, with args on top of argsStack.
WriteExprCode(e, args) ==
    LET Before(k) == FlattenSeq([j \in 1 .. k - 1 |-> AddedArgs(e.kids[j])])
        Top(k) == IF e.op \in {"labeled", "choice"} THEN <<>> ELSE args \o Before(k)
        func == IF e.op \in {"action", "andCode", "notCode"}
                THEN <<[name |-> e.arg, args |-> args \o AddedArgs(e)]>> ELSE <<>>
    IN  FlattenSeq([k \in DOMAIN e.kids |-> WriteExprCode(e.kids[k], Top(k))]) \o func

\* The functions of a parser with these rules, rule by rule.
WriteCode(rules) == [k \in DOMAIN rules |-> WriteExprCode(rules[k].kids[1], <<>>)]
=============================================================================
