-------------------------------- MODULE MCPeg --------------------------------
(* PegRuntime on the generated parsers of the repository, those of grammars  *)
(* included, and on two grammars for the expressions that these do not use.  *)
EXTENDS PegScopes, JsonGrammar, BootGrammar, PegBuilder, PegTexts, PegAnalysis

\* Start <- &( 'a' / 'B' ) [a]i+ !'c'i ( 'b'+ )? '\uFFFD'? ( '\n' 'ab'i )?
\*          x:( y:[^ab] Missing / z:[^a] . &{c} / [^a] )
MCMixed ==
    <<Rule("Start", SeqExpr(<<
        And(Choice(<<Lit(<<"a">>), Lit(<<"B">>)>>)),
        OneOrMore(CharClass({"a"}, TRUE, FALSE)),
        Not(LitMatcher(<<"c">>, TRUE)),
        ZeroOrOne(OneOrMore(Lit(<<"b">>))), ZeroOrOne(Lit(<<BadRune>>)),
        ZeroOrOne(SeqExpr(<<Lit(<<NL>>), LitMatcher(<<"a", "b">>, TRUE)>>)),
        Labeled("x", Choice(<<
            SeqExpr(<<Labeled("y", CharClass({"a", "b"}, FALSE, TRUE)), RuleRef("Missing")>>),
            SeqExpr(<<Labeled("z", CharClass({"a"}, FALSE, TRUE)), AnyRune, AndCode("onStart29")>>),
            CharClass({"a"}, FALSE, TRUE)>>))>>))>>

MCGrammars ==
    [calculator |-> Calculator, andnot |-> AndNot, predicates |-> Predicates,
     predicatesB |-> <<PredicatesB>>, mixed |-> MCMixed, empty |-> <<>>,
     json |-> Json, pigeon |-> Pigeon, bootstrap |-> Bootstrap]

\* The sequences over S of up to n elements.
UpTo(S, n) == UNION {[1 .. k -> S] : k \in 0 .. n}

\* Values: members that repeat a key, escapes, and texts that end too early.
MCJson ==
    {Chars(w) : w \in {
        "{\"a\":1,\"a\":2}", "[true,null, 0.1e+2,-10]", "1 false", "{}", "[1,]",
        "\"\\u00e9\\/\"", "\"\\n", "{\"a\" 1}"}}

\* Texts of grammars.
MCGrammarTexts ==
    {Chars(w) : w \in {
        "A=.", "{i};A<-&B !C D? ('x')*;", "A \"n\"='a'i/b:[a-c]+{c}//x",
        "A=&{p}!{q}/*c*/", "A=\"\\x41\\n\"", "A=\"\\q\"", "A=\"\\400\"", "A='ab", "A=[a",
        "A=[\\pL\\p{Lu}\\p{W}]", "A=if:b", "A={", "", "A=a B=b", "A='\\''"}}

\* Parentheses that do not nest.
Shallow(d) == Cardinality({k \in DOMAIN d : d[k] = "("}) <= 1

MCInputs ==
    [calculator  |-> {d \in UpTo({"1", "-", "/", "(", ")"}, 4) : Shallow(d)}
                         \cup UpTo({"1", "+", "*", " "}, 4),
     andnot      |-> UpTo({"a", "b", "c", "d", NL}, 4),
     predicates  |-> UpTo({"a", "b", "d", "x"}, 2),
     predicatesB |-> UpTo({"a", "x", NL, BadRune}, 3),
     mixed       |-> UpTo({"a", "A", "b", NL, BadRune}, 4),
     empty       |-> {<<>>},
     json        |-> MCJson,
     pigeon      |-> MCGrammarTexts \cup {AndNotText},
     bootstrap   |-> MCGrammarTexts]

LowerTable ==
    [r \in UNION {Range(d) : d \in UNION Range(MCInputs)} \cup {BadRune} |-> ToLower(r)]

MCLower == LowerTable

\* The code blocks of a parser have names of their own.
MCOutcomes(code, scope, text) ==
    CASE code = "onStart29" -> {Returns(TRUE, Nil)}
      [] code \in JsonCodes -> JsonCode(code, scope, text)
      [] code \in PegCodes -> CodeOf(code, scope, text)
      [] OTHER -> BootCode(code, scope, text)

\* What a grammar means, and what it means to the matchers.
Peg == INSTANCE PegReference WITH
    RefLower <- Lower, RefEnd <- RuneError, RefOutcomes <- Outcomes, Departs <- FALSE
Code == INSTANCE PegReference WITH
    RefLower <- Lower, RefEnd <- RuneError, RefOutcomes <- Outcomes, Departs <- TRUE

\* The rules of the grammar of grammars that call each other: the recursion of
\* the reference is too deep for them.
Phrases ==
    {"Grammar", "Rule", "Expression", "ChoiceExpr", "ActionExpr", "SeqExpr", "LabeledExpr",
     "PrefixedExpr", "SuffixedExpr", "PrimaryExpr"}

\* A parser matches what its grammar means: with savepoints, scopes and
\* loops, each call of parseRule accepts what the definition of PEGs accepts,
\* stops at the same place and returns the same value, but for the four
\* departures of the matchers that PegReference lists: the rune that an any
\* matcher returns (static_code.go:487-489), the end of the input that [^x]
\* matches (static_code.go:537-539), U+FFFD taken for that end, and classes
\* that return a rune in lower case.  Where a grammar or its inputs have none
\* of the second and third, a rule accepts what PEGs define; where they have
\* none at all, the value is that of PEGs too.  Left out are the rules in
\* Phrases of the grammars of grammars (Regenerates is about what the one of
\* pigeon returns).
MatchesReference ==
    Resumed("rule") /\ (gram \in {"pigeon", "bootstrap"} => RuleName \notin Phrases) =>
        LET code == Code!Match(Rules, data, Top.e.kids[1], Top.pt.offset, NoLabel)
            peg == Peg!Match(Rules, data, Top.e.kids[1], Top.pt.offset, NoLabel)
        IN  /\ (ret.st = "ok") = code.ok /\ pt.offset = code.to /\ ret.val = code.val
            /\ gram \notin {"predicatesB", "mixed"} => peg.ok = code.ok /\ peg.to = code.to
            /\ gram \in {"calculator", "andnot", "predicates", "json"} => peg.val = code.val

\* The functions that the builder writes for the parsers, and its calls of
\* writeExprCode.  A definition without parameters is computed once.
BuiltFuncs == [g \in DOMAIN MCGrammars |-> WriteCode(MCGrammars[g])]

MCFuncs == BuiltFuncs

MCNewArgs(e) == Range(AddedArgs(e))

RECURSIVE AllCalls(_)
AllCalls(c) == {c} \cup UNION {AllCalls(d) : d \in WriteCalls(c)}

BuiltCalls ==
    [g \in DOMAIN MCGrammars |->
        UNION {AllCalls(WriteCall(rule.kids[1], {})) : rule \in Range(MCGrammars[g])}]

MCCodeCalls == BuiltCalls

\* pigeon regenerates a parser of the repository: its own parser reads the
\* grammar, the character classes are parsed, and the table that the builder
\* writes is the one that is checked in.
Regenerates ==
    gram = "pigeon" /\ data = AndNotText /\ res.st # "pending" =>
        res.st = "ok" /\ errs = {} /\ WriteGrammar(res.val) = AndNot

\* The parsers that the repository keeps.
Kept == {"calculator", "andnot", "predicates", "predicatesB", "json", "pigeon", "bootstrap"}

MCWellFormed == [g \in Kept |-> WellFormed(MCGrammars[g])]

\* The parsers of the repository end on every input, not only on those of this
\* run: none has a rule that calls itself before it has consumed a rune, or
\* repeats what can match nothing, the two ways in which parse would not end.
NeverLoops == gram \in Kept => MCWellFormed[gram]
=============================================================================
