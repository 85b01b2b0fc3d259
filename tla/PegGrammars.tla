----------------------------- MODULE PegGrammars -----------------------------
(***************************************************************************)
(* Grammars in the form in which the builder writes them into a generated  *)
(* parser (var g), for PegRuntime, with what their code blocks do.  A code *)
(* block has the name that the builder gives it.                           *)
(***************************************************************************)
EXTENDS Integers, Sequences, SequencesExt, PegValues, GoStrings

(* The expression types of static_code.go *)
Node(op, kids, arg) == [op |-> op, kids |-> kids, arg |-> arg]
Rule(name, e) == Node("rule", <<e>>, name)
RuleRef(name) == Node("ruleRef", <<>>, name)
SeqExpr(es) == Node("seq", es, "")
Choice(es) == Node("choice", es, "")
Action(e, code) == Node("action", <<e>>, code)
Labeled(label, e) == Node("labeled", <<e>>, label)
ZeroOrMore(e) == Node("zeroOrMore", <<e>>, "")
OneOrMore(e) == Node("oneOrMore", <<e>>, "")
ZeroOrOne(e) == Node("zeroOrOne", <<e>>, "")
And(e) == Node("and", <<e>>, "")
Not(e) == Node("not", <<e>>, "")
AndCode(code) == Node("andCode", <<>>, code)
NotCode(code) == Node("notCode", <<>>, code)
AnyRune == Node("any", <<>>, "")
LitMatcher(val, ignoreCase) == Node("lit", <<>>, [val |-> val, ignoreCase |-> ignoreCase])
Lit(val) == LitMatcher(val, FALSE)
CharClass(chars, ignoreCase, inverted) ==
    Node("class", <<>>, [chars |-> chars, ignoreCase |-> ignoreCase, inverted |-> inverted])
Class(chars) == CharClass(chars, FALSE, FALSE)

\* For short: a reference to a rule, and a literal of one rune.
R(name) == RuleRef(name)
T(rune) == Lit(<<rune>>)

\* The outcome of a code block.
Returns(ok, val) == [ok |-> ok, val |-> val, err |-> FALSE, panic |-> FALSE]
Errs(val) == [ok |-> TRUE, val |-> val, err |-> TRUE, panic |-> FALSE]
Panics == [ok |-> FALSE, val |-> Nil, err |-> FALSE, panic |-> TRUE]

\* The argument that a call function takes from the scope: nil if unbound.
Arg(scope, label) == IF label \in DOMAIN scope THEN scope[label] ELSE Nil

-----------------------------------------------------------------------------
(* examples/calculator *)

\* Mutant: an optional blank is repeated.
WhitespaceOptional == Rule("_", ZeroOrMore(ZeroOrOne(Class(Spaces))))

Whitespace == Rule("_", ZeroOrMore(Class(Spaces)))
EndOfFile == Rule("EOF", Not(AnyRune))

CalcInput ==
    Rule("Input", Action(SeqExpr(<<Labeled("expr", RuleRef("Expr")), RuleRef("EOF")>>), "onInput1"))

\* Expr and Term: operands of the rule below with operators between them.
Operands(name, code, operand, oper, before, after) ==
    Rule(name, Action(SeqExpr(before \o
        <<Labeled("first", RuleRef(operand)),
          Labeled("rest", ZeroOrMore(SeqExpr(<<RuleRef("_"), RuleRef(oper),
                                               RuleRef("_"), RuleRef(operand)>>)))>>
        \o after), code))

CalcExpr == Operands("Expr", "onExpr1", "Term", "AddOp", <<RuleRef("_")>>, <<RuleRef("_")>>)
CalcTerm == Operands("Term", "onTerm1", "Factor", "MulOp", <<>>, <<>>)

CalcFactor ==
    Rule("Factor", Choice(<<
        Action(SeqExpr(<<Lit(<<"(">>), Labeled("expr", RuleRef("Expr")), Lit(<<")">>)>>), "onFactor2"),
        Action(Labeled("integer", RuleRef("Integer")), "onFactor8")>>))

CalcAddOp == Rule("AddOp", Action(Choice(<<Lit(<<"+">>), Lit(<<"-">>)>>), "onAddOp1"))
CalcMulOp == Rule("MulOp", Action(Choice(<<Lit(<<"*">>), Lit(<<"/">>)>>), "onMulOp1"))

CalcInteger ==
    Rule("Integer", Action(SeqExpr(<<ZeroOrOne(Lit(<<"-">>)), OneOrMore(Class(Digits))>>), "onInteger1"))

Calculator ==
    <<CalcInput, CalcExpr, CalcTerm, CalcFactor, CalcAddOp, CalcMulOp,
      CalcInteger, Whitespace, EndOfFile>>

\* An integer is represented by its text, the result of eval by the texts of
\* its operands and operators.  So any division may be by zero, where eval
\* panics, and any integer out of the range of Atoi.
CalcEval(first, rest) ==
    Tree("int", first.text \o
        FlattenSeq([k \in DOMAIN rest |-> rest[k].kids[2].text \o rest[k].kids[4].text]), <<>>)

CalcCode(code, scope, text) ==
    CASE code \in {"onInput1", "onFactor2"} -> {Returns(TRUE, Arg(scope, "expr"))}
      [] code = "onFactor8" -> {Returns(TRUE, Arg(scope, "integer"))}
      [] code \in {"onExpr1", "onTerm1"} ->
            LET rest == Arg(scope, "rest").kids
            IN  {Returns(TRUE, CalcEval(Arg(scope, "first"), rest))}
                \cup IF \E j \in DOMAIN rest : rest[j].kids[2] = Str(<<"/">>) THEN {Panics} ELSE {}
      [] code \in {"onAddOp1", "onMulOp1"} -> {Returns(TRUE, Str(text))}
      [] code = "onInteger1" ->
            {Returns(TRUE, Tree("int", text, <<>>)), Errs(Tree("int", text, <<>>))}

-----------------------------------------------------------------------------
(* test/andnot *)

AndNotInput ==
    Rule("Input", SeqExpr(<<RuleRef("_"), RuleRef("AB"), RuleRef("_"), RuleRef("EOF")>>))

AndNotAB ==
    Rule("AB", Choice(<<
        SeqExpr(<<Labeled("abees", OneOrMore(Class({"a", "b"}))), AndCode("onAB6")>>),
        RuleRef("CD")>>))

AndNotCD ==
    Rule("CD", SeqExpr(<<Labeled("ceedees", OneOrMore(Class({"c", "d"}))), NotCode("onCD5")>>))

AndNot == <<AndNotInput, AndNotAB, AndNotCD, Whitespace, EndOfFile>>

\* strings.HasSuffix(toString(arg), r)
HasSuffix(arg, r) == arg.kids # <<>> /\ Last(arg.kids) = Str(<<r>>)

AndNotCode(code, scope) ==
    CASE code = "onAB6" -> {Returns(HasSuffix(Arg(scope, "abees"), "b"), Nil)}
      [] code = "onCD5" -> {Returns(HasSuffix(Arg(scope, "ceedees"), "c"), Nil)}

-----------------------------------------------------------------------------
(* test/predicates: every code block returns true *)

\* An alternative of the rule A.
Checked(label, check) == SeqExpr(<<Labeled(label, Lit(<<label>>)), check>>)

PredicatesA ==
    Rule("A", Choice(<<Checked("a", NotCode("onA5")), Checked("b", NotCode("onA9")),
                       Checked("d", AndCode("onA13"))>>))

PredicatesB ==
    Rule("B", SeqExpr(<<
        Labeled("out", SeqExpr(<<
            Labeled("inner", SeqExpr(<<CharClass({"a", "b", "d"}, FALSE, TRUE),
                                       Labeled("innermost", AnyRune), AndCode("onB9")>>)),
            AndCode("onB10")>>)),
        AndCode("onB11")>>))

Predicates == <<PredicatesA, PredicatesB>>

PredicatesCode(code) == {Returns(TRUE, Nil)}

-----------------------------------------------------------------------------
(* What the code blocks of these grammars may do. *)

CalcCodes == {"onInput1", "onExpr1", "onTerm1", "onFactor2", "onFactor8", "onAddOp1",
              "onMulOp1", "onInteger1"}
AndNotCodes == {"onAB6", "onCD5"}
PredicatesCodes == {"onA5", "onA9", "onA13", "onB9", "onB10", "onB11"}
PegCodes == CalcCodes \cup AndNotCodes \cup PredicatesCodes

CodeOf(code, scope, text) ==
    CASE code \in CalcCodes -> CalcCode(code, scope, text)
      [] code \in AndNotCodes -> AndNotCode(code, scope)
      [] code \in PredicatesCodes -> PredicatesCode(code)
=============================================================================
