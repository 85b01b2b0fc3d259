----------------------------- MODULE PegScopes ------------------------------
(***************************************************************************)
(* The code blocks of a generated parser: the builder (builder.go) writes a *)
(* function for each, with the labels it counts to be in scope as its      *)
(* arguments; the runtime calls it with the labels that are in scope.      *)
(*                                                                         *)
(* Here the builder is described by the calls of writeExprCode that it      *)
(* makes for a grammar, not by what they compute: PegBuilder does that, by *)
(* recursion on the grammar.                                               *)
(***************************************************************************)
EXTENDS PegRuntime, Functions

CONSTANTS
    CodeCalls,   \* CodeCalls[g]: the calls of writeExprCode for grammar g
    NewArgs(_),  \* the labels that writeExprCode adds for an expression
    Funcs        \* Funcs[g]: the functions written for g, [name, args], by rule

\* A call of writeExprCode for e, with the labels args on top of argsStack.
WriteCall(e, args) == [e |-> e, args |-> args]

\* The expressions that hold one other and may match whether it does or not,
\* or several times.
Repeats == {"and", "not", "zeroOrMore", "oneOrMore", "zeroOrOne"}

\* The labels that the first n expressions of a sequence add.
ArgsUpTo(e, n) == UNION {NewArgs(e.kids[k]) : k \in 1 .. n}

\* The calls that writeExprCode makes for c.e: a label and an alternative open
\* a set of arguments of their own, the expressions of a sequence share one.
WriteCalls(c) ==
    CASE c.e.op = "labeled" -> {WriteCall(c.e.kids[1], {})}
      [] c.e.op = "choice" -> {WriteCall(c.e.kids[k], {}) : k \in 1 .. Len(c.e.kids)}
      [] c.e.op = "seq" ->
            {WriteCall(c.e.kids[k], c.args \cup ArgsUpTo(c.e, k - 1)) : k \in 1 .. Len(c.e.kids)}
      [] c.e.op \in {"action"} \cup Repeats -> {WriteCall(c.e.kids[1], c.args)}
      [] OTHER -> {}

\* addArg, and what the calls for the expressions that e holds add.
AddArgs(e) ==
    CASE e.op = "labeled" -> {e.arg}
      [] e.op = "seq" -> ArgsUpTo(e, Len(e.kids))
      [] e.op \in {"action"} \cup Repeats -> NewArgs(e.kids[1])
      [] OTHER -> {}

\* The functions of that name: for each the number of its rule and its own.
Named(funcs, name) ==
    UNION {{<<r, k>> : k \in {j \in DOMAIN funcs[r] : funcs[r][j].name = name}} : r \in DOMAIN funcs}

\* The labels that the function at this place takes.
ArgsOf(funcs, at) == Range(funcs[at[1]][at[2]].args)

\* writeFunc was called once for the name, with the arguments args.
OneFunc(g, name, args) ==
    \E at \in Named(Funcs[g], name) :
        Named(Funcs[g], name) = {at} /\ ArgsOf(Funcs[g], at) = args

\* The function for the code block of c.e, if it has one.
WriteFunc(g, c) ==
    /\ c.e.op \in {"andCode", "notCode"} => OneFunc(g, c.e.arg, c.args)
    /\ c.e.op = "action" => OneFunc(g, c.e.arg, c.args \cup NewArgs(c.e.kids[1]))

\* writeRuleCode starts with no argument, and writeExprCode goes through the
\* whole expression.  A label that is bound inside of what may not match, or
\* may match several times, is beyond the builder: it counts such a label, but
\* there may be no value for it.  The grammars in question have none.
ASSUME BuilderAssumption ==
    \A g \in DOMAIN Funcs :
        /\ g \in DOMAIN Grammars
        /\ Grammars[g] \in Seq({Grammars[g][k] : k \in DOMAIN Grammars[g]})
        /\ \A k \in DOMAIN Grammars[g] :
              /\ Grammars[g][k].op = "rule"
              /\ WriteCall(Grammars[g][k].kids[1], {}) \in CodeCalls[g]
        /\ \A c \in CodeCalls[g] :
              /\ c.e.op # "rule"
              /\ c.e.op \in {"seq", "choice"} => Len(c.e.kids) \in Nat \ {0}
              /\ WriteCalls(c) \subseteq CodeCalls[g]
              /\ NewArgs(c.e) = AddArgs(c.e)
              /\ c.e.op \in Repeats => NewArgs(c.e) = {}
              /\ WriteFunc(g, c)

-----------------------------------------------------------------------------
(* Properties *)

\* A code block is about to run.
CodeRuns == Entered("andCode") \/ Entered("notCode") \/ (Resumed("action") /\ ret.st = "ok")

\* The builder computes the arguments of a code block from the syntax tree
\* (argsStack), the runtime its scope from the calls in progress (vstack).
\* They agree: when a code block runs, exactly one function has its name, and
\* the labels that this function takes are the labels in scope, none unbound
\* and none left over from an alternative that was given up.
CodeBlocksFit ==
    gram \in DOMAIN Funcs /\ CodeRuns =>
        LET named == Named(Funcs[gram], Top.e.arg)
        IN  /\ Cardinality(named) = 1
            /\ \A at \in named : ArgsOf(Funcs[gram], at) = DOMAIN Scope
=============================================================================
