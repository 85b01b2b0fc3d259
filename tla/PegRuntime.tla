----------------------------- MODULE PegRuntime -----------------------------
(***************************************************************************)
(* The backtracking matcher that peg/builder/static_code.go copies into    *)
(* every generated parser.  The Go call stack is explicit: a frame is a    *)
(* call of one of the parse functions, a step is what such a function does *)
(* between two calls it makes or receives.                                 *)
(*                                                                         *)
(* An expression is a record [op, kids, arg]: its Go type, the expressions *)
(* it holds and its other fields.  A rule is an expression too, of op      *)
(* "rule", whose arg is its name.  A sequence and a choice hold at least   *)
(* one expression, and no name or label is empty, as in every grammar that *)
(* pigeon reads.  A rune is one cell of the input, RuneError standing for  *)
(* a byte that is not UTF-8 (and for U+FFFD, which the code cannot tell    *)
(* from it).                                                               *)
(***************************************************************************)
EXTENDS Integers, Sequences, FiniteSets, PegValues

CONSTANTS
    Grammars,        \* function from names to sequences of rules
    Inputs,          \* Inputs[g]: the inputs to parse with grammar g
    Lower,           \* function from runes to runes: unicode.ToLower
    NewLine,         \* the rune '\n'
    RuneError,       \* utf8.RuneError
    Outcomes(_, _, _)\* what a code block may do, given its name, the labels
                     \* in scope and c.text: a set of [ok, val, err, panic]

\* A grammar is a sequence of rules, an input a sequence of runes.
ASSUME GrammarAssumption ==
    \A g \in DOMAIN Grammars : Grammars[g] = <<>> \/ Grammars[g][1].op = "rule"

ASSUME InputAssumption ==
    \A g \in DOMAIN Grammars : \A d \in Inputs[g] : d \in Seq({d[k] : k \in DOMAIN d})

\* DecodeRune does not return '\n' for what it cannot decode.
ASSUME RuneAssumption == NewLine # RuneError

VARIABLES
    gram,    \* the grammar of this parser
    data,    \* p.data
    pt,      \* p.pt: the current rune and its position
    stack,   \* the calls in progress, the innermost last
    ret,     \* what the call that has just ended returned to the last frame
    vstack,  \* p.vstack: the labels in scope
    rstack,  \* p.rstack: the rules in progress
    errs,    \* p.errs, without the duplicates that dedupe removes
    cur,     \* p.cur: the match that the last action was run for
    res      \* what parse has returned

vars == <<gram, data, pt, stack, ret, vstack, rstack, errs, cur, res>>

Rules == Grammars[gram]

NoRune == "no rune"   \* savepoint.rn before the first read
NoName == "no rule"   \* an error outside of every rule

NoLabel == [l \in {} |-> Nil]
NoRet == [st |-> "none", val |-> Nil, from |-> 0, v |-> 0, r |-> 0]
Pending == [st |-> "pending", val |-> Nil]

-----------------------------------------------------------------------------
(* Positions and errors *)

\* The rune at offset o; past the last one DecodeRune returns RuneError, 0.
RuneAt(o) == IF o < Len(data) THEN data[o + 1] ELSE RuneError

\* The position after p.read().
Read(p) ==
    LET o == p.offset + p.w
    IN  [offset |-> o,
         rn     |-> RuneAt(o),
         w      |-> IF o < Len(data) THEN 1 ELSE 0,
         line   |-> IF RuneAt(o) = NewLine THEN p.line + 1 ELSE p.line,
         col    |-> IF RuneAt(o) = NewLine THEN 0 ELSE p.col + 1]

\* Mutants of Restore: line and column are not restored; nothing is restored.
RestoreOffset(p) == [p EXCEPT !.line = pt.line, !.col = pt.col]
RestoreNothing(p) == pt

\* What restore leaves in p.pt: nothing changes when the offset is the same.
Restore(p) == IF p.offset = pt.offset THEN pt ELSE p

RuleName == IF rstack = <<>> THEN NoName ELSE rstack[Len(rstack)]

\* The error of addErrAt.
Err(what, p) ==
    [err |-> what, offset |-> p.offset, line |-> p.line, col |-> p.col,
     rule |-> RuleName]

\* read reports the rune it moves to when it is not UTF-8.
EncodingErr(p) ==
    IF p.rn = RuneError /\ p.w > 0 THEN {Err("invalid encoding", p)} ELSE {}

\* p.slice between two offsets.
Slice(c) == SubSeq(data, c.from + 1, c.to)

\* p.read() as a step of the caller.
Advance ==
    /\ pt' = Read(pt)
    /\ errs' = errs \cup EncodingErr(Read(pt))

-----------------------------------------------------------------------------
(* Calls, returns, and the stack of labels *)

Top == stack[Len(stack)]
Below == SubSeq(stack, 1, Len(stack) - 1)

\* A call of the parse function for e.  pt is what the function saves on
\* entry, i and val are what it has done so far; v and r, the depths of vstack
\* and rstack on entry, are only there for the properties.
Frame(e) ==
    [e |-> e, i |-> 0, pt |-> pt, val |-> <<>>, v |-> Len(vstack'), r |-> Len(rstack')]

\* The same call later.
Later(f, i, val) == [e |-> f.e, i |-> i, pt |-> f.pt, val |-> val, v |-> f.v, r |-> f.r]

\* The innermost call, now f, calls the parse function for e.
Call(f, e) ==
    /\ stack' = Append(Append(Below, f), Frame(e))
    /\ ret' = NoRet

\* The innermost call ends.
Return(ok, val) ==
    /\ stack' = Below
    /\ ret' = [st |-> IF ok THEN "ok" ELSE "fail", val |-> val,
               from |-> Top.pt.offset, v |-> Top.v, r |-> Top.r]

\* The innermost call is of the function for op and has just begun ...
Entered(op) ==
    /\ res.st = "pending" /\ stack # <<>>
    /\ ret.st = "none" /\ Top.e.op = op

\* ... or has just got the result of a call it made.
Resumed(op) ==
    /\ res.st = "pending" /\ stack # <<>>
    /\ ret.st # "none" /\ Top.e.op = op

PushV == vstack' = Append(vstack, NoLabel)

PopV == SubSeq(vstack, 1, Len(vstack) - 1)

Scope == vstack[Len(vstack)]

\* m[label] = val, in the innermost scope of vs.
Bind(vs, label, val) ==
    LET m == vs[Len(vs)]
    IN  [vs EXCEPT ![Len(vs)] =
            [l \in DOMAIN m \cup {label} |-> IF l = label THEN val ELSE m[l]]]

-----------------------------------------------------------------------------
(* parse *)

Init ==
    /\ gram \in DOMAIN Grammars
    /\ data \in Inputs[gram]
    /\ pt = [offset |-> 0, rn |-> NoRune, w |-> 0, line |-> 1, col |-> 0]
    /\ stack = <<>> /\ ret = NoRet
    /\ vstack = <<>> /\ rstack = <<>>
    /\ errs = {} /\ cur = [from |-> 0, to |-> 0]
    /\ res = Pending

\* parse reads the first rune and calls parseRule for the first rule.
Parse ==
    /\ res.st = "pending" /\ stack = <<>> /\ ret.st = "none"
    /\ IF Rules = <<>>
       THEN /\ res' = [st |-> "fail", val |-> Nil]
            /\ errs' = {Err("grammar has no rule", pt)}
            /\ UNCHANGED <<pt, stack>>
       ELSE /\ Advance
            /\ stack' = <<[e |-> Rules[1], i |-> 0, pt |-> pt', val |-> <<>>, v |-> 0, r |-> 0]>>
            /\ UNCHANGED res
    /\ UNCHANGED <<gram, data, ret, vstack, rstack, cur>>

\* Mutant of ParseEnd: no error is added for a failure.
ParseEndSilent ==
    /\ res.st = "pending" /\ stack = <<>> /\ ret.st # "none"
    /\ res' = [st |-> ret.st, val |-> IF ret.st = "ok" THEN ret.val ELSE Nil]
    /\ UNCHANGED <<gram, data, pt, stack, ret, vstack, rstack, errs, cur>>

\* parseRule for the first rule has returned: a failure is never silent.
ParseEnd ==
    /\ res.st = "pending" /\ stack = <<>> /\ ret.st # "none"
    /\ res' = [st |-> ret.st, val |-> IF ret.st = "ok" THEN ret.val ELSE Nil]
    /\ errs' = IF ret.st = "fail" /\ errs = {} THEN {Err("no match found", pt)}
               ELSE errs
    /\ UNCHANGED <<gram, data, pt, stack, ret, vstack, rstack, cur>>

\* A panic of a code block ends the parse: the deferred function of parse
\* turns it into an error.  Nothing unwinds the stacks.
Panic ==
    /\ res' = [st |-> "panic", val |-> Nil]
    /\ errs' = errs \cup {Err("panic", pt)}
    /\ stack' = <<>>
    /\ UNCHANGED ret

-----------------------------------------------------------------------------
(* The parse functions of the expressions that hold others *)

\* parseRule: a rule has a scope of its own.
ParseRule ==
    /\ UNCHANGED <<gram, data, pt, errs, cur, res>>
    /\ \/ /\ Entered("rule")
          /\ rstack' = Append(rstack, Top.e.arg)
          /\ PushV
          /\ Call(Top, Top.e.kids[1])
       \/ /\ Resumed("rule")
          /\ rstack' = SubSeq(rstack, 1, Len(rstack) - 1)
          /\ vstack' = PopV
          /\ Return(ret.st = "ok", ret.val)

\* parseRuleRefExpr: ends in a call of parseRule.  When a name is defined
\* more than once, buildRulesTable keeps the last rule.
ParseRuleRefExpr ==
    /\ Entered("ruleRef")
    /\ UNCHANGED <<gram, data, pt, vstack, rstack, cur, res>>
    /\ LET defs == {k \in DOMAIN Rules : Rules[k].arg = Top.e.arg}
       IN  IF defs = {}
           THEN /\ errs' = errs \cup {Err("undefined rule", pt)}
                /\ Return(FALSE, Nil)
           ELSE \E k \in defs :
                   /\ \A j \in defs : j <= k
                   /\ stack' = Append(Below, Frame(Rules[k]))
                   /\ UNCHANGED <<errs, ret>>

\* parseActionExpr: the code block runs on the text of the match; an error it
\* returns is recorded, and the expression matches all the same.
ParseActionExpr ==
    /\ UNCHANGED <<gram, data, pt, vstack, rstack>>
    /\ \/ /\ Entered("action")
          /\ Call(Top, Top.e.kids[1])
          /\ UNCHANGED <<errs, cur, res>>
       \/ /\ Resumed("action") /\ ret.st = "fail"
          /\ Return(FALSE, ret.val)
          /\ UNCHANGED <<errs, cur, res>>
       \/ /\ Resumed("action") /\ ret.st = "ok"
          /\ cur' = [from |-> Top.pt.offset, to |-> pt.offset]
          /\ \E o \in Outcomes(Top.e.arg, Scope, Slice(cur')) :
                IF o.panic THEN Panic
                ELSE /\ Return(TRUE, o.val)
                     /\ errs' = errs \cup IF o.err THEN {Err(Top.e.arg, Top.pt)} ELSE {}
                     /\ UNCHANGED res

\* parseAndCodeExpr and parseNotCodeExpr: the code block sees the c.text of
\* the action that ran last.
ParseCode(op, want) ==
    /\ Entered(op)
    /\ UNCHANGED <<gram, data, pt, vstack, rstack, cur>>
    /\ \E o \in Outcomes(Top.e.arg, Scope, Slice(cur)) :
          IF o.panic THEN Panic
          ELSE /\ Return(o.ok = want, Nil)
               /\ errs' = errs \cup IF o.err THEN {Err(Top.e.arg, pt)} ELSE {}
               /\ UNCHANGED res

ParseAndCodeExpr == ParseCode("andCode", TRUE)

\* Mutant of ParseNotCodeExpr: the result is not negated.
ParseNotCodeAsAnd == ParseCode("notCode", TRUE)

ParseNotCodeExpr == ParseCode("notCode", FALSE)

\* parseAndExpr and parseNotExpr: whatever the expression matched is given
\* back.
ParseLookahead(op, want) ==
    /\ UNCHANGED <<gram, data, vstack, rstack, errs, cur, res>>
    /\ \/ /\ Entered(op)
          /\ Call(Top, Top.e.kids[1])
          /\ UNCHANGED pt
       \/ /\ Resumed(op)
          /\ pt' = Restore(Top.pt)
          /\ Return((ret.st = "ok") = want, Nil)

ParseAndExpr == ParseLookahead("and", TRUE)

ParseNotExpr == ParseLookahead("not", FALSE)

\* Mutant of ParseChoiceExpr: the alternatives share a scope, so that the next
\* one finds the labels of those that failed.
ParseChoiceOneScope ==
    /\ UNCHANGED <<gram, data, pt, rstack, errs, cur, res>>
    /\ \/ /\ Entered("choice")
          /\ PushV
          /\ Call(Later(Top, 1, <<>>), Top.e.kids[1])
       \/ /\ Resumed("choice") /\ ret.st = "fail" /\ Top.i < Len(Top.e.kids)
          /\ UNCHANGED vstack
          /\ Call(Later(Top, Top.i + 1, <<>>), Top.e.kids[Top.i + 1])
       \/ /\ Resumed("choice") /\ (ret.st = "ok" \/ Top.i = Len(Top.e.kids))
          /\ vstack' = PopV
          /\ Return(ret.st = "ok", ret.val)

\* parseChoiceExpr: each alternative has a scope of its own; the first one
\* that matches is the result.
ParseChoiceExpr ==
    /\ UNCHANGED <<gram, data, pt, rstack, errs, cur, res>>
    /\ \/ /\ Entered("choice")
          /\ PushV
          /\ Call(Later(Top, 1, <<>>), Top.e.kids[1])
       \/ /\ Resumed("choice") /\ ret.st = "fail" /\ Top.i < Len(Top.e.kids)
          /\ vstack' = Append(PopV, NoLabel)
          /\ Call(Later(Top, Top.i + 1, <<>>), Top.e.kids[Top.i + 1])
       \/ /\ Resumed("choice") /\ (ret.st = "ok" \/ Top.i = Len(Top.e.kids))
          /\ vstack' = PopV
          /\ Return(ret.st = "ok", ret.val)

\* parseLabeledExpr: the value is bound in the scope around the expression.
ParseLabeledExpr ==
    /\ UNCHANGED <<gram, data, pt, rstack, errs, cur, res>>
    /\ \/ /\ Entered("labeled")
          /\ PushV
          /\ Call(Top, Top.e.kids[1])
       \/ /\ Resumed("labeled")
          /\ vstack' = IF ret.st = "ok" THEN Bind(PopV, Top.e.arg, ret.val) ELSE PopV
          /\ Return(ret.st = "ok", ret.val)

\* parseSeqExpr: a failure gives back what the expressions before it matched.
ParseSeqExpr ==
    /\ UNCHANGED <<gram, data, vstack, rstack, errs, cur, res>>
    /\ \/ /\ Entered("seq")
          /\ Call(Later(Top, 1, <<>>), Top.e.kids[1])
          /\ UNCHANGED pt
       \/ /\ Resumed("seq") /\ ret.st = "ok" /\ Top.i < Len(Top.e.kids)
          /\ Call(Later(Top, Top.i + 1, Append(Top.val, ret.val)), Top.e.kids[Top.i + 1])
          /\ UNCHANGED pt
       \/ /\ Resumed("seq") /\ ret.st = "ok" /\ Top.i = Len(Top.e.kids)
          /\ Return(TRUE, List(Append(Top.val, ret.val)))
          /\ UNCHANGED pt
       \/ /\ Resumed("seq") /\ ret.st = "fail"
          /\ pt' = Restore(Top.pt)
          /\ Return(FALSE, Nil)

\* parseZeroOrMoreExpr, parseOneOrMoreExpr and parseZeroOrOneExpr: the
\* expression is matched again as long as it matches, unless it is to match
\* only once; i is 1 after a match, and min the least i of a result.
ParseRepeat(op, min, again) ==
    /\ UNCHANGED <<gram, data, pt, vstack, rstack, errs, cur, res>>
    /\ \/ /\ Entered(op)
          /\ Call(Top, Top.e.kids[1])
       \/ /\ Resumed(op)
          /\ IF ret.st = "ok" /\ again
             THEN Call(Later(Top, 1, Append(Top.val, ret.val)), Top.e.kids[1])
             ELSE Return(ret.st = "ok" \/ Top.i >= min,
                         IF ~again THEN ret.val
                         ELSE IF Top.i >= min THEN List(Top.val) ELSE Nil)

ParseZeroOrMoreExpr == ParseRepeat("zeroOrMore", 0, TRUE)

\* Mutant of ParseOneOrMoreExpr: after a match, a failure does not leave the
\* loop.
ParseOneOrMoreForever ==
    /\ UNCHANGED <<gram, data, pt, vstack, rstack, errs, cur, res>>
    /\ \/ /\ Entered("oneOrMore")
          /\ Call(Top, Top.e.kids[1])
       \/ /\ Resumed("oneOrMore")
          /\ \/ /\ ret.st = "ok"
                /\ Call(Later(Top, 1, Append(Top.val, ret.val)), Top.e.kids[1])
             \/ /\ ret.st = "fail" /\ Top.i = 1
                /\ Call(Top, Top.e.kids[1])
             \/ /\ ret.st = "fail" /\ Top.i = 0
                /\ Return(FALSE, Nil)

ParseOneOrMoreExpr == ParseRepeat("oneOrMore", 1, TRUE)

ParseZeroOrOneExpr == ParseRepeat("zeroOrOne", 0, FALSE)

-----------------------------------------------------------------------------
(* The parse functions of the matchers *)

\* parseLitMatcher: a step for each rune of the literal.
ParseLitMatcher ==
    /\ Entered("lit")
    /\ LET want == Top.e.arg.val
           rn == IF Top.e.arg.ignoreCase THEN Lower[pt.rn] ELSE pt.rn
       IN  \/ /\ Top.i = Len(want)
              /\ Return(TRUE, Str(Top.val))
              /\ UNCHANGED <<pt, errs>>
           \/ /\ Top.i < Len(want) /\ rn = want[Top.i + 1]
              /\ stack' = Append(Below, Later(Top, Top.i + 1, Append(Top.val, pt.rn)))
              /\ Advance
              /\ UNCHANGED ret
           \/ /\ Top.i < Len(want) /\ rn # want[Top.i + 1]
              /\ pt' = Restore(Top.pt)
              /\ Return(FALSE, Nil)
              /\ UNCHANGED errs
    /\ UNCHANGED <<gram, data, vstack, rstack, cur, res>>

\* parseCharClassMatcher: chars, ranges and classes are one set of runes.  An
\* inverted class also matches at the end of the input.
ParseCharClassMatcher ==
    /\ Entered("class")
    /\ LET c == Top.e.arg
           rn == IF c.ignoreCase THEN Lower[pt.rn] ELSE pt.rn
       IN  IF (rn \in c.chars) # c.inverted
           THEN /\ Advance
                /\ Return(TRUE, Str(<<rn>>))
           ELSE /\ Return(FALSE, Nil)
                /\ UNCHANGED <<pt, errs>>
    /\ UNCHANGED <<gram, data, vstack, rstack, cur, res>>

\* parseAnyMatcher: the value is the rune after the one that matched.
ParseAnyMatcher ==
    /\ Entered("any")
    /\ IF pt.rn # RuneError
       THEN /\ Advance
            /\ Return(TRUE, Str(<<pt'.rn>>))
       ELSE /\ Return(FALSE, Nil)
            /\ UNCHANGED <<pt, errs>>
    /\ UNCHANGED <<gram, data, vstack, rstack, cur, res>>

-----------------------------------------------------------------------------

Terminating == res.st # "pending" /\ UNCHANGED vars

Next ==
    \/ Parse \/ ParseEnd
    \/ ParseRule \/ ParseRuleRefExpr
    \/ ParseActionExpr \/ ParseAndCodeExpr \/ ParseNotCodeExpr
    \/ ParseAndExpr \/ ParseNotExpr
    \/ ParseChoiceExpr \/ ParseLabeledExpr \/ ParseSeqExpr
    \/ ParseZeroOrMoreExpr \/ ParseOneOrMoreExpr \/ ParseZeroOrOneExpr
    \/ ParseLitMatcher \/ ParseCharClassMatcher \/ ParseAnyMatcher
    \/ Terminating

Spec == Init /\ [][Next]_vars

\* The parser is a sequential program that nothing can block: as long as parse
\* has not returned it takes steps (WF_vars(Next), as a step is possible until
\* then).
FairSpec == Spec /\ ([]<>(res.st # "pending") \/ []<><<Next>>_vars)

-----------------------------------------------------------------------------
(* Properties *)

Positions == [offset : 0 .. Len(data), line : Nat, col : Nat, w : {0, 1},
              rn : {data[k] : k \in DOMAIN data} \cup {RuneError, NoRune}]

\* Type invariant: no position, saved or current, is past the end of the
\* input.
TypeOK ==
    /\ gram \in DOMAIN Grammars /\ data \in Inputs[gram]
    /\ pt \in Positions
    /\ ret.st \in {"none", "ok", "fail"} /\ ret.from \in 0 .. Len(data)
    /\ ret.v \in Nat /\ ret.r \in Nat
    /\ res.st \in {"pending", "ok", "fail", "panic"}
    /\ cur \in [from : 0 .. Len(data), to : 0 .. Len(data)]
    /\ \A k \in DOMAIN stack :
          /\ stack[k].pt \in Positions
          /\ stack[k].i \in Nat /\ stack[k].v \in Nat /\ stack[k].r \in Nat

\* The savepoints of the calls in progress are in the order of the calls and
\* none is past the current position: the slices that parseActionExpr takes
\* of the input (p.slice) never end before they start, whatever restore has
\* put back in between.
OffsetsNested ==
    /\ \A j, k \in DOMAIN stack : j <= k => stack[j].pt.offset <= stack[k].pt.offset
    /\ \A k \in DOMAIN stack : stack[k].pt.offset <= pt.offset
    /\ cur.from <= cur.to

\* A call that fails consumes nothing.  Only seqExpr, litMatcher and the
\* lookaheads restore the position; the other functions rely on the calls
\* they make.
FailRestores == ret.st = "fail" => pt.offset = ret.from

\* A call leaves vstack as deep as it was on entry, so the scope that a
\* label is bound in, or that a code block reads, is the one that its own
\* rule, alternative or label has pushed; and a parse that ends without a
\* panic has emptied both stacks.  No function reads vstack when it is empty.
ScopeBalanced ==
    /\ ret.st # "none" => Len(vstack) = ret.v /\ Len(rstack) = ret.r
    /\ res.st \in {"ok", "fail"} => vstack = <<>> /\ rstack = <<>>
    /\ \A op \in {"andCode", "notCode"} : Entered(op) => vstack # <<>>
    /\ Resumed("action") => vstack # <<>>
    /\ Resumed("labeled") => Len(vstack) > 1

\* The number of the last rune up to offset o that is a new line, from 1.
LastNewLine(o) ==
    CHOOSE k \in 0 .. o + 1 :
        /\ k > 0 => k <= Len(data) /\ data[k] = NewLine
        /\ \A j \in k + 1 .. o + 1 : j <= Len(data) => data[j] # NewLine

\* The line and the column of errors are those of the offset, however often
\* the parser went back.  At the end of the input the column may be too high:
\* an inverted class matches there, read counts a column, and restore does
\* nothing as the offset is the same.
PositionTrue ==
    LET o == pt.offset
    IN  stack # <<>> =>
            /\ o < Len(data) => pt.col = o + 1 - LastNewLine(o)
            /\ o = Len(data) => pt.col >= o + 1 - LastNewLine(o)
            /\ pt.line = 1 + Cardinality({k \in DOMAIN data : k <= o + 1 /\ data[k] = NewLine})

\* Parse never fails without an error, and never succeeds without one after it
\* has consumed a byte that is not UTF-8.
NoSilentFailure ==
    /\ res.st \in {"fail", "panic"} => errs # {}
    /\ res.st = "ok" /\ errs = {} =>
          \A k \in 1 .. pt.offset : data[k] # RuneError

\* Every parse ends, for grammars without left recursion and without the
\* repetition of an expression that can match nothing.
ParseEnds == <>(res.st # "pending")
=============================================================================
