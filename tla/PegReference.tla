---------------------------- MODULE PegReference ----------------------------
(***************************************************************************)
(* What a parsing expression matches, as PEGs are usually defined: a match *)
(* is a function of the expression, the input and the place, there is no   *)
(* state to save or restore, and an expression that fails binds no label.  *)
(* The reference that PegRuntime is checked against.                       *)
(*                                                                         *)
(* The matchers of static_code.go depart from this in four ways, which are *)
(* part of the definition when Departs is TRUE:                            *)
(*   - to a class or a literal the input goes on after its last rune, with *)
(*     the rune RefEnd that a byte which is not UTF-8 has too; [^x] matches *)
(*     there, and does not move;                                           *)
(*   - the any matcher takes RefEnd, inside of the input too, for the end; *)
(*   - its value is the rune after the one that it matched;                *)
(*   - the value of a class that ignores case is in lower case.            *)
(***************************************************************************)
EXTENDS Integers, Sequences, PegValues

CONSTANTS RefLower, RefEnd, RefOutcomes(_, _, _), Departs

Matched(to, val, env) == [ok |-> TRUE, to |-> to, val |-> val, env |-> env]
Unmatched(i, env) == [ok |-> FALSE, to |-> i, val |-> Nil, env |-> env]
NoEnv == [l \in {} |-> Nil]

With(env, label, val) ==
    [l \in DOMAIN env \cup {label} |-> IF l = label THEN val ELSE env[l]]

\* What the code block does when it does not panic, without an error if it can.
Outcome(code, env, text) ==
    LET all == {o \in RefOutcomes(code, env, text) : ~o.panic}
    IN  CHOOSE o \in all : o.err => \A other \in all : other.err

\* The n runes of d from i + 1 on, and the place after them.
RunesAt(d, i, n) ==
    [k \in 1 .. n |-> IF i + k <= Len(d) THEN d[i + k] ELSE RefEnd]

After(d, i, n) == IF i + n <= Len(d) THEN i + n ELSE Len(d)

Folded(text, ignoreCase) ==
    IF ignoreCase THEN [k \in DOMAIN text |-> RefLower[text[k]]] ELSE text

\* Are there n runes to match at i?
Readable(d, i, n) == Departs \/ i + n <= Len(d)

\* The expression of the rule with that name, of the last one if there are
\* several.
BodyOf(rules, name) ==
    rules[CHOOSE k \in DOMAIN rules :
            /\ rules[k].arg = name
            /\ \A j \in k + 1 .. Len(rules) : rules[j].arg # name].kids[1]

\* The expressions that match runes.
MatchRunes(d, e, i, env) ==
    CASE e.op = "any" ->
            IF i < Len(d) /\ (Departs => d[i + 1] # RefEnd)
            THEN Matched(i + 1, Str(RunesAt(d, IF Departs THEN i + 1 ELSE i, 1)), env)
            ELSE Unmatched(i, env)
      [] e.op = "class" ->
            LET rune == RunesAt(d, i, 1)
                folded == Folded(rune, e.arg.ignoreCase)
            IN  IF Readable(d, i, 1) /\ (folded[1] \in e.arg.chars) # e.arg.inverted
                THEN Matched(After(d, i, 1), Str(IF Departs THEN folded ELSE rune), env)
                ELSE Unmatched(i, env)
      [] e.op = "lit" ->
            LET n == Len(e.arg.val)
                text == RunesAt(d, i, n)
            IN  IF Readable(d, i, n) /\ Folded(text, e.arg.ignoreCase) = e.arg.val
                THEN Matched(After(d, i, n), Str(text), env) ELSE Unmatched(i, env)

\* The results of other expressions, given the result r of what they hold or
\* whether they match.
Bound(r, label, env) == [r EXCEPT !.env = IF r.ok THEN With(env, label, r.val) ELSE env]

Computed(r, code, text) ==
    IF r.ok THEN [r EXCEPT !.val = Outcome(code, r.env, text).val] ELSE r

Some(r, i) == IF r.val = List(<<>>) THEN Unmatched(i, r.env) ELSE r

Maybe(r, i) == IF r.ok THEN r ELSE Matched(i, Nil, r.env)

Looked(ok, i, env) == IF ok THEN Matched(i, Nil, env) ELSE Unmatched(i, env)

RECURSIVE Match(_, _, _, _, _)
RECURSIVE MatchFirst(_, _, _, _, _)
RECURSIVE MatchSeq(_, _, _, _, _, _)
RECURSIVE MatchMany(_, _, _, _, _, _)

\* The result of e on the input d, from its rune i + 1, with the labels env.
Match(rules, d, e, i, env) ==
    CASE e.op = "ruleRef" ->
            IF \E k \in DOMAIN rules : rules[k].arg = e.arg
            THEN [Match(rules, d, BodyOf(rules, e.arg), i, NoEnv) EXCEPT !.env = env]
            ELSE Unmatched(i, env)
      [] e.op = "labeled" -> Bound(Match(rules, d, e.kids[1], i, NoEnv), e.arg, env)
      [] e.op = "action" ->
            LET r == Match(rules, d, e.kids[1], i, env)
            IN  Computed(r, e.arg, SubSeq(d, i + 1, r.to))
      [] e.op = "choice" -> [MatchFirst(rules, d, e.kids, 1, i) EXCEPT !.env = env]
      [] e.op = "seq" -> MatchSeq(rules, d, e.kids, Len(e.kids), i, env)
      [] e.op = "zeroOrMore" -> MatchMany(rules, d, e.kids[1], i, env, <<>>)
      [] e.op = "oneOrMore" -> Some(MatchMany(rules, d, e.kids[1], i, env, <<>>), i)
      [] e.op = "zeroOrOne" -> Maybe(Match(rules, d, e.kids[1], i, env), i)
      [] e.op = "and" -> Looked(Match(rules, d, e.kids[1], i, env).ok, i, env)
      [] e.op = "not" -> Looked(~Match(rules, d, e.kids[1], i, env).ok, i, env)
      [] e.op = "andCode" -> Looked(Outcome(e.arg, env, <<>>).ok, i, env)
      [] e.op = "notCode" -> Looked(~Outcome(e.arg, env, <<>>).ok, i, env)
      [] OTHER -> MatchRunes(d, e, i, env)

\* The first of es, from the n-th on, that matches; each has labels of its own.
MatchFirst(rules, d, es, n, i) ==
    IF n > Len(es) THEN Unmatched(i, NoEnv)
    ELSE LET r == Match(rules, d, es[n], i, NoEnv)
         IN  IF r.ok THEN r ELSE MatchFirst(rules, d, es, n + 1, i)

\* The n first of es in order; none of their labels is bound if one fails.
MatchSeq(rules, d, es, n, i, env) ==
    IF n = 0 THEN Matched(i, List(<<>>), env)
    ELSE LET before == MatchSeq(rules, d, es, n - 1, i, env)
             r == Match(rules, d, es[n], before.to, before.env)
         IN  IF ~before.ok THEN before
             ELSE IF ~r.ok THEN Unmatched(i, env)
             ELSE [r EXCEPT !.val = List(Append(before.val.kids, r.val))]

\* e as often as it matches, after matches with the values val.
MatchMany(rules, d, e, i, env, val) ==
    LET r == Match(rules, d, e, i, env)
    IN  IF r.ok THEN MatchMany(rules, d, e, r.to, r.env, Append(val, r.val))
        ELSE Matched(i, List(val), env)
=============================================================================
