---------------------------- MODULE PegAnalysis -----------------------------
(***************************************************************************)
(* When a generated parser ends on every input: no rule calls itself       *)
(* before it has consumed a rune, and nothing that may consume no rune is  *)
(* repeated.  Then between two runes there are only finitely many calls.   *)
(***************************************************************************)
EXTENDS Integers, Sequences, FiniteSets, SequencesExt

RECURSIVE Nullable(_, _)
\* May e match without consuming a rune, when the rules in null may?  An
\* inverted class does at the end of the input, as parseCharClassMatcher does
\* not look for it there.
Nullable(e, null) ==
    CASE e.op \in {"zeroOrMore", "zeroOrOne", "and", "not", "andCode", "notCode"} -> TRUE
      [] e.op = "ruleRef" -> e.arg \in null
      [] e.op = "choice" -> \E k \in DOMAIN e.kids : Nullable(e.kids[k], null)
      [] e.op = "lit" -> e.arg.val = <<>>
      [] e.op = "class" -> e.arg.inverted
      [] e.op = "any" -> FALSE
      [] OTHER -> \A k \in DOMAIN e.kids : Nullable(e.kids[k], null)

RECURSIVE Closure(_, _)
\* The rules that may match nothing, at least those in null.
Closure(rules, null) ==
    LET more == {rules[k].arg : k \in {j \in DOMAIN rules : Nullable(rules[j], null)}}
    IN  IF more \subseteq null THEN null ELSE Closure(rules, null \cup more)

RECURSIVE First(_, _)
\* The rules that e may call before it has consumed a rune.
First(e, null) ==
    CASE e.op = "ruleRef" -> {e.arg}
      [] e.op = "seq" ->
            UNION {First(e.kids[k], null) :
                   k \in {j \in DOMAIN e.kids : \A i \in 1 .. j - 1 : Nullable(e.kids[i], null)}}
      [] OTHER -> UNION {First(e.kids[k], null) : k \in DOMAIN e.kids}

RECURSIVE Sound(_, _, _)
\* e refers only to rules in names, and nothing in it repeats what may match
\* nothing.
Sound(e, names, null) ==
    /\ e.op = "ruleRef" => e.arg \in names
    /\ e.op \in {"zeroOrMore", "oneOrMore"} => ~Nullable(e.kids[1], null)
    /\ \A k \in DOMAIN e.kids : Sound(e.kids[k], names, null)

\* The rules that the rules in names call, directly or not, before they have
\* consumed a rune.
RECURSIVE Reach(_, _)
Reach(calls, names) ==
    LET more == UNION {calls[n] : n \in names \cap DOMAIN calls}
    IN  IF more \subseteq names THEN names ELSE Reach(calls, names \cup more)

WellFormed(rules) ==
    LET null == Closure(rules, {})
        names == {rules[k].arg : k \in DOMAIN rules}
        calls == [n \in names |-> UNION {First(rules[k].kids[1], null) :
                                         k \in {j \in DOMAIN rules : rules[j].arg = n}}]
    IN  /\ \A k \in DOMAIN rules : Sound(rules[k], names, null)
        /\ \A n \in names : n \notin Reach(calls, calls[n])
=============================================================================
