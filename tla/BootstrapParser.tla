-------------------------- MODULE BootstrapParser ---------------------------
(***************************************************************************)
(* The recursive descent parser of peg/bootstrap (parser.go), on the       *)
(* tokens of Scanner.  The Go call stack is explicit: a frame is a call of *)
(* one of the methods, a step is what it does between two calls of other   *)
(* methods or of read and peek.  The tree is the one of PigeonGrammar.     *)
(***************************************************************************)
EXTENDS Scanner, PegBuilder

VARIABLES
    tok,    \* p.tok
    pk,     \* p.pk: the token that was read ahead, if any
    want,   \* what the parser waits for the scanner for: "read", "peek" or "no"
    stack,  \* the calls in progress, the innermost last
    ret,    \* what the call that has just ended returned to the last frame
    res     \* what Parse has returned

parserVars == <<tok, pk, want, stack, ret, res>>
vars == <<text, at, sc, errs, toks, tok, pk, want, stack, ret, res>>

NoToken == [id |-> "none", lit |-> <<>>, pos |-> [ix |-> 0, line |-> 0, col |-> 0]]

\* A value that has not been returned.
None == Tree("none", <<>>, <<>>)

Pending == [st |-> "pending", val |-> Nil]

\* A call of fn: pc is where it is, kids and name are what it has so far.
Frame(fn) == [fn |-> fn, pc |-> "start", kids |-> <<>>, name |-> <<>>]

Init ==
    /\ ScanInit
    /\ tok = NoToken /\ pk = NoToken /\ want = "no"
    /\ stack = <<Frame("grammar")>> /\ ret = None /\ res = Pending

-----------------------------------------------------------------------------
(* read and peek *)

\* The innermost call, at pc.
Top == stack[Len(stack)]
Below == SubSeq(stack, 1, Len(stack) - 1)
In(fn, pc) == res.st = "pending" /\ want = "no" /\ Top.fn = fn /\ Top.pc = pc

Then(f, pc) == [f EXCEPT !.pc = pc]

\* Mutant: a token that was read ahead is forgotten.
ReadTokenForgets(f) ==
    /\ stack' = Append(Below, f)
    /\ want' = "read" /\ pk' = NoToken
    /\ UNCHANGED <<tok, ret, res>>

\* p.read(): f is what the innermost call goes on with.
ReadToken(f) ==
    /\ stack' = Append(Below, f)
    /\ IF pk.pos.line # 0 THEN tok' = pk /\ pk' = NoToken /\ UNCHANGED want
       ELSE want' = "read" /\ UNCHANGED <<tok, pk>>
    /\ UNCHANGED <<ret, res>>

\* p.peek()
PeekToken(f) ==
    /\ stack' = Append(Below, f)
    /\ want' = IF pk.pos.line = 0 THEN "peek" ELSE "no"
    /\ UNCHANGED <<tok, pk, ret, res>>

\* The scanner works while the parser waits, and hands over the token.
CallScan ==
    /\ want # "no" /\ Scan
    /\ UNCHANGED parserVars

Scanning ==
    /\ want # "no" /\ ScanStep
    /\ UNCHANGED parserVars

Deliver ==
    /\ want # "no" /\ Take
    /\ IF want = "read" THEN tok' = toks[Len(toks)] /\ UNCHANGED pk
       ELSE pk' = toks[Len(toks)] /\ UNCHANGED tok
    /\ want' = "no"
    /\ UNCHANGED <<stack, ret, res>>

\* The innermost call goes on with f and calls fn, ...
Call(f, fn) ==
    /\ stack' = Append(Append(Below, f), Frame(fn))
    /\ ret' = None
    /\ UNCHANGED <<tok, pk, want, res>>

\* ... returns val to its caller, ...
Return(val) ==
    /\ stack' = Below /\ ret' = val
    /\ UNCHANGED <<tok, pk, want, res>>

\* ... or goes on without a call.
GoOn(f) ==
    /\ stack' = Append(Below, f)
    /\ UNCHANGED <<tok, pk, want, ret, res>>

NoError == UNCHANGED scanVars

\* p.errs.add at the position of the token, for each of the errors.
AddErrors(whats) ==
    /\ errs' = errs \o [k \in DOMAIN whats |-> [what |-> whats[k], pos |-> tok.pos]]
    /\ UNCHANGED <<text, at, sc, toks>>

Fail(whats) == AddErrors(whats) /\ Return(Nil)

-----------------------------------------------------------------------------
(* grammar and rule *)

Separators == {NL, ";"}

\* Mutant: a separator is looked at again and again, not read.
ParseGrammarStays ==
    \/ In("grammar", "start") /\ ReadToken(Then(Top, "init")) /\ NoError
    \/ /\ In("grammar", "init") /\ NoError
       /\ GoOn(Then(Top, "rules"))
    \/ /\ In("grammar", "rules") /\ NoError
       /\ CASE tok.id \in Separators -> GoOn(Then(Top, "init"))
            [] tok.id = "eof" -> res' = [Pending EXCEPT !.st = "ok"] /\ UNCHANGED <<tok, pk, want, stack, ret>>
            [] OTHER -> Call(Then(Top, "rule"), "rule")
    \/ In("grammar", "rule") /\ ReadToken(Then(Top, "rules")) /\ NoError

ParseGrammar ==
    \/ In("grammar", "start") /\ ReadToken(Then(Top, "init")) /\ NoError
    \/ /\ In("grammar", "init") /\ NoError
       /\ CASE tok.id \in Separators -> ReadToken(Top)
            [] tok.id = "code" ->
                  ReadToken([Then(Top, "rules") EXCEPT !.kids = <<Tree("code", tok.lit, <<>>)>>])
            [] OTHER -> GoOn([Then(Top, "rules") EXCEPT !.kids = <<Nil>>])
    \/ /\ In("grammar", "rules") /\ NoError
       /\ CASE tok.id \in Separators -> ReadToken(Top)
            [] tok.id = "eof" ->
                  /\ res' = [st |-> "ok", val |-> Tree("grammar", <<>>, Top.kids)]
                  /\ UNCHANGED <<tok, pk, want, stack, ret>>
            [] OTHER -> Call(Then(Top, "rule"), "rule")
    \/ /\ In("grammar", "rule") /\ NoError
       /\ ReadToken([Then(Top, "rules") EXCEPT !.kids = IF ret = Nil THEN @ ELSE Append(@, ret)])

Literals == {"str", "rstr", "char"}

ParseRule ==
    \/ /\ In("rule", "start")
       /\ IF tok.id # "ident" THEN Fail(<<"expected ident">>)
          ELSE ReadToken([Then(Top, "display") EXCEPT !.name = tok.lit]) /\ NoError
    \/ /\ In("rule", "display")
       /\ CASE tok.id \notin Literals -> GoOn([Then(Top, "def") EXCEPT !.kids = <<Nil>>]) /\ NoError
            [] tok.id \in Literals /\ Last(tok.lit) = "i" -> Fail(<<"invalid suffix 'i'">>)
            [] tok.id \in Literals /\ Last(tok.lit) # "i" /\ ~Unquote(tok.lit).ok ->
                  Fail(<<"invalid syntax">>)
            [] OTHER ->
                  /\ ReadToken([Then(Top, "def") EXCEPT
                                    !.kids = <<Tree("stringLit", Unquote(tok.lit).val, <<>>)>>])
                  /\ NoError
    \/ /\ In("rule", "def")
       /\ IF tok.id # "ruledef" THEN Fail(<<"expected ruledef">>)
          ELSE ReadToken(Then(Top, "body")) /\ NoError
    \/ /\ In("rule", "body") /\ NoError
       /\ IF tok.id = NL THEN ReadToken(Top) ELSE Call(Then(Top, "end"), "expression")
    \/ /\ In("rule", "end")
       /\ CASE ret = Nil -> Fail(<<"missing expression">>)
            [] ret # Nil /\ tok.id \notin Separators \cup {"eof"} ->
                  Fail(<<"expected any of", "rule not terminated">>)
            [] OTHER -> Return(Tree("rule", Top.name, Append(Top.kids, ret))) /\ NoError

-----------------------------------------------------------------------------
(* expression, actionExpr, seqExpr and labeledExpr *)

\* What expression and seqExpr make of what they have read.
Grouped(tag, kids) == IF Len(kids) = 1 THEN kids[1] ELSE Tree(tag, <<>>, kids)

ParseExpression ==
    \/ In("expression", "start") /\ Call(Then(Top, "alternative"), "actionExpr") /\ NoError
    \/ /\ In("expression", "alternative")
       /\ LET alts == IF ret = Nil THEN Top.kids ELSE Append(Top.kids, ret)
          IN  CASE tok.id = "/" -> ReadToken([Then(Top, "start") EXCEPT !.kids = alts]) /\ NoError
                [] tok.id # "/" /\ alts = <<>> -> Fail(<<"no expression in choice">>)
                [] OTHER -> Return(Grouped("choice", alts)) /\ NoError

ParseActionExpr ==
    \/ In("actionExpr", "start") /\ Call(Then(Top, "code"), "seqExpr") /\ NoError
    \/ /\ In("actionExpr", "code") /\ NoError
       /\ IF ret = Nil \/ tok.id # "code" THEN Return(ret)
          ELSE ReadToken([Then(Top, "end") EXCEPT !.kids = <<ret, Tree("code", tok.lit, <<>>)>>])
    \/ In("actionExpr", "end") /\ Return(Tree("action", <<>>, Top.kids)) /\ NoError

ParseSeqExpr ==
    \/ In("seqExpr", "start") /\ Call(Then(Top, "next"), "labeledExpr") /\ NoError
    \/ /\ In("seqExpr", "next")
       /\ CASE ret # Nil -> Call([Top EXCEPT !.kids = Append(@, ret)], "labeledExpr") /\ NoError
            [] ret = Nil /\ Top.kids = <<>> -> Fail(<<"no expression in sequence">>)
            [] OTHER -> Return(Grouped("seq", Top.kids)) /\ NoError

\* The colon that peek has seen is the token that the first read takes.
ParseLabeledExpr ==
    \/ /\ In("labeledExpr", "start") /\ NoError
       /\ IF tok.id = "ident" THEN PeekToken(Then(Top, "peeked"))
          ELSE Call(Then(Top, "end"), "prefixedExpr")
    \/ /\ In("labeledExpr", "peeked") /\ NoError
       /\ IF pk.id = ":" THEN ReadToken([Then(Top, "colon") EXCEPT !.name = tok.lit])
          ELSE Call(Then(Top, "end"), "prefixedExpr")
    \/ In("labeledExpr", "colon") /\ ReadToken(Then(Top, "label")) /\ NoError
    \/ In("labeledExpr", "label") /\ Call(Then(Top, "end"), "prefixedExpr") /\ NoError
    \/ /\ In("labeledExpr", "end")
       /\ CASE Top.name = <<>> -> Return(ret) /\ NoError
            [] Top.name # <<>> /\ ret = Nil -> Fail(<<"label without expression">>)
            [] OTHER -> Return(Tree("labeled", Top.name, <<ret>>)) /\ NoError

-----------------------------------------------------------------------------
(* prefixedExpr, suffixedExpr and primaryExpr *)

PrefixTag == [op \in {"&", "!"} |-> IF op = "&" THEN "and" ELSE "not"]

ParsePrefixedExpr ==
    \/ /\ In("prefixedExpr", "start") /\ NoError
       /\ IF tok.id \in DOMAIN PrefixTag
          THEN ReadToken([Then(Top, "operand") EXCEPT !.name = <<PrefixTag[tok.id]>>])
          ELSE GoOn(Then(Top, "operand"))
    \/ In("prefixedExpr", "operand") /\ Call(Then(Top, "end"), "suffixedExpr") /\ NoError
    \/ /\ In("prefixedExpr", "end")
       /\ CASE Top.name = <<>> -> Return(ret) /\ NoError
            [] Top.name # <<>> /\ ret = Nil -> Fail(<<"prefix operator without expression">>)
            [] OTHER -> Return(Tree(Top.name[1], <<>>, <<ret>>)) /\ NoError

SuffixTag == [op \in {"?", "*", "+"} |->
    CASE op = "?" -> "zeroOrOne" [] op = "*" -> "zeroOrMore" [] op = "+" -> "oneOrMore"]

ParseSuffixedExpr ==
    \/ In("suffixedExpr", "start") /\ Call(Then(Top, "operator"), "primaryExpr") /\ NoError
    \/ /\ In("suffixedExpr", "operator")
       /\ CASE tok.id \notin DOMAIN SuffixTag -> Return(ret) /\ NoError
            [] tok.id \in DOMAIN SuffixTag /\ ret = Nil ->
                  Fail(<<"suffix operator without expression">>)
            [] OTHER ->
                  /\ ReadToken([Then(Top, "end") EXCEPT
                                    !.kids = <<Tree(SuffixTag[tok.id], <<>>, <<ret>>)>>])
                  /\ NoError
    \/ In("suffixedExpr", "end") /\ Return(Top.kids[1]) /\ NoError

\* The literal matcher for the token: strconv.Unquote returns "" with an error.
LitOf(t) ==
    LET ignore == Last(t.lit) = "i"
        u == Unquote(IF ignore THEN Front(t.lit) ELSE t.lit)
    IN  [ok |-> u.ok,
         val |-> Tree(IF ignore THEN "lit i" ELSE "lit", IF u.ok THEN u.val ELSE <<>>, <<>>)]

\* NewCharClassMatcher takes the first and the last rune off the text, which
\* panics on a text of one rune, and need not return.
ClassTooShort(raw) == Len(raw) < IF Last(raw) = "i" THEN 3 ELSE 2

Stop(st) ==
    /\ res' = [st |-> st, val |-> Nil]
    /\ UNCHANGED <<tok, pk, want, stack, ret>>

\* primaryExpr has built val: it moves to the next token.
Primary(val) == ReadToken([Then(Top, "end") EXCEPT !.kids = <<val>>])

ParsePrimaryExpr ==
    \/ /\ In("primaryExpr", "start")
       /\ \/ /\ tok.id \in Literals
             /\ Primary(LitOf(tok).val)
             /\ IF LitOf(tok).ok THEN NoError ELSE AddErrors(<<"invalid syntax">>)
          \/ /\ tok.id = "class" /\ NoError
             /\ CASE ClassTooShort(tok.lit) -> Stop("panic")
                  [] ~ClassTooShort(tok.lit) /\ ~ParseClass(tok.lit).ends -> Stop("hang")
                  [] OTHER -> Primary(Tree("class", tok.lit, <<>>))
          \/ tok.id = "." /\ Primary(Tree("any", tok.lit, <<>>)) /\ NoError
          \/ tok.id = "ident" /\ Primary(Tree("ruleRef", tok.lit, <<>>)) /\ NoError
          \/ tok.id = "(" /\ ReadToken(Then(Top, "parenthesis")) /\ NoError
          \/ /\ tok.id \notin Literals \cup {"class", ".", "ident", "("}
             /\ Return(Nil) /\ NoError
    \/ In("primaryExpr", "parenthesis") /\ Call(Then(Top, "closing"), "expression") /\ NoError
    \/ /\ In("primaryExpr", "closing")
       /\ CASE ret = Nil -> Fail(<<"missing expression inside parenthesis">>)
            [] ret # Nil /\ tok.id # ")" -> Fail(<<"expected rparen">>)
            [] OTHER -> Primary(ret) /\ NoError
    \/ In("primaryExpr", "end") /\ Return(Top.kids[1]) /\ NoError

-----------------------------------------------------------------------------

Terminating == res.st # "pending" /\ UNCHANGED vars

Next ==
    \/ CallScan \/ Scanning \/ Deliver
    \/ ParseGrammar \/ ParseRule \/ ParseExpression \/ ParseActionExpr \/ ParseSeqExpr
    \/ ParseLabeledExpr \/ ParsePrefixedExpr \/ ParseSuffixedExpr \/ ParsePrimaryExpr
    \/ Terminating

Spec == Init /\ [][Next]_vars

\* Parse is a sequential program that nothing can block: as long as it has not
\* returned it takes steps (WF_vars(Next), as a step is possible until then).
FairSpec == Spec /\ ([]<>(res.st # "pending") \/ []<><<Next>>_vars)
=============================================================================
