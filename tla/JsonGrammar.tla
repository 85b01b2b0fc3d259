---------------------------- MODULE JsonGrammar -----------------------------
(* examples/json: the grammar table of the generated parser and its code blocks. *)
EXTENDS PegGrammars

JsonValues ==
    <<Rule("JSON", Action(SeqExpr(<<
          R("_"), Labeled("vals", OneOrMore(R("Value"))), R("EOF")>>),
          "onJSON1")),
      Rule("Value", Action(SeqExpr(<<
          Labeled("val", Choice(<<
              R("Object"), R("Array"), R("Number"), R("String"), R("Bool"), R("Null")>>)),
          R("_")>>),
          "onValue1"))>>

JsonObject ==
    <<Rule("Object", Action(SeqExpr(<<
          T("{"), R("_"),
          Labeled("vals", ZeroOrOne(SeqExpr(<<
              R("String"), R("_"), T(":"), R("_"), R("Value"),
              ZeroOrMore(SeqExpr(<<
                  T(","), R("_"), R("String"), R("_"), T(":"), R("_"), R("Value")>>))>>))),
          T("}")>>),
          "onObject1"))>>

JsonArray ==
    <<Rule("Array", Action(SeqExpr(<<
          T("["), R("_"),
          Labeled("vals", ZeroOrOne(SeqExpr(<<
              R("Value"), ZeroOrMore(SeqExpr(<<T(","), R("_"), R("Value")>>))>>))),
          T("]")>>),
          "onArray1"))>>

JsonNumber ==
    <<Rule("Number", Action(SeqExpr(<<
          ZeroOrOne(T("-")), R("Integer"),
          ZeroOrOne(SeqExpr(<<T("."), OneOrMore(R("DecimalDigit"))>>)),
          ZeroOrOne(R("Exponent"))>>),
          "onNumber1")),
      Rule("Integer", Choice(<<
          T("0"), SeqExpr(<<R("NonZeroDecimalDigit"), ZeroOrMore(R("DecimalDigit"))>>)>>)),
      Rule("Exponent", SeqExpr(<<
          LitMatcher(<<"e">>, TRUE), ZeroOrOne(Class({"+", "-"})), OneOrMore(R("DecimalDigit"))>>))>>

JsonString ==
    <<Rule("String", Action(SeqExpr(<<
          T(Quote),
          ZeroOrMore(Choice(<<
              SeqExpr(<<Not(R("EscapedChar")), AnyRune>>),
              SeqExpr(<<T(Backslash), R("EscapeSequence")>>)>>)),
          T(Quote)>>),
          "onString1")),
      Rule("EscapedChar", Class(Controls \cup {Quote, Backslash})),
      Rule("EscapeSequence", Choice(<<R("SingleCharEscape"), R("UnicodeEscape")>>)),
      Rule("SingleCharEscape", Class({Quote, Backslash, "/", "b", "f", "n", "r", "t"})),
      Rule("UnicodeEscape", SeqExpr(<<
          T("u"), R("HexDigit"), R("HexDigit"), R("HexDigit"), R("HexDigit")>>))>>

JsonDigits ==
    <<Rule("DecimalDigit", Class(Digits)),
      Rule("NonZeroDecimalDigit", Class(Digits \ {"0"})),
      Rule("HexDigit", CharClass(HexDigits, TRUE, FALSE))>>

JsonWords ==
    <<Rule("Bool", Choice(<<
          Action(Lit(Chars("true")), "onBool2"),
          Action(Lit(Chars("false")), "onBool4")>>)),
      Rule("Null", Action(Lit(Chars("null")), "onNull1")),
      Rule("_", ZeroOrMore(Class(Spaces))),
      Rule("EOF", Not(AnyRune))>>

Json ==
    JsonValues \o JsonObject \o JsonArray \o JsonNumber \o JsonString \o JsonDigits
    \o JsonWords

\* An object is the sequence of its members, [key, value], the last value of
\* a key in the place of the first.
Member(key, val) == Tree("member", key.text, <<val>>)

SetMember(obj, m) ==
    IF \E k \in DOMAIN obj : obj[k].text = m.text
    THEN [k \in DOMAIN obj |-> IF obj[k].text = m.text THEN m ELSE obj[k]]
    ELSE Append(obj, m)

JsonMembers(vals) ==
    IF vals = <<>> THEN <<>>
    ELSE FoldLeft(SetMember, <<Member(vals[1], vals[5])>>,
            [k \in DOMAIN vals[6].kids |->
                Member(vals[6].kids[k].kids[3], vals[6].kids[k].kids[7])])

JsonElements(vals) ==
    IF vals = <<>> THEN <<>>
    ELSE <<vals[1]>> \o [k \in DOMAIN vals[2].kids |-> vals[2].kids[k].kids[3]]

\* A number is represented by its text, and the digits of its exponent stand
\* for any others: ParseFloat returns an infinity, and an error, when they are
\* out of the range of a float64.
JsonCode(code, scope, text) ==
    LET vals == Arg(scope, "vals").kids
    IN  CASE code = "onJSON1" ->
                {Returns(TRUE, CASE vals = <<>> -> Nil
                                 [] Len(vals) = 1 -> vals[1]
                                 [] OTHER -> List(vals))}
          [] code = "onValue1" -> {Returns(TRUE, Arg(scope, "val"))}
          [] code = "onObject1" -> {Returns(TRUE, Tree("map", <<>>, JsonMembers(vals)))}
          [] code = "onArray1" -> {Returns(TRUE, List(JsonElements(vals)))}
          [] code = "onNumber1" ->
                {Returns(TRUE, Tree("float64", text, <<>>))}
                \cup IF Contains(text, "e") \/ Contains(text, "E")
                     THEN {Errs(Tree("float64", text, <<>>))} ELSE {}
          [] code = "onString1" ->
                LET u == Unquote(text)
                IN  {IF u.ok THEN Returns(TRUE, Str(u.val)) ELSE Errs(Str(<<>>))}
          [] code = "onBool2" -> {Returns(TRUE, Tree("bool", <<"true">>, <<>>))}
          [] code = "onBool4" -> {Returns(TRUE, Tree("bool", <<"false">>, <<>>))}
          [] code = "onNull1" -> {Returns(TRUE, Nil)}

JsonCodes == {"onJSON1", "onValue1", "onObject1", "onArray1", "onNumber1", "onString1",
              "onBool2", "onBool4", "onNull1"}
=============================================================================
