--------------------------- MODULE PigeonGrammar ----------------------------
(***************************************************************************)
(* pigeon.go, the parser of grammars that pigeon generates from its own    *)
(* grammar: its table, and what its code blocks do.  The value of a parse  *)
(* is the syntax tree of package ast, without the positions of its nodes.  *)
(* The Unicode classes L and Nd are Letters and Digits.                    *)
(***************************************************************************)
EXTENDS PegGrammars

PigeonStart ==
    <<Rule("Grammar", Action(SeqExpr(<<
          R("__"), Labeled("initializer", ZeroOrOne(SeqExpr(<<R("Initializer"), R("__")>>))),
          Labeled("rules", OneOrMore(SeqExpr(<<R("Rule"), R("__")>>))), R("EOF")>>),
          "onGrammar1")),
      Rule("Initializer", Action(SeqExpr(<<Labeled("code", R("CodeBlock")), R("EOS")>>),
          "onInitializer1"))>>

PigeonRule ==
    <<Rule("Rule", Action(SeqExpr(<<
          Labeled("name", R("IdentifierName")), R("__"),
          Labeled("display", ZeroOrOne(SeqExpr(<<R("StringLiteral"), R("__")>>))),
          R("RuleDefOp"), R("__"), Labeled("expr", R("Expression")), R("EOS")>>),
          "onRule1")),
      Rule("Expression", R("ChoiceExpr"))>>

PigeonChoice ==
    <<Rule("ChoiceExpr", Action(SeqExpr(<<
          Labeled("first", R("ActionExpr")),
          Labeled("rest", ZeroOrMore(SeqExpr(<<R("__"), T("/"), R("__"), R("ActionExpr")>>)))>>),
          "onChoiceExpr1")),
      Rule("ActionExpr", Action(SeqExpr(<<
          Labeled("expr", R("SeqExpr")),
          Labeled("code", ZeroOrOne(SeqExpr(<<R("__"), R("CodeBlock")>>)))>>),
          "onActionExpr1")),
      Rule("SeqExpr", Action(SeqExpr(<<
          Labeled("first", R("LabeledExpr")),
          Labeled("rest", ZeroOrMore(SeqExpr(<<R("__"), R("LabeledExpr")>>)))>>),
          "onSeqExpr1"))>>

PigeonPrefixed ==
    <<Rule("LabeledExpr", Choice(<<
          Action(SeqExpr(<<
              Labeled("label", R("Identifier")), R("__"), T(":"), R("__"),
              Labeled("expr", R("PrefixedExpr"))>>),
              "onLabeledExpr2"),
          R("PrefixedExpr")>>)),
      Rule("PrefixedExpr", Choice(<<
          Action(SeqExpr(<<
              Labeled("op", R("PrefixedOp")), R("__"), Labeled("expr", R("SuffixedExpr"))>>),
              "onPrefixedExpr2"),
          R("SuffixedExpr")>>)),
      Rule("PrefixedOp", Action(Choice(<<T("&"), T("!")>>), "onPrefixedOp1"))>>

PigeonSuffixed ==
    <<Rule("SuffixedExpr", Choice(<<
          Action(SeqExpr(<<
              Labeled("expr", R("PrimaryExpr")), R("__"), Labeled("op", R("SuffixedOp"))>>),
              "onSuffixedExpr2"),
          R("PrimaryExpr")>>)),
      Rule("SuffixedOp", Action(Choice(<<T("?"), T("*"), T("+")>>), "onSuffixedOp1")),
      Rule("PrimaryExpr", Choice(<<
          R("LitMatcher"), R("CharClassMatcher"), R("AnyMatcher"), R("RuleRefExpr"),
          R("SemanticPredExpr"),
          Action(SeqExpr(<<
              T("("), R("__"), Labeled("expr", R("Expression")), R("__"), T(")")>>),
              "onPrimaryExpr7")>>))>>

\* Mutant of PigeonRuleRef: the name of the next rule is taken for a reference.
PigeonRuleRefGreedy ==
    <<Rule("RuleRefExpr", Action(SeqExpr(<<Labeled("name", R("IdentifierName"))>>),
          "onRuleRefExpr1"))>>

PigeonRuleRef ==
    <<Rule("RuleRefExpr", Action(SeqExpr(<<
          Labeled("name", R("IdentifierName")),
          Not(SeqExpr(<<
              R("__"), ZeroOrOne(SeqExpr(<<R("StringLiteral"), R("__")>>)), R("RuleDefOp")>>))>>),
          "onRuleRefExpr1"))>>

PigeonPreds ==
    <<Rule("SemanticPredExpr", Action(SeqExpr(<<
          Labeled("op", R("SemanticPredOp")), R("__"), Labeled("code", R("CodeBlock"))>>),
          "onSemanticPredExpr1")),
      Rule("SemanticPredOp", Action(Choice(<<T("&"), T("!")>>), "onSemanticPredOp1")),
      Rule("RuleDefOp", Choice(<<T("="), Lit(Chars("<-")), T("larrow"), T("longlarrow")>>))>>

PigeonRefs == PigeonRuleRef \o PigeonPreds

PigeonComments ==
    <<Rule("SourceChar", AnyRune),
      Rule("Comment", Choice(<<R("MultiLineComment"), R("SingleLineComment")>>)),
      Rule("MultiLineComment", SeqExpr(<<
          Lit(Chars("/*")), ZeroOrMore(SeqExpr(<<Not(Lit(Chars("*/"))), R("SourceChar")>>)),
          Lit(Chars("*/"))>>)),
      Rule("MultiLineCommentNoLineTerminator", SeqExpr(<<
          Lit(Chars("/*")),
          ZeroOrMore(SeqExpr(<<
              Not(Choice(<<Lit(Chars("*/")), R("EOL")>>)), R("SourceChar")>>)),
          Lit(Chars("*/"))>>)),
      Rule("SingleLineComment", SeqExpr(<<
          Lit(Chars("//")), ZeroOrMore(SeqExpr(<<Not(R("EOL")), R("SourceChar")>>))>>))>>

PigeonIdentifiers ==
    <<Rule("Identifier", Action(Labeled("ident", R("IdentifierName")), "onIdentifier1")),
      Rule("IdentifierName", Action(SeqExpr(<<
          R("IdentifierStart"), ZeroOrMore(R("IdentifierPart"))>>),
          "onIdentifierName1")),
      Rule("IdentifierStart", Class(Letters \cup {"_"})),
      Rule("IdentifierPart", Choice(<<R("IdentifierStart"), Class(Digits)>>)),
      Rule("LitMatcher", Action(SeqExpr(<<
          Labeled("lit", R("StringLiteral")), Labeled("ignore", ZeroOrOne(T("i")))>>),
          "onLitMatcher1"))>>

PigeonStringLiteral ==
    <<Rule("StringLiteral", Choice(<<
          Action(Choice(<<
              SeqExpr(<<T(Quote), ZeroOrMore(R("DoubleStringChar")), T(Quote)>>),
              SeqExpr(<<T(Tick), R("SingleStringChar"), T(Tick)>>),
              SeqExpr(<<T(Backquote), ZeroOrMore(R("RawStringChar")), T(Backquote)>>)>>),
              "onStringLiteral2"),
          Action(Choice(<<
              SeqExpr(<<
                  T(Quote), ZeroOrMore(R("DoubleStringChar")), Choice(<<R("EOL"), R("EOF")>>)>>),
              SeqExpr(<<
                  T(Tick), ZeroOrOne(R("SingleStringChar")), Choice(<<R("EOL"), R("EOF")>>)>>),
              SeqExpr(<<T(Backquote), ZeroOrMore(R("RawStringChar")), R("EOF")>>)>>),
              "onStringLiteral18")>>))>>

PigeonStringChars ==
    <<Rule("DoubleStringChar", Choice(<<
          SeqExpr(<<Not(Choice(<<T(Quote), T(Backslash), R("EOL")>>)), R("SourceChar")>>),
          SeqExpr(<<T(Backslash), R("DoubleStringEscape")>>)>>)),
      Rule("SingleStringChar", Choice(<<
          SeqExpr(<<Not(Choice(<<T(Tick), T(Backslash), R("EOL")>>)), R("SourceChar")>>),
          SeqExpr(<<T(Backslash), R("SingleStringEscape")>>)>>)),
      Rule("RawStringChar", SeqExpr(<<Not(T(Backquote)), R("SourceChar")>>))>>

PigeonStringEscapes ==
    <<Rule("DoubleStringEscape", Choice(<<
          Choice(<<T(Quote), R("CommonEscapeSequence")>>),
          Action(Choice(<<R("SourceChar"), R("EOL"), R("EOF")>>), "onDoubleStringEscape5")>>)),
      Rule("SingleStringEscape", Choice(<<
          Choice(<<T(Tick), R("CommonEscapeSequence")>>),
          Action(Choice(<<R("SourceChar"), R("EOL"), R("EOF")>>), "onSingleStringEscape5")>>)),
      Rule("CommonEscapeSequence", Choice(<<
          R("SingleCharEscape"), R("OctalEscape"), R("HexEscape"), R("LongUnicodeEscape"),
          R("ShortUnicodeEscape")>>))>>

PigeonOctalEscapes ==
    <<Rule("SingleCharEscape", Choice(<<
          T("a"), T("b"), T("n"), T("f"), T("r"), T("t"), T("v"), T(Backslash)>>)),
      Rule("OctalEscape", Choice(<<
          SeqExpr(<<R("OctalDigit"), R("OctalDigit"), R("OctalDigit")>>),
          Action(SeqExpr(<<
              R("OctalDigit"), Choice(<<R("SourceChar"), R("EOL"), R("EOF")>>)>>),
              "onOctalEscape6")>>))>>

PigeonHexEscapes ==
    <<Rule("HexEscape", Choice(<<
          SeqExpr(<<T("x"), R("HexDigit"), R("HexDigit")>>),
          Action(SeqExpr(<<T("x"), Choice(<<R("SourceChar"), R("EOL"), R("EOF")>>)>>),
              "onHexEscape6")>>)),
      Rule("LongUnicodeEscape", Choice(<<
          SeqExpr(<<
              T("U"), R("HexDigit"), R("HexDigit"), R("HexDigit"), R("HexDigit"),
              R("HexDigit"), R("HexDigit"), R("HexDigit"), R("HexDigit")>>),
          Action(SeqExpr(<<T("U"), Choice(<<R("SourceChar"), R("EOL"), R("EOF")>>)>>),
              "onLongUnicodeEscape12")>>))>>

PigeonDigits ==
    <<Rule("ShortUnicodeEscape", Choice(<<
          SeqExpr(<<T("u"), R("HexDigit"), R("HexDigit"), R("HexDigit"), R("HexDigit")>>),
          Action(SeqExpr(<<T("u"), Choice(<<R("SourceChar"), R("EOL"), R("EOF")>>)>>),
              "onShortUnicodeEscape8")>>)),
      Rule("OctalDigit", Class(OctalDigits)),
      Rule("DecimalDigit", Class(Digits)),
      Rule("HexDigit", CharClass(HexDigits, TRUE, FALSE))>>

PigeonClasses ==
    <<Rule("CharClassMatcher", Choice(<<
          Action(SeqExpr(<<
              T("["),
              ZeroOrMore(Choice(<<
                  R("ClassCharRange"), R("ClassChar"),
                  SeqExpr(<<T(Backslash), R("UnicodeClassEscape")>>)>>)),
              T("]"), ZeroOrOne(T("i"))>>),
              "onCharClassMatcher2"),
          Action(SeqExpr(<<
              T("["), ZeroOrMore(SeqExpr(<<Not(R("EOL")), R("SourceChar")>>)),
              Choice(<<R("EOL"), R("EOF")>>)>>),
              "onCharClassMatcher15")>>)),
      Rule("ClassCharRange", SeqExpr(<<R("ClassChar"), T("-"), R("ClassChar")>>))>>

PigeonClassChars ==
    <<Rule("ClassChar", Choice(<<
          SeqExpr(<<Not(Choice(<<T("]"), T(Backslash), R("EOL")>>)), R("SourceChar")>>),
          SeqExpr(<<T(Backslash), R("CharClassEscape")>>)>>)),
      Rule("CharClassEscape", Choice(<<
          Choice(<<T("]"), R("CommonEscapeSequence")>>),
          Action(SeqExpr(<<Not(T("p")), Choice(<<R("SourceChar"), R("EOL"), R("EOF")>>)>>),
              "onCharClassEscape5")>>))>>

PigeonUnicodeClasses ==
    <<Rule("UnicodeClassEscape", SeqExpr(<<
          T("p"),
          Choice(<<
              R("SingleCharUnicodeClass"),
              Action(SeqExpr(<<
                  Not(T("{")), Choice(<<R("SourceChar"), R("EOL"), R("EOF")>>)>>),
                  "onUnicodeClassEscape5"),
              Action(SeqExpr(<<T("{"), Labeled("ident", R("IdentifierName")), T("}")>>),
                  "onUnicodeClassEscape13"),
              Action(SeqExpr(<<
                  T("{"), R("IdentifierName"), Choice(<<T("]"), R("EOL"), R("EOF")>>)>>),
                  "onUnicodeClassEscape19")>>)>>)),
      Rule("SingleCharUnicodeClass", Class({"L", "M", "N", "C", "P", "Z", "S"})),
      Rule("AnyMatcher", Action(T("."), "onAnyMatcher1"))>>

PigeonCodeBlocks ==
    <<Rule("CodeBlock", Choice(<<
          Action(SeqExpr(<<T("{"), R("Code"), T("}")>>), "onCodeBlock2"),
          Action(SeqExpr(<<T("{"), R("Code"), R("EOF")>>), "onCodeBlock7")>>)),
      Rule("Code", ZeroOrMore(Choice(<<
          OneOrMore(SeqExpr(<<Not(Class({"{", "}"})), R("SourceChar")>>)),
          SeqExpr(<<T("{"), R("Code"), T("}")>>)>>))),
      Rule("__", ZeroOrMore(Choice(<<R("Whitespace"), R("EOL"), R("Comment")>>)))>>

PigeonEnds ==
    <<Rule("_", ZeroOrMore(Choice(<<R("Whitespace"), R("MultiLineCommentNoLineTerminator")>>))),
      Rule("Whitespace", Class(Spaces \ {NL})),
      Rule("EOL", T(NL)),
      Rule("EOS", Choice(<<
          SeqExpr(<<R("__"), T(";")>>),
          SeqExpr(<<R("_"), ZeroOrOne(R("SingleLineComment")), R("EOL")>>),
          SeqExpr(<<R("__"), R("EOF")>>)>>)),
      Rule("EOF", Not(AnyRune))>>

Pigeon ==
    PigeonStart \o PigeonRule \o PigeonChoice \o PigeonPrefixed \o PigeonSuffixed
    \o PigeonRefs \o PigeonComments \o PigeonIdentifiers \o PigeonStringLiteral
    \o PigeonStringChars \o PigeonStringEscapes \o PigeonOctalEscapes \o PigeonHexEscapes
    \o PigeonDigits \o PigeonClasses \o PigeonClassChars \o PigeonUnicodeClasses
    \o PigeonCodeBlocks \o PigeonEnds

-----------------------------------------------------------------------------
(* The code blocks *)

\* unicode_classes.go
UnicodeClasses == {Chars(w) : w \in {
    "ASCII_Hex_Digit", "Arabic", "Armenian", "Avestan", "Balinese", "Bamum", "Bassa_Vah",
    "Batak", "Bengali", "Bidi_Control", "Bopomofo", "Brahmi", "Braille", "Buginese", "Buhid",
    "C", "Canadian_Aboriginal", "Carian", "Caucasian_Albanian", "Cc", "Cf", "Chakma", "Cham",
    "Cherokee", "Co", "Common", "Coptic", "Cs", "Cuneiform", "Cypriot", "Cyrillic", "Dash",
    "Deprecated", "Deseret", "Devanagari", "Diacritic", "Duployan", "Egyptian_Hieroglyphs",
    "Elbasan", "Ethiopic", "Extender", "Georgian", "Glagolitic", "Gothic", "Grantha", "Greek",
    "Gujarati", "Gurmukhi", "Han", "Hangul", "Hanunoo", "Hebrew", "Hex_Digit", "Hiragana",
    "Hyphen", "IDS_Binary_Operator", "IDS_Trinary_Operator", "Ideographic",
    "Imperial_Aramaic", "Inherited", "Inscriptional_Pahlavi", "Inscriptional_Parthian",
    "Javanese", "Join_Control", "Kaithi", "Kannada", "Katakana", "Kayah_Li", "Kharoshthi",
    "Khmer", "Khojki", "Khudawadi", "L", "Lao", "Latin", "Lepcha", "Limbu", "Linear_A",
    "Linear_B", "Lisu", "Ll", "Lm", "Lo", "Logical_Order_Exception", "Lt", "Lu", "Lycian",
    "Lydian", "M", "Mahajani", "Malayalam", "Mandaic", "Manichaean", "Mc", "Me",
    "Meetei_Mayek", "Mende_Kikakui", "Meroitic_Cursive", "Meroitic_Hieroglyphs", "Miao", "Mn",
    "Modi", "Mongolian", "Mro", "Myanmar", "N", "Nabataean", "Nd", "New_Tai_Lue", "Nko", "Nl",
    "No", "Noncharacter_Code_Point", "Ogham", "Ol_Chiki", "Old_Italic", "Old_North_Arabian",
    "Old_Permic", "Old_Persian", "Old_South_Arabian", "Old_Turkic", "Oriya", "Osmanya",
    "Other_Alphabetic", "Other_Default_Ignorable_Code_Point", "Other_Grapheme_Extend",
    "Other_ID_Continue", "Other_ID_Start", "Other_Lowercase", "Other_Math", "Other_Uppercase",
    "P", "Pahawh_Hmong", "Palmyrene", "Pattern_Syntax", "Pattern_White_Space", "Pau_Cin_Hau",
    "Pc", "Pd", "Pe", "Pf", "Phags_Pa", "Phoenician", "Pi", "Po", "Ps", "Psalter_Pahlavi",
    "Quotation_Mark", "Radical", "Rejang", "Runic", "S", "STerm", "Samaritan", "Saurashtra",
    "Sc", "Sharada", "Shavian", "Siddham", "Sinhala", "Sk", "Sm", "So", "Soft_Dotted",
    "Sora_Sompeng", "Sundanese", "Syloti_Nagri", "Syriac", "Tagalog", "Tagbanwa", "Tai_Le",
    "Tai_Tham", "Tai_Viet", "Takri", "Tamil", "Telugu", "Terminal_Punctuation", "Thaana",
    "Thai", "Tibetan", "Tifinagh", "Tirhuta", "Ugaritic", "Unified_Ideograph", "Vai",
    "Variation_Selector", "Warang_Citi", "White_Space", "Yi", "Z", "Zl", "Zp", "Zs"}}

\* The result of a code block that builds the node out of parts: the type
\* assertion x.(T) panics on a part that is nil.
Made(node, parts) == IF Nil \in parts THEN {Panics} ELSE {Returns(TRUE, node)}

\* The element n of each of the slices in rest.
Nth(rest, n) == [k \in DOMAIN rest.kids |-> rest.kids[k].kids[n]]

MakeGrammar(initializer, rules) ==
    LET code == IF initializer.kids = <<>> THEN Nil ELSE initializer.kids[1]
    IN  Made(Tree("grammar", <<>>, <<code>> \o Nth(rules, 1)),
             Range(Nth(rules, 1)) \cup IF initializer.kids = <<>> THEN {} ELSE {code})

MakeRule(name, display, expr) ==
    Made(Tree("rule", name.text,
              <<IF display.kids = <<>> THEN Nil ELSE display.kids[1], expr>>),
         {name, expr})

\* onChoiceExpr1 and onSeqExpr1: a single expression stays as it is.
MakeList(tag, first, rest) ==
    IF rest = <<>> THEN {Returns(TRUE, first)}
    ELSE Made(Tree(tag, <<>>, <<first>> \o rest), {first} \cup Range(rest))

MakeAction(expr, code) ==
    IF code = Nil THEN {Returns(TRUE, expr)}
    ELSE Made(Tree("action", <<>>, <<expr, code.kids[2]>>), {expr, code.kids[2]})

MakeLitMatcher(lit, ignore) ==
    {Returns(TRUE, Tree(IF ignore = Nil THEN "lit" ELSE "lit i", Unquote(lit.text).val, <<>>))}

\* The node that an operator makes of the expression.
OpTag ==
    LET Tag(op) == CASE op = "&" -> "and" [] op = "!" -> "not" [] op = "?" -> "zeroOrOne"
                     [] op = "*" -> "zeroOrMore" [] op = "+" -> "oneOrMore"
    IN  [op \in {"&", "!", "?", "*", "+"} |-> Tag(op)]

\* The code blocks that report an error and return nil.
InvalidEscapes ==
    {"onDoubleStringEscape5", "onSingleStringEscape5", "onOctalEscape6", "onHexEscape6",
     "onLongUnicodeEscape12", "onShortUnicodeEscape8", "onCharClassEscape5",
     "onUnicodeClassEscape5", "onUnicodeClassEscape19", "onCodeBlock7"}

\* The code blocks that turn the text of the match into a leaf.
LeafTag ==
    [onIdentifierName1 |-> "ident",
     onStringLiteral2 |-> "stringLit", onStringLiteral1 |-> "stringLit",
     onCharClassMatcher2 |-> "class", onCharClassMatcher1 |-> "class", onAnyMatcher1 |-> "any",
     onCodeBlock2 |-> "code", onCodeBlock1 |-> "code"]

PigeonCode(code, scope, text) ==
    LET Get(label) == Arg(scope, label)
        expr == Get("expr")
    IN  CASE code = "onGrammar1" -> MakeGrammar(Get("initializer"), Get("rules"))
          [] code = "onRule1" -> MakeRule(Get("name"), Get("display"), expr)
          [] code = "onInitializer1" -> {Returns(TRUE, Get("code"))}
          [] code = "onPrimaryExpr7" -> {Returns(TRUE, expr)}
          [] code = "onChoiceExpr1" -> MakeList("choice", Get("first"), Nth(Get("rest"), 4))
          [] code = "onSeqExpr1" -> MakeList("seq", Get("first"), Nth(Get("rest"), 2))
          [] code = "onActionExpr1" -> MakeAction(expr, Get("code"))
          [] code = "onLabeledExpr2" ->
                Made(Tree("labeled", Get("label").text, <<expr>>), {Get("label"), expr})
          [] code \in {"onPrefixedExpr2", "onSuffixedExpr2"} ->
                Made(Tree(OpTag[Get("op").text[1]], <<>>, <<expr>>), {expr})
          [] code \in {"onPrefixedOp1", "onSuffixedOp1", "onSemanticPredOp1"} ->
                {Returns(TRUE, Str(text))}
          [] code = "onRuleRefExpr1" ->
                Made(Tree("ruleRef", Get("name").text, <<>>), {Get("name")})
          [] code = "onSemanticPredExpr1" ->
                Made(Tree(IF Get("op").text = <<"&">> THEN "andCode" ELSE "notCode",
                          <<>>, <<Get("code")>>), {Get("code")})
          [] code = "onIdentifier1" ->
                {IF text \in ReservedWords THEN Errs(Tree("ident", text, <<>>))
                 ELSE Returns(TRUE, Tree("ident", text, <<>>))}
          [] code = "onLitMatcher1" -> MakeLitMatcher(Get("lit"), Get("ignore"))
          [] code \in DOMAIN LeafTag -> {Returns(TRUE, Tree(LeafTag[code], text, <<>>))}
          [] code = "onStringLiteral18" -> {Errs(Tree("stringLit", <<Backquote, Backquote>>, <<>>))}
          [] code = "onCharClassMatcher15" -> {Errs(Tree("class", <<"[", "]">>, <<>>))}
          [] code = "onUnicodeClassEscape13" ->
                {IF Get("ident").text \in UnicodeClasses THEN Returns(TRUE, Nil) ELSE Errs(Nil)}
          [] code \in InvalidEscapes -> {Errs(Nil)}
=============================================================================
