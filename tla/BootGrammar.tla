---------------------------- MODULE BootGrammar -----------------------------
(***************************************************************************)
(* bootstrap/cmd/bootstrap-pigeon/bootstrap_pigeon.go: the parser that     *)
(* bootstraps pigeon, generated from an earlier form of pigeon's grammar.  *)
(* Its rules are those of PigeonGrammar but for the ones written out here. *)
(***************************************************************************)
EXTENDS PigeonGrammar

BootStart ==
    <<Rule("Grammar", Action(SeqExpr(<<
          R("__"), Labeled("initializer", ZeroOrOne(SeqExpr(<<R("Initializer"), R("__")>>))),
          Labeled("rules", OneOrMore(SeqExpr(<<R("Rule"), R("__")>>)))>>),
          "onGrammar1")),
      Rule("Initializer", Action(SeqExpr(<<Labeled("code", R("CodeBlock")), R("EOS")>>),
          "onInitializer1"))>>

BootRule == PigeonRule

BootChoice == PigeonChoice

BootPrefixed == PigeonPrefixed

BootSuffixed == PigeonSuffixed

BootRefs == PigeonRefs

BootComments == PigeonComments

BootIdentifiers ==
    <<Rule("Identifier", R("IdentifierName")),
      Rule("IdentifierName", Action(SeqExpr(<<
          R("IdentifierStart"), ZeroOrMore(R("IdentifierPart"))>>),
          "onIdentifierName1")),
      Rule("IdentifierStart", CharClass(LowerLetters \cup {"_"}, TRUE, FALSE)),
      Rule("IdentifierPart", Choice(<<R("IdentifierStart"), Class(Digits)>>)),
      Rule("LitMatcher", Action(SeqExpr(<<
          Labeled("lit", R("StringLiteral")), Labeled("ignore", ZeroOrOne(T("i")))>>),
          "onLitMatcher1"))>>

BootStringLiteral ==
    <<Rule("StringLiteral", Action(Choice(<<
          SeqExpr(<<T(Quote), ZeroOrMore(R("DoubleStringChar")), T(Quote)>>),
          SeqExpr(<<T(Tick), R("SingleStringChar"), T(Tick)>>),
          SeqExpr(<<T(Backquote), R("RawStringChar"), T(Backquote)>>)>>),
          "onStringLiteral1"))>>

BootStringChars == PigeonStringChars

BootStringEscapes ==
    <<Rule("DoubleStringEscape", Choice(<<T(Tick), R("CommonEscapeSequence")>>)),
      Rule("SingleStringEscape", Choice(<<T(Quote), R("CommonEscapeSequence")>>)),
      Rule("CommonEscapeSequence", Choice(<<
          R("SingleCharEscape"), R("OctalEscape"), R("HexEscape"), R("LongUnicodeEscape"),
          R("ShortUnicodeEscape")>>))>>

BootOctalEscapes ==
    <<Rule("SingleCharEscape", Choice(<<
          T("a"), T("b"), T("n"), T("f"), T("r"), T("t"), T("v"), T(Backslash)>>)),
      Rule("OctalEscape", SeqExpr(<<R("OctalDigit"), R("OctalDigit"), R("OctalDigit")>>))>>

BootHexEscapes ==
    <<Rule("HexEscape", SeqExpr(<<T("x"), R("HexDigit"), R("HexDigit")>>)),
      Rule("LongUnicodeEscape", SeqExpr(<<
          T("U"), R("HexDigit"), R("HexDigit"), R("HexDigit"), R("HexDigit"), R("HexDigit"),
          R("HexDigit"), R("HexDigit"), R("HexDigit")>>))>>

BootDigits ==
    <<Rule("ShortUnicodeEscape", SeqExpr(<<
          T("u"), R("HexDigit"), R("HexDigit"), R("HexDigit"), R("HexDigit")>>)),
      Rule("OctalDigit", Class(OctalDigits)),
      Rule("DecimalDigit", Class(Digits)),
      Rule("HexDigit", CharClass(HexDigits, TRUE, FALSE))>>

BootClasses ==
    <<Rule("CharClassMatcher", Action(SeqExpr(<<
          T("["),
          ZeroOrMore(Choice(<<
              R("ClassCharRange"), R("ClassChar"),
              SeqExpr(<<T(Backslash), R("UnicodeClassEscape")>>)>>)),
          T("]"), ZeroOrOne(T("i"))>>),
          "onCharClassMatcher1")),
      Rule("ClassCharRange", SeqExpr(<<R("ClassChar"), T("-"), R("ClassChar")>>))>>

BootClassChars ==
    <<Rule("ClassChar", Choice(<<
          SeqExpr(<<Not(Choice(<<T("]"), T(Backslash), R("EOL")>>)), R("SourceChar")>>),
          SeqExpr(<<T(Backslash), R("CharClassEscape")>>)>>)),
      Rule("CharClassEscape", Choice(<<T("]"), R("CommonEscapeSequence")>>))>>

BootUnicodeClasses ==
    <<Rule("UnicodeClassEscape", SeqExpr(<<
          T("p"),
          Choice(<<
              R("SingleCharUnicodeClass"), SeqExpr(<<T("{"), R("UnicodeClass"), T("}")>>)>>)>>)),
      Rule("SingleCharUnicodeClass", Class({"L", "M", "N", "C", "P", "Z", "S"})),
      Rule("UnicodeClass", OneOrMore(CharClass(LowerLetters \cup {"_"}, TRUE, FALSE))),
      Rule("AnyMatcher", Action(T("."), "onAnyMatcher1"))>>

BootCodeBlocks ==
    <<Rule("CodeBlock", Action(SeqExpr(<<T("{"), R("Code"), T("}")>>), "onCodeBlock1")),
      Rule("Code", ZeroOrMore(Choice(<<
          OneOrMore(SeqExpr(<<Not(Class({"{", "}"})), R("SourceChar")>>)),
          SeqExpr(<<T("{"), R("Code"), T("}")>>)>>))),
      Rule("__", ZeroOrMore(Choice(<<R("Whitespace"), R("EOL"), R("Comment")>>)))>>

BootEnds == PigeonEnds

\* onLitMatcher1 is not the same as in pigeon.go: an invalid literal is nil.
Renamed(rule) ==
    IF rule.arg # "LitMatcher" THEN rule
    ELSE [rule EXCEPT !.kids[1].arg = "bootstrap onLitMatcher1"]

BootTable ==
    BootStart \o BootRule \o BootChoice \o BootPrefixed \o BootSuffixed
    \o BootRefs \o BootComments \o BootIdentifiers \o BootStringLiteral
    \o BootStringChars \o BootStringEscapes \o BootOctalEscapes \o BootHexEscapes
    \o BootDigits \o BootClasses \o BootClassChars \o BootUnicodeClasses
    \o BootCodeBlocks \o BootEnds

Bootstrap == [k \in DOMAIN BootTable |-> Renamed(BootTable[k])]

BootCode(code, scope, text) ==
    LET litMatcher == code = "bootstrap onLitMatcher1"
    IN  IF litMatcher /\ ~Unquote(Arg(scope, "lit").text).ok THEN {Errs(Nil)}
        ELSE PigeonCode(IF litMatcher THEN "onLitMatcher1" ELSE code, scope, text)
=============================================================================
