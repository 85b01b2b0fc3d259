------------------------------ MODULE PegTexts -------------------------------
(***************************************************************************)
(* The grammars of the repository, from which its parsers are generated:   *)
(* without comments, and with code blocks that hold nothing.               *)
(***************************************************************************)
EXTENDS GoStrings

\* The runes of w, where # is an end of line, @ a left arrow and ~ a backquote.
Source(w) ==
    LET s == Chars(w)
        Meant(r) == CASE r = "#" -> NL [] r = "@" -> "larrow" [] r = "~" -> Backquote [] OTHER -> r
    IN  [k \in DOMAIN s |-> Meant(s[k])]

CalculatorText == Source(
    "{}##Input <- expr:Expr EOF {}##Expr <- _ first:Term rest:( _ AddOp _ Term )* _ {}##" \o
    "Term <- first:Factor rest:( _ MulOp _ Factor )* {}##" \o
    "Factor <- '(' expr:Expr ')' {} / integer:Integer {}##" \o
    "AddOp <- ( '+' / '-' ) {}##MulOp <- ( '*' / '/' ) {}##Integer <- '-'? [0-9]+ {}##" \o
    "_ \"whitespace\" <- [ \\n\\t\\r]*##EOF <- !.#")

JsonText == Source(
    "{}##JSON @ _ vals:Value+ EOF {}##" \o
    "Value @ val:( Object / Array / Number / String / Bool / Null ) _ {}##" \o
    "Object @ '{' _ vals:( String _ ':' _ Value ( ',' _ String _ ':' _ Value )* )? '}' {}##" \o
    "Array @ '[' _ vals:( Value ( ',' _ Value )* )? ']' {}##" \o
    "Number @ '-'? Integer ( '.' DecimalDigit+ )? Exponent? {}##" \o
    "Integer @ '0' / NonZeroDecimalDigit DecimalDigit*##" \o
    "Exponent @ 'e'i [+-]? DecimalDigit+##" \o
    "String @ '\"' ( !EscapedChar . / '\\\\' EscapeSequence )* '\"' {}##" \o
    "EscapedChar @ [\\x00-\\x1f\"\\\\]##EscapeSequence @ SingleCharEscape / UnicodeEscape##" \o
    "SingleCharEscape @ [\"\\\\/bfnrt]##UnicodeEscape @ 'u' HexDigit HexDigit HexDigit HexDigit##" \o
    "DecimalDigit @ [0-9]##NonZeroDecimalDigit @ [1-9]##HexDigit @ [0-9a-f]i##" \o
    "Bool @ \"true\" {} / \"false\" {}##Null @ \"null\" {}##" \o
    "_ \"whitespace\" @ [ \\t\\r\\n]*##EOF @ !.#")

AndNotText == Source(
    "{}##Input @ _ AB _ EOF##AB @ abees:[ab]+ &{} / CD#CD @ ceedees:[cd]+ !{}##" \o
    "_ @ [ \\t\\n\\r]*#EOF @ !.#")

PredicatesText == Source(
    "{}##A @ a:'a' !{} ##/ b:'b' !{}##/ d:'d' &{}##" \o
    "B @ out:( inner:( [^abd] innermost:. &{} ) &{} ) &{}#")

BootstrapText == Source(
    "{}##Grammar @ __ initializer:( Initializer __ )? rules:( Rule __ )+ {}##" \o
    "Initializer @ code:CodeBlock EOS {}##" \o
    "Rule @ name:IdentifierName __ display:( StringLiteral __ )? RuleDefOp __ " \o
    "expr:Expression EOS {}#" \o
    "#Expression @ ChoiceExpr##" \o
    "ChoiceExpr @ first:ActionExpr rest:( __ \"/\" __ ActionExpr )* {}##" \o
    "ActionExpr @ expr:SeqExpr code:( __ CodeBlock )? {}##" \o
    "SeqExpr @ first:LabeledExpr rest:( __ LabeledExpr )* {}##" \o
    "LabeledExpr @ label:Identifier __ ':' __ expr:PrefixedExpr {} / PrefixedExpr##" \o
    "PrefixedExpr @ op:PrefixedOp __ expr:SuffixedExpr {} / SuffixedExpr##" \o
    "PrefixedOp @ ( '&' / '!' ) {}##" \o
    "SuffixedExpr @ expr:PrimaryExpr __ op:SuffixedOp {} / PrimaryExpr ##" \o
    "SuffixedOp @ ( '?' / '*' / '+' ) {}##" \o
    "PrimaryExpr @ LitMatcher / CharClassMatcher / AnyMatcher / RuleRefExpr / " \o
    "SemanticPredExpr / \"(\" __ expr:Expression __ \")\" {}#" \o
    "RuleRefExpr @ name:IdentifierName !( __ ( StringLiteral __ )? RuleDefOp ) {}#" \o
    "SemanticPredExpr @ op:SemanticPredOp __ code:CodeBlock {}#" \o
    "SemanticPredOp @ ( '&' / '!' ) {}##RuleDefOp @ '=' / \"<-\" / '\\u2190' / '\\u27f5'#" \o
    "#SourceChar @ .#Comment @ MultiLineComment / SingleLineComment#" \o
    "MultiLineComment @ \"/*\" ( !\"*/\" SourceChar )* \"*/\"#" \o
    "MultiLineCommentNoLineTerminator @ \"/*\" ( !( \"*/\" / EOL ) SourceChar )* \"*/\"#" \o
    "SingleLineComment @ \"//\" ( !EOL SourceChar )*##Identifier @ IdentifierName#" \o
    "IdentifierName @ IdentifierStart IdentifierPart* {}#IdentifierStart @ [a-z_]i#" \o
    "IdentifierPart @ IdentifierStart / [0-9]##" \o
    "LitMatcher @ lit:StringLiteral ignore:\"i\"? {}#" \o
    "StringLiteral @ ( '\"' DoubleStringChar* '\"' / \"'\" SingleStringChar \"'\" / '~' " \o
    "RawStringChar '~' ) {}#" \o
    "DoubleStringChar @ !( '\"' / \"\\\\\" / EOL ) SourceChar / \"\\\\\" DoubleStringEscape#" \o
    "SingleStringChar @ !( \"'\" / \"\\\\\" / EOL ) SourceChar / \"\\\\\" SingleStringEscape#" \o
    "RawStringChar @ !'~' SourceChar##DoubleStringEscape @ \"'\" / CommonEscapeSequence#" \o
    "SingleStringEscape @ '\"' / CommonEscapeSequence##" \o
    "CommonEscapeSequence @ SingleCharEscape / OctalEscape / HexEscape / LongUnicodeEscape / " \o
    "ShortUnicodeEscape#" \o
    "SingleCharEscape @ 'a' / 'b' / 'n' / 'f' / 'r' / 't' / 'v' / '\\\\'#" \o
    "OctalEscape @ OctalDigit OctalDigit OctalDigit#HexEscape @ 'x' HexDigit HexDigit#" \o
    "LongUnicodeEscape @ 'U' HexDigit HexDigit HexDigit HexDigit HexDigit HexDigit HexDigit " \o
    "HexDigit#" \o
    "ShortUnicodeEscape @ 'u' HexDigit HexDigit HexDigit HexDigit##OctalDigit @ [0-7]#" \o
    "DecimalDigit @ [0-9]#HexDigit @ [0-9a-f]i##" \o
    "CharClassMatcher @ '[' ( ClassCharRange / ClassChar / \"\\\\\" UnicodeClassEscape )* " \o
    "']' 'i'? {}#" \o
    "ClassCharRange @ ClassChar '-' ClassChar#" \o
    "ClassChar @ !( \"]\" / \"\\\\\" / EOL ) SourceChar / \"\\\\\" CharClassEscape#" \o
    "CharClassEscape @ ']' / CommonEscapeSequence##" \o
    "UnicodeClassEscape @ 'p' ( SingleCharUnicodeClass / '{' UnicodeClass '}' )#" \o
    "SingleCharUnicodeClass @ [LMNCPZS]#UnicodeClass @ [a-z_]i+##AnyMatcher @ \".\" {}##" \o
    "CodeBlock @ \"{\" Code \"}\" {}##" \o
    "Code @ ( ( ![{}] SourceChar )+ / \"{\" Code \"}\" )*##" \o
    "__ @ ( Whitespace / EOL / Comment )*#" \o
    "_ @ ( Whitespace / MultiLineCommentNoLineTerminator )*##Whitespace @ [ \\t\\r]#" \o
    "EOL @ '\\n'#EOS @ __ ';' / _ SingleLineComment? EOL / __ EOF##EOF @ !.##")
=============================================================================
