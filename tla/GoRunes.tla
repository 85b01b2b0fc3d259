------------------------------- MODULE GoRunes ------------------------------
(***************************************************************************)
(* Runes, and the part of Go's unicode package that the peg packages use.  *)
(* A string is a sequence of runes.  A rune is a string of one character,  *)
(* or one of the names below; any other rune is "U+" and its code point in *)
(* decimal, and a byte that is not part of a rune is "byte" and its value. *)
(***************************************************************************)
EXTENDS Integers, Sequences, Functions, TLC

\* The runes of a TLA+ string.
Chars(s) == [k \in 1 .. Len(s) |-> SubSeq(s, k, k)]

NL == "nl"
Backslash == "\\"
Quote == "\""
Tick == "'"
Backquote == "backquote"
Spaces == {" ", NL, "tab", "cr"}

\* utf8.RuneError, which stands for a byte that is not UTF-8.
BadRune == "bad"

\* The runes from code point 32 on.
Ascii ==
    Chars(" !\"#$%&'()*+,-./0123456789:;<=>?@ABCDEFGHIJKLMNOPQRSTUVWXYZ[\\]^_")
    \o <<Backquote>> \o Chars("abcdefghijklmnopqrstuvwxyz{|}~")

RuneOf(n) ==
    CASE n \in 32 .. 126 -> Ascii[n - 31]
      [] n = 10 -> NL
      [] n = 9 -> "tab"
      [] n = 13 -> "cr"
      [] n = 8592 -> "larrow"
      [] n = 10229 -> "longlarrow"
      [] OTHER -> "U+" \o ToString(n)

\* The runes with code points from lo to hi.
Runes(lo, hi) == {RuneOf(n) : n \in lo .. hi}

\* The code points of the runes of one byte.
CodePoint == [r \in Runes(0, 127) |-> CHOOSE n \in 0 .. 127 : RuneOf(n) = r]

Upper == Chars("ABCDEFGHIJKLMNOPQRSTUVWXYZ")
Lowered == Chars("abcdefghijklmnopqrstuvwxyz")
Hex == Chars("0123456789abcdef")

Controls == Runes(0, 31)
Digits == Range(Chars("0123456789"))
OctalDigits == Range(Chars("01234567"))
HexDigits == Range(Hex)
LowerLetters == Range(Lowered)
Letters == Range(Upper) \cup LowerLetters

\* unicode.ToLower
ToLower(r) == IF r \in Range(Upper) THEN Lowered[CHOOSE k \in DOMAIN Upper : Upper[k] = r] ELSE r

IsHexDigit(r) == ToLower(r) \in HexDigits

\* The value of the hexadecimal digit r.
Value(r) == (CHOOSE k \in DOMAIN Hex : Hex[k] = ToLower(r)) - 1

\* The keywords of Go and its predeclared identifiers.
ReservedWords == {Chars(w) : w \in {
    "break", "case", "chan", "const", "continue", "default", "defer", "else", "fallthrough",
    "for", "func", "goto", "go", "if", "import", "interface", "map", "package", "range",
    "return", "select", "struct", "switch", "type", "var", "bool", "byte", "complex64",
    "complex128", "error", "float32", "float64", "int8", "int16", "int32", "int64", "int",
    "rune", "string", "uint8", "uint16", "uint32", "uint64", "uintptr", "uint", "true",
    "false", "iota", "nil", "append", "cap", "close", "complex", "copy", "delete", "imag",
    "len", "make", "new", "panic", "println", "print", "real", "recover"}}
==============================================================================
