------------------------------ MODULE GoStrings ------------------------------
(***************************************************************************)
(* strconv.Unquote and strconv.UnquoteChar, which the peg packages use.    *)
(***************************************************************************)
EXTENDS GoRunes, SequencesExt

\* The value of the digits s in the base b.
Number(s, b) == FoldLeft(LAMBDA n, r : n * b + Value(r), 0, s)

AreDigits(s, b) == \A k \in DOMAIN s : IsHexDigit(s[k]) /\ Value(s[k]) < b

-----------------------------------------------------------------------------
(* strconv.Unquote *)

Invalid == [ok |-> FALSE, val |-> <<>>]
Unquoted(s) == [ok |-> TRUE, val |-> s]

\* A byte of the string given by its value: only below 128 is it a rune.
ByteOf(n) == IF n < 128 THEN RuneOf(n) ELSE "byte" \o ToString(n)

EscapeCodes == [a |-> 7, b |-> 8, f |-> 12, n |-> 10, r |-> 13, t |-> 9, v |-> 11]
EscapeDigitsOf == [x |-> 2, u |-> 4, U |-> 8]

\* utf8.ValidRune: not a surrogate.
ValidRune(n) == n <= 1114111 /\ n \notin 55296 .. 57343

\* The escape sequence that s begins with, after its backslash, between quotes:
\* how many runes it has, and the code point or the byte that it stands for.
Escape(s, quote) ==
    LET Is(len, code, byte) == [ok |-> TRUE, len |-> len, code |-> code, byte |-> byte]
        Checked(len, code, byte) ==
            IF (byte /\ code < 256) \/ (~byte /\ ValidRune(code)) THEN Is(len, code, byte)
            ELSE [ok |-> FALSE]
        Numeric(from, n, base, byte) ==
            IF Len(s) >= n /\ AreDigits(SubSeq(s, from, n), base)
               /\ (n = 9 => SubSeq(s, 2, 3) = <<"0", "0">>)
            THEN Checked(n, Number(SubSeq(s, from, n), base), byte) ELSE [ok |-> FALSE]
    IN  CASE s = <<>> -> [ok |-> FALSE]
          [] Head(s) \in DOMAIN EscapeCodes -> Is(1, EscapeCodes[Head(s)], FALSE)
          [] Head(s) \in {Backslash, quote} -> Is(1, CodePoint[Head(s)], FALSE)
          [] Head(s) \in DOMAIN EscapeDigitsOf ->
                Numeric(2, EscapeDigitsOf[Head(s)] + 1, 16, Head(s) = "x")
          [] Head(s) \in OctalDigits -> Numeric(1, 3, 8, TRUE)
          [] OTHER -> [ok |-> FALSE]

RECURSIVE UnquoteRest(_, _)
\* The runes of s, up to the closing quote that s ends with.
UnquoteRest(s, quote) ==
    LET Put(rune, rest) == IF rest.ok THEN Unquoted(<<rune>> \o rest.val) ELSE Invalid
        Next(rune, n) == Put(rune, UnquoteRest(SubSeq(s, n + 1, Len(s)), quote))
        Unescape(esc) ==
            IF esc.ok THEN Next(IF esc.byte THEN ByteOf(esc.code) ELSE RuneOf(esc.code), esc.len + 1)
            ELSE Invalid
    IN  IF s = <<quote>> THEN Unquoted(<<>>)
        ELSE IF s = <<>> \/ Head(s) \in {quote, NL} THEN Invalid
        ELSE IF Head(s) = Backslash THEN Unescape(Escape(Tail(s), quote))
        ELSE Next(Head(s), 1)

Unquote(s) ==
    LET inner == SubSeq(s, 2, Len(s) - 1)
        OneRune(u) == IF Len(u.val) = 1 THEN u ELSE Invalid
    IN  CASE Len(s) < 2 \/ s[1] # s[Len(s)] -> Invalid
          [] s[1] = Backquote /\ ~Contains(inner, Backquote) ->
                Unquoted(SelectSeq(inner, LAMBDA r : r # "cr"))
          [] s[1] = Quote -> UnquoteRest(Tail(s), Quote)
          [] s[1] = Tick -> OneRune(UnquoteRest(Tail(s), Tick))
          [] OTHER -> Invalid
=============================================================================
