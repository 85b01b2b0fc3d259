------------------------------ MODULE PegValues ------------------------------
(***************************************************************************)
(* The Go values that a generated parser handles (interface{}), as trees:  *)
(* a string has a text, a slice has its values below it, and a code block  *)
(* may return nodes with other tags.  A string is a sequence of runes.     *)
(***************************************************************************)

Tree(tag, text, kids) == [tag |-> tag, text |-> text, kids |-> kids]
Nil == Tree("nil", <<>>, <<>>)
Str(text) == Tree("string", text, <<>>)
List(vals) == Tree("slice", <<>>, vals)
=============================================================================
