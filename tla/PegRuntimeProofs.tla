-------------------------- MODULE PegRuntimeProofs --------------------------
(***************************************************************************)
(* Proofs about PegRuntime and PegScopes, for every grammar, every input   *)
(* and every behaviour of the code blocks.                                 *)
(*                                                                         *)
(* Every step of a parse function is one of three: it calls another one    *)
(* (CallStep), it returns (ReturnStep), or it goes on in the same call     *)
(* (SameStep).  Each of these preserves the inductive invariant IInv, and  *)
(* each action is shown to be one of them.                                 *)
(*                                                                         *)
(* On top of IInv: the labels in scope (ScopeInv), and lines, columns and  *)
(* errors (PositionInv, ErrorInv).                                         *)
(***************************************************************************)
EXTENDS PegScopes, TLAPS

\* Most leaves need no arithmetic: Zenon tries them before SMT does.
USE ZenonT(5), SMTT(10)

-----------------------------------------------------------------------------
(* Sequences of elements of any kind *)

IsSeq(s) == \E S : s \in Seq(S)

\* What Append returns, for the pushes of parseRule and pushV.
LEMMA SeqAppend ==
    ASSUME NEW s, IsSeq(s), NEW x
    PROVE  /\ IsSeq(Append(s, x))
           /\ Len(s) \in Nat /\ DOMAIN s = 1 .. Len(s)
           /\ Len(Append(s, x)) = Len(s) + 1
           /\ \A k \in 1 .. Len(s) : Append(s, x)[k] = s[k]
           /\ Append(s, x)[Len(s) + 1] = x
<1>1. PICK S : s \in Seq(S)
  BY DEF IsSeq
<1>2. s \in Seq(S \cup {x}) /\ x \in S \cup {x}
  BY <1>1
<1>3. /\ Append(s, x) \in Seq(S \cup {x})
      /\ Len(Append(s, x)) = Len(s) + 1
      /\ \A k \in 1 .. Len(s) : Append(s, x)[k] = s[k]
      /\ Append(s, x)[Len(s) + 1] = x
  BY <1>2
<1>4. IsSeq(Append(s, x))
  BY <1>3 DEF IsSeq
<1>5. Len(s) \in Nat /\ DOMAIN s = 1 .. Len(s)
  BY <1>1
<1>6. QED
  BY <1>3, <1>4, <1>5

\* What is left when the last element is removed, for the pops of parseRule
\* and popV.
LEMMA SeqPop ==
    ASSUME NEW s, IsSeq(s), s # <<>>
    PROVE  /\ IsSeq(SubSeq(s, 1, Len(s) - 1))
           /\ Len(s) \in Nat /\ Len(s) >= 1 /\ DOMAIN s = 1 .. Len(s)
           /\ Len(SubSeq(s, 1, Len(s) - 1)) = Len(s) - 1
           /\ \A k \in 1 .. Len(s) - 1 : SubSeq(s, 1, Len(s) - 1)[k] = s[k]
<1>1. PICK S : s \in Seq(S)
  BY DEF IsSeq
<1>2. Len(s) \in Nat /\ Len(s) >= 1 /\ DOMAIN s = 1 .. Len(s)
  BY <1>1
<1>3. /\ SubSeq(s, 1, Len(s) - 1) \in Seq(S)
      /\ Len(SubSeq(s, 1, Len(s) - 1)) = Len(s) - 1
      /\ \A k \in 1 .. Len(s) - 1 : SubSeq(s, 1, Len(s) - 1)[k] = s[k]
  BY <1>1, <1>2
<1>4. QED
  BY <1>2, <1>3 DEF IsSeq

\* A sequence with its last element replaced, for Bind.
LEMMA SeqUpdate ==
    ASSUME NEW s, IsSeq(s), s # <<>>, NEW x
    PROVE  IsSeq([s EXCEPT ![Len(s)] = x]) /\ Len([s EXCEPT ![Len(s)] = x]) = Len(s)
<1>1. PICK S : s \in Seq(S)
  BY DEF IsSeq
<1>2. s \in Seq(S \cup {x}) /\ x \in S \cup {x}
  BY <1>1
<1>a. Len(s) \in 1 .. Len(s)
  BY <1>1
<1>3. [s EXCEPT ![Len(s)] = x] \in Seq(S \cup {x}) /\ Len([s EXCEPT ![Len(s)] = x]) = Len(s)
  BY <1>2, <1>a
<1>4. QED
  BY <1>3 DEF IsSeq

\* A sequence is empty when its length is zero.
LEMMA SeqEmpty ==
    ASSUME NEW s, IsSeq(s)
    PROVE  Len(s) \in Nat /\ (Len(s) = 0 <=> s = <<>>) /\ DOMAIN s = 1 .. Len(s)
<1>1. PICK S : s \in Seq(S)
  BY DEF IsSeq
<1>2. QED
  BY <1>1

-----------------------------------------------------------------------------
(* The inductive invariant *)

\* The calls whose first or next call starts where they do.
Anchored(f) ==
    \/ f.e.op \in {"rule", "labeled", "action", "choice"}
    \/ f.e.op = "oneOrMore" /\ f.i = 0

\* How much deeper the calls that f makes find vstack and rstack.
Scopes(f) == IF f.e.op \in {"rule", "choice", "labeled"} THEN 1 ELSE 0
RuleScopes(f) == IF f.e.op = "rule" THEN 1 ELSE 0

\* f has made a call at offset o, with vstack and rstack of depths v and r.
Link(f, o, v, r) ==
    /\ f.pt.offset <= o
    /\ Anchored(f) => o = f.pt.offset
    /\ v = f.v + Scopes(f)
    /\ r = f.r + RuleScopes(f)

\* A position from which the next read stays within the input.
Place(p) == p \in Positions /\ p.offset + p.w <= Len(data)

\* A match within the input.
Span(c) == c \in [from : 0 .. Len(data), to : 0 .. Len(data)] /\ c.from <= c.to

Placed == Place(pt) /\ \A k \in 1 .. Len(stack) : Place(stack[k].pt)

Seqs == IsSeq(stack) /\ IsSeq(vstack) /\ IsSeq(rstack) /\ IsSeq(data)

Chain ==
    \A k \in 1 .. Len(stack) - 1 :
        Link(stack[k], stack[k + 1].pt.offset, stack[k + 1].v, stack[k + 1].r)

Bottom ==
    /\ stack # <<>> => stack[1].e.op = "rule" /\ stack[1].v = 0 /\ stack[1].r = 0
    /\ \A k \in 2 .. Len(stack) : stack[k].v >= 1

\* The innermost call has just begun.
Calling ==
    ret.st = "none" /\ stack # <<>> =>
        /\ Len(vstack) = Top.v /\ Len(rstack) = Top.r
        /\ Top.e.op # "lit" => pt.offset = Top.pt.offset /\ Top.i = 0

\* The innermost call has the result of a call it made.
Returning ==
    ret.st # "none" =>
        /\ Len(vstack) = ret.v /\ Len(rstack) = ret.r
        /\ ret.from <= pt.offset
        /\ stack # <<>> => Link(Top, ret.from, ret.v, ret.r)
        /\ stack = <<>> /\ res.st = "pending" => ret.v = 0 /\ ret.r = 0

Ending ==
    /\ res.st # "pending" => stack = <<>>
    /\ res.st \in {"ok", "fail"} => vstack = <<>> /\ rstack = <<>>
    /\ res.st = "pending" /\ stack = <<>> /\ ret.st = "none" => vstack = <<>> /\ rstack = <<>>

IInv ==
    /\ TypeOK /\ Placed /\ Seqs
    /\ OffsetsNested /\ Chain /\ Bottom
    /\ Calling /\ Returning /\ FailRestores /\ Ending

\* The fields of a position.
LEMMA PositionFields ==
    ASSUME IsSeq(data), NEW p \in Positions
    PROVE  /\ Len(data) \in Nat /\ p.offset \in Nat /\ p.offset <= Len(data)
           /\ p.w \in {0, 1} /\ p.line \in Nat /\ p.col \in Nat
<1>1. Len(data) \in Nat
  BY SeqEmpty
<1>2. p.offset \in 0 .. Len(data) /\ p.w \in {0, 1} /\ p.line \in Nat /\ p.col \in Nat
  BY DEF Positions
<1>3. QED
  BY <1>1, <1>2

\* The stack after a call: one frame more.
LEMMA StackCall ==
    ASSUME IsSeq(stack), stack # <<>>, NEW f, NEW g,
           stack' = Append(Append(Below, f), g)
    PROVE  /\ IsSeq(stack')
           /\ Len(stack) \in Nat /\ Len(stack) >= 1 /\ Len(stack') = Len(stack) + 1
           /\ \A k \in 1 .. Len(stack) - 1 : stack'[k] = stack[k]
           /\ stack'[Len(stack)] = f /\ stack'[Len(stack) + 1] = g
           /\ stack' # <<>> /\ DOMAIN stack' = 1 .. Len(stack')
<1>1. /\ IsSeq(Below) /\ Len(Below) = Len(stack) - 1
      /\ Len(stack) \in Nat /\ Len(stack) >= 1
      /\ \A k \in 1 .. Len(stack) - 1 : Below[k] = stack[k]
  BY SeqPop DEF Below
<1>2. DEFINE b == Append(Below, f)
<1>3. /\ IsSeq(b) /\ Len(b) = Len(stack)
      /\ \A k \in 1 .. Len(stack) - 1 : b[k] = stack[k]
      /\ b[Len(stack)] = f
  BY <1>1, SeqAppend
<1>4. stack' = Append(b, g)
  OBVIOUS
<1>5. HIDE DEF b
<1>6. /\ IsSeq(stack') /\ Len(stack') = Len(stack) + 1
      /\ \A k \in 1 .. Len(stack) : stack'[k] = b[k]
      /\ stack'[Len(stack) + 1] = g
  BY <1>1, <1>3, <1>4, SeqAppend
<1>7. stack' # <<>> /\ DOMAIN stack' = 1 .. Len(stack')
  BY <1>1, <1>6, SeqEmpty
<1>8. QED
  BY <1>1, <1>3, <1>6, <1>7

\* The stack after the innermost call has changed.
LEMMA StackSame ==
    ASSUME IsSeq(stack), stack # <<>>, NEW f, stack' = Append(Below, f)
    PROVE  /\ IsSeq(stack')
           /\ Len(stack) \in Nat /\ Len(stack) >= 1 /\ Len(stack') = Len(stack)
           /\ \A k \in 1 .. Len(stack) - 1 : stack'[k] = stack[k]
           /\ stack'[Len(stack)] = f
           /\ stack' # <<>> /\ DOMAIN stack' = 1 .. Len(stack')
<1>1. /\ IsSeq(Below) /\ Len(Below) = Len(stack) - 1
      /\ Len(stack) \in Nat /\ Len(stack) >= 1
      /\ \A k \in 1 .. Len(stack) - 1 : Below[k] = stack[k]
  BY SeqPop DEF Below
<1>2. /\ IsSeq(stack') /\ Len(stack') = Len(stack)
      /\ \A k \in 1 .. Len(stack) - 1 : stack'[k] = stack[k]
      /\ stack'[Len(stack)] = f
  BY <1>1, SeqAppend
<1>3. stack' # <<>> /\ DOMAIN stack' = 1 .. Len(stack')
  BY <1>1, <1>2, SeqEmpty
<1>4. QED
  BY <1>1, <1>2, <1>3

\* The stack after a return: one frame less.
LEMMA StackReturn ==
    ASSUME IsSeq(stack), stack # <<>>, stack' = Below
    PROVE  /\ IsSeq(stack')
           /\ Len(stack) \in Nat /\ Len(stack) >= 1 /\ Len(stack') = Len(stack) - 1
           /\ \A k \in 1 .. Len(stack) - 1 : stack'[k] = stack[k]
           /\ (stack' = <<>> <=> Len(stack) = 1) /\ DOMAIN stack' = 1 .. Len(stack')
<1>1. /\ IsSeq(stack') /\ Len(stack') = Len(stack) - 1
      /\ Len(stack) \in Nat /\ Len(stack) >= 1
      /\ \A k \in 1 .. Len(stack) - 1 : stack'[k] = stack[k]
  BY SeqPop DEF Below
<1>2. (Len(stack') = 0 <=> stack' = <<>>) /\ DOMAIN stack' = 1 .. Len(stack')
  BY <1>1, SeqEmpty
<1>3. QED
  BY <1>1, <1>2

-----------------------------------------------------------------------------
(* The three kinds of steps *)

\* A parse is in progress.
Busy == stack # <<>> /\ res.st = "pending"

\* The innermost call is the one that parse made.
Outermost == Len(stack) = 1

\* s is a stack of depth n.
Deep(s, n) == IsSeq(s) /\ Len(s) = n

\* The innermost call f calls the parse function for e.
CallStep(f, e) ==
    /\ Busy
    /\ f.e = Top.e /\ f.pt = Top.pt /\ f.v = Top.v /\ f.r = Top.r /\ f.i \in Nat
    /\ Call(f, e)
    /\ UNCHANGED <<gram, data, pt, cur, res>>
    /\ Deep(vstack', Top.v + Scopes(Top)) /\ Deep(rstack', Top.r + RuleScopes(Top))
    /\ Anchored(f) => pt.offset = Top.pt.offset

\* The innermost call returns.
ReturnStep(ok, val) ==
    /\ Busy
    /\ Return(ok, val)
    /\ UNCHANGED <<gram, data, res>>
    /\ Place(pt') /\ pt'.offset >= Top.pt.offset
    /\ ~ok => pt'.offset = Top.pt.offset
    /\ Span(cur')
    /\ Deep(vstack', Top.v) /\ Deep(rstack', Top.r)

\* The innermost call goes on as f.
SameStep(f) ==
    /\ Busy /\ ret.st = "none"
    /\ stack' = Append(Below, f)
    /\ Place(f.pt) /\ f.pt.offset = Top.pt.offset
    /\ f.v = Top.v /\ f.r = Top.r /\ f.i \in Nat
    /\ Outermost => f.e.op = "rule"
    /\ Place(pt') /\ pt'.offset >= pt.offset
    /\ f.e.op = "lit" \/ (pt'.offset = f.pt.offset /\ f.i = 0)
    /\ UNCHANGED <<gram, data, ret, vstack, rstack, cur, res>>

\* A call preserves the invariant.
LEMMA CallPreserves ==
    ASSUME IInv, NEW f, NEW e, CallStep(f, e)
    PROVE  IInv'
<1> DEFINE n == Len(stack)
<1> DEFINE g == Frame(e)
<1>1. /\ IsSeq(stack') /\ n \in Nat /\ n >= 1 /\ Len(stack') = n + 1
      /\ \A k \in 1 .. n - 1 : stack'[k] = stack[k]
      /\ stack'[n] = f /\ stack'[n + 1] = g
      /\ stack' # <<>> /\ DOMAIN stack' = 1 .. n + 1
  BY StackCall DEF IInv, Seqs, CallStep, Busy, Call
<1>2. /\ g.e = e /\ g.i = 0 /\ g.pt = pt
      /\ g.v = Top.v + Scopes(Top) /\ g.r = Top.r + RuleScopes(Top)
  BY DEF CallStep, Deep, Frame
<1>3. /\ Top = stack[n] /\ Top' = g
      /\ f.e = Top.e /\ f.pt = Top.pt /\ f.v = Top.v /\ f.r = Top.r /\ f.i \in Nat
      /\ ret' = NoRet /\ ret'.st = "none" /\ ret'.from = 0 /\ ret'.v = 0 /\ ret'.r = 0
      /\ gram' = gram /\ data' = data /\ pt' = pt /\ cur' = cur /\ res' = res
      /\ res.st = "pending"
      /\ Scopes(f) = Scopes(Top) /\ RuleScopes(f) = RuleScopes(Top)
      /\ Scopes(Top) \in {0, 1} /\ RuleScopes(Top) \in {0, 1}
  BY <1>1 DEF CallStep, Busy, Call, Top, NoRet, Scopes, RuleScopes
<1>4. DOMAIN stack = 1 .. n
  BY SeqEmpty DEF IInv, Seqs
<1> HIDE DEF g
<1>5. Positions' = Positions
  BY <1>3 DEF Positions
<1>6. Len(data) \in Nat
  BY SeqEmpty DEF IInv, Seqs
<1>7. \A k \in 1 .. n :
         /\ stack[k].pt \in Positions /\ stack[k].i \in Nat
         /\ stack[k].v \in Nat /\ stack[k].r \in Nat
  BY <1>4 DEF IInv, TypeOK
<1>8. pt \in Positions /\ pt.offset \in 0 .. Len(data) /\ Top.v \in Nat /\ Top.r \in Nat
  <2>1. pt \in Positions
    BY DEF IInv, TypeOK
  <2>2. pt.offset \in 0 .. Len(data)
    BY <2>1 DEF Positions
  <2>3. QED
    BY <2>1, <2>2, <1>1, <1>3, <1>7
<1>9. \A k \in 1 .. n + 1 :
         /\ stack'[k].pt \in Positions /\ stack'[k].i \in Nat
         /\ stack'[k].v \in Nat /\ stack'[k].r \in Nat
  <2> SUFFICES ASSUME NEW k \in 1 .. n + 1
               PROVE  /\ stack'[k].pt \in Positions /\ stack'[k].i \in Nat
                      /\ stack'[k].v \in Nat /\ stack'[k].r \in Nat
    OBVIOUS
  <2>1. CASE k = n + 1
    BY <2>1, <1>1, <1>2, <1>3, <1>8
  <2>2. CASE k = n
    BY <2>2, <1>1, <1>3, <1>7
  <2>3. CASE k \in 1 .. n - 1
    <3>1. k \in 1 .. n /\ stack'[k] = stack[k]
      BY <2>3, <1>1
    <3>2. QED
      BY <3>1, <1>7
  <2>4. QED
    BY <1>1, <2>1, <2>2, <2>3
<1>10. TypeOK'
  BY <1>1, <1>3, <1>5, <1>6, <1>9, SMTT(30) DEF IInv, TypeOK
<1>11. Placed'
  <2>1. Place(pt) /\ \A k \in 1 .. n : Place(stack[k].pt)
    BY DEF IInv, Placed
  <2>2. \A k \in 1 .. n + 1 : Place(stack'[k].pt)
    BY <2>1, <1>1, <1>2, <1>3
  <2>3. QED
    BY <2>1, <2>2, <1>1, <1>3, <1>5 DEF Placed, Place
<1>12. Seqs'
  BY <1>1, <1>3 DEF IInv, Seqs, CallStep, Deep
<1>13. OffsetsNested'
  <2>1. /\ \A j, k \in 1 .. n : j <= k => stack[j].pt.offset <= stack[k].pt.offset
        /\ \A k \in 1 .. n : stack[k].pt.offset <= pt.offset
        /\ cur.from <= cur.to
    BY <1>4 DEF IInv, OffsetsNested
  <2>2. \A k \in 1 .. n : stack'[k].pt = stack[k].pt
    BY <1>1, <1>3
  <2>3. stack'[n + 1].pt = pt
    BY <1>1, <1>2
  <2>4. \A k \in 1 .. n + 1 : k = n + 1 \/ k \in 1 .. n
    BY <1>1
  <2>5. pt.offset <= pt.offset
    BY <1>8, <1>6
  <2>6. \A k \in 1 .. n + 1 : stack'[k].pt.offset <= pt'.offset
    BY <2>1, <2>2, <2>3, <2>4, <2>5, <1>3
  <2>7. \A j, k \in 1 .. n + 1 : j <= k => stack'[j].pt.offset <= stack'[k].pt.offset
    <3> SUFFICES ASSUME NEW j \in 1 .. n + 1, NEW k \in 1 .. n + 1, j <= k
                 PROVE  stack'[j].pt.offset <= stack'[k].pt.offset
      OBVIOUS
    <3>1. CASE k = n + 1
      BY <3>1, <2>3, <2>6, <1>3
    <3>2. CASE k \in 1 .. n
      BY <3>2, <2>1, <2>2, <1>1
    <3>3. QED
      BY <2>4, <3>1, <3>2
  <2>8. QED
    BY <2>1, <2>6, <2>7, <1>1, <1>3 DEF OffsetsNested
<1>14. Chain'
  <2>1. \A k \in 1 .. n - 1 :
           Link(stack[k], stack[k + 1].pt.offset, stack[k + 1].v, stack[k + 1].r)
    BY DEF IInv, Chain
  <2>2. Link(f, g.pt.offset, g.v, g.r)
    <3>1. stack[n].pt.offset <= pt.offset
      BY <1>1, <1>4 DEF IInv, OffsetsNested
    <3>2. QED
      BY <3>1, <1>2, <1>3 DEF Link, CallStep
  <2>3. \A k \in 1 .. n :
           Link(stack'[k], stack'[k + 1].pt.offset, stack'[k + 1].v, stack'[k + 1].r)
    <3> SUFFICES ASSUME NEW k \in 1 .. n
                 PROVE  Link(stack'[k], stack'[k + 1].pt.offset, stack'[k + 1].v, stack'[k + 1].r)
      OBVIOUS
    <3>1. CASE k = n
      BY <3>1, <2>2, <1>1
    <3>2. CASE k = n - 1
      BY <3>2, <2>1, <1>1, <1>3
    <3>3. CASE k \in 1 .. n - 2
      <4>1. stack'[k] = stack[k] /\ stack'[k + 1] = stack[k + 1] /\ k \in 1 .. n - 1
        BY <3>3, <1>1
      <4>2. QED
        BY <4>1, <2>1
    <3>4. QED
      BY <1>1, <3>1, <3>2, <3>3
  <2>4. QED
    BY <2>3, <1>1 DEF Chain, Link, Anchored, Scopes, RuleScopes
<1>15. Bottom'
  <2>1. /\ stack[1].e.op = "rule" /\ stack[1].v = 0 /\ stack[1].r = 0
        /\ \A k \in 2 .. n : stack[k].v >= 1
    BY DEF IInv, Bottom, CallStep, Busy
  <2>2. stack'[1].e.op = "rule" /\ stack'[1].v = 0 /\ stack'[1].r = 0
    BY <2>1, <1>1, <1>3
  <2>3. g.v >= 1
    <3>1. CASE n = 1
      <4>1. Scopes(Top) = 1
        BY <3>1, <2>1, <1>3 DEF Scopes
      <4>2. QED
        BY <4>1, <3>1, <2>1, <1>2, <1>3
    <3>2. CASE n >= 2
      BY <3>2, <2>1, <1>1, <1>2, <1>3, <1>8
    <3>3. n = 1 \/ n >= 2
      <4>1. n \in Nat /\ n >= 1
        BY <1>1
      <4>2. \A m \in Nat : m >= 1 => m = 1 \/ m >= 2
        OBVIOUS
      <4>3. QED
        BY <4>1, <4>2, Zenon
    <3>4. QED
      BY <3>1, <3>2, <3>3, Zenon
  <2>4. \A k \in 2 .. n + 1 : stack'[k].v >= 1
    <3> SUFFICES ASSUME NEW k \in 2 .. n + 1 PROVE stack'[k].v >= 1
      OBVIOUS
    <3>1. k = n + 1 \/ k = n \/ k \in 2 .. n - 1
      BY <1>1
    <3>2. QED
      BY <3>1, <2>1, <2>3, <1>1, <1>3
  <2>5. QED
    BY <2>2, <2>4, <1>1 DEF Bottom
<1>16. Calling'
  BY <1>1, <1>2, <1>3 DEF Calling, CallStep, Deep
<1>17. Returning' /\ FailRestores' /\ Ending'
  BY <1>1, <1>3 DEF IInv, Returning, FailRestores, Ending
<1>18. QED
  BY <1>10, <1>11, <1>12, <1>13, <1>14, <1>15, <1>16, <1>17 DEF IInv

\* A return preserves the invariant.
LEMMA ReturnPreserves ==
    ASSUME IInv, NEW ok, NEW val, ReturnStep(ok, val)
    PROVE  IInv'
<1> DEFINE n == Len(stack)
<1>1. /\ IsSeq(stack') /\ n \in Nat /\ n >= 1 /\ Len(stack') = n - 1
      /\ \A k \in 1 .. n - 1 : stack'[k] = stack[k]
      /\ (stack' = <<>> <=> n = 1) /\ DOMAIN stack' = 1 .. n - 1
  BY StackReturn DEF IInv, Seqs, ReturnStep, Busy, Return
<1>2. DOMAIN stack = 1 .. n /\ Len(data) \in Nat
  BY SeqEmpty DEF IInv, Seqs
<1>3. /\ Top = stack[n]
      /\ ret'.st = IF ok THEN "ok" ELSE "fail"
      /\ ret'.from = Top.pt.offset /\ ret'.v = Top.v /\ ret'.r = Top.r
      /\ gram' = gram /\ data' = data /\ res' = res /\ res.st = "pending"
      /\ Place(pt') /\ pt'.offset >= Top.pt.offset
      /\ ~ok => pt'.offset = Top.pt.offset
      /\ Len(vstack') = Top.v /\ Len(rstack') = Top.r
  BY DEF ReturnStep, Busy, Deep, Return, Top
<1>4. ret'.st \in {"ok", "fail"} /\ (ret'.st = "fail" => ~ok)
  BY <1>3
<1>5. Positions' = Positions
  BY <1>3 DEF Positions
<1>6. \A k \in 1 .. n :
         /\ stack[k].pt \in Positions /\ stack[k].i \in Nat
         /\ stack[k].v \in Nat /\ stack[k].r \in Nat
  BY <1>2 DEF IInv, TypeOK
<1>7. /\ pt' \in Positions /\ pt'.offset \in 0 .. Len(data)
      /\ Top.pt.offset \in 0 .. Len(data) /\ Top.v \in Nat /\ Top.r \in Nat
  <2>1. pt' \in Positions /\ Top.pt \in Positions
    BY <1>1, <1>3, <1>6 DEF Place
  <2>2. pt'.offset \in 0 .. Len(data) /\ Top.pt.offset \in 0 .. Len(data)
    BY <2>1 DEF Positions
  <2>3. QED
    BY <2>1, <2>2, <1>1, <1>3, <1>6
<1>8. TypeOK'
  <2>1. \A k \in 1 .. n - 1 :
           /\ stack'[k].pt \in Positions /\ stack'[k].i \in Nat
           /\ stack'[k].v \in Nat /\ stack'[k].r \in Nat
    BY <1>1, <1>6
  <2>2. cur' \in [from : 0 .. Len(data), to : 0 .. Len(data)]
    BY DEF ReturnStep, Span
  <2>3. gram \in DOMAIN Grammars /\ data \in Inputs[gram]
    BY DEF IInv, TypeOK
  <2>4. QED
    BY <2>1, <2>2, <2>3, <1>1, <1>3, <1>4, <1>5, <1>7 DEF TypeOK
<1>9. Placed'
  <2>1. \A k \in 1 .. n : Place(stack[k].pt)
    BY DEF IInv, Placed
  <2>2. \A k \in 1 .. n - 1 : Place(stack'[k].pt)
    BY <2>1, <1>1
  <2>3. QED
    BY <2>2, <1>1, <1>3, <1>5 DEF Placed, Place
<1>10. Seqs'
  BY <1>1, <1>3 DEF IInv, Seqs, ReturnStep, Deep
<1>11. OffsetsNested'
  <2>1. \A j, k \in 1 .. n : j <= k => stack[j].pt.offset <= stack[k].pt.offset
    BY <1>2 DEF IInv, OffsetsNested
  <2>2. \A k \in 1 .. n - 1 : stack'[k].pt.offset <= pt'.offset
    <3> SUFFICES ASSUME NEW k \in 1 .. n - 1 PROVE stack'[k].pt.offset <= pt'.offset
      OBVIOUS
    <3>1. stack[k].pt.offset <= Top.pt.offset /\ stack'[k] = stack[k]
      BY <2>1, <1>1, <1>3
    <3>2. stack[k].pt.offset \in Nat
      <4>1. stack[k].pt \in Positions /\ IsSeq(data)
        BY <1>1, <1>6 DEF IInv, Seqs
      <4>2. QED
        BY <4>1, PositionFields
    <3>3. QED
      BY <3>1, <3>2, <1>2, <1>3, <1>7
  <2>3. \A j, k \in 1 .. n - 1 : j <= k => stack'[j].pt.offset <= stack'[k].pt.offset
    BY <2>1, <1>1
  <2>4. cur'.from <= cur'.to
    BY DEF ReturnStep, Span
  <2>5. QED
    BY <2>2, <2>3, <2>4, <1>1 DEF OffsetsNested
<1>12. Chain'
  <2>1. \A k \in 1 .. n - 1 :
           Link(stack[k], stack[k + 1].pt.offset, stack[k + 1].v, stack[k + 1].r)
    BY DEF IInv, Chain
  <2>2. \A k \in 1 .. n - 2 :
           Link(stack'[k], stack'[k + 1].pt.offset, stack'[k + 1].v, stack'[k + 1].r)
    <3> SUFFICES ASSUME NEW k \in 1 .. n - 2
                 PROVE  Link(stack'[k], stack'[k + 1].pt.offset, stack'[k + 1].v, stack'[k + 1].r)
      OBVIOUS
    <3>1. stack'[k] = stack[k] /\ stack'[k + 1] = stack[k + 1] /\ k \in 1 .. n - 1
      BY <1>1
    <3>2. QED
      BY <3>1, <2>1
  <2>3. QED
    BY <2>2, <1>1 DEF Chain, Link, Anchored, Scopes, RuleScopes
<1>13. Bottom'
  BY <1>1 DEF IInv, Bottom, ReturnStep, Busy
<1>14. Calling'
  BY <1>4 DEF Calling
<1>15. Returning'
  <2>1. ret'.from <= pt'.offset
    BY <1>2, <1>3, <1>7
  <2>2. stack' # <<>> => Link(stack[n - 1], Top.pt.offset, Top.v, Top.r)
    <3>1. n # 1 => n - 1 \in 1 .. n - 1 /\ n - 1 + 1 = n
      BY <1>1
    <3>2. QED
      BY <3>1, <1>1, <1>3 DEF IInv, Chain
  <2>3. stack' # <<>> => Top' = stack[n - 1]
    BY <1>1 DEF Top
  <2>4. stack' # <<>> => Link(Top, ret.from, ret.v, ret.r)'
    BY <2>2, <2>3, <1>3 DEF Link, Anchored, Scopes, RuleScopes
  <2>5. stack' = <<>> => ret'.v = 0 /\ ret'.r = 0
    BY <1>1, <1>3 DEF IInv, Bottom, ReturnStep, Busy
  <2>6. QED
    BY <2>1, <2>4, <2>5, <1>3 DEF Returning
<1>16. FailRestores'
  BY <1>3, <1>4 DEF FailRestores
<1>17. Ending'
  BY <1>3, <1>4 DEF Ending
<1>18. QED
  BY <1>8, <1>9, <1>10, <1>11, <1>12, <1>13, <1>14, <1>15, <1>16, <1>17 DEF IInv

\* A step that goes on in the same call preserves the invariant.
LEMMA SamePreserves ==
    ASSUME IInv, NEW f, SameStep(f)
    PROVE  IInv'
<1> DEFINE n == Len(stack)
<1>1. /\ IsSeq(stack') /\ n \in Nat /\ n >= 1 /\ Len(stack') = n
      /\ \A k \in 1 .. n - 1 : stack'[k] = stack[k]
      /\ stack'[n] = f
      /\ stack' # <<>> /\ DOMAIN stack' = 1 .. n
  BY StackSame DEF IInv, Seqs, SameStep, Busy, Outermost
<1>2. DOMAIN stack = 1 .. n /\ Len(data) \in Nat
  BY SeqEmpty DEF IInv, Seqs
<1>3. /\ Top = stack[n] /\ Top' = f
      /\ Place(f.pt) /\ f.pt.offset = Top.pt.offset
      /\ f.v = Top.v /\ f.r = Top.r /\ f.i \in Nat
      /\ gram' = gram /\ data' = data /\ ret' = ret /\ vstack' = vstack
      /\ rstack' = rstack /\ cur' = cur /\ res' = res
      /\ res.st = "pending" /\ ret.st = "none"
      /\ Place(pt') /\ pt'.offset >= pt.offset
      /\ n = 1 => f.e.op = "rule"
      /\ f.e.op = "lit" \/ (pt'.offset = f.pt.offset /\ f.i = 0)
  BY <1>1 DEF SameStep, Busy, Outermost, Top
<1>4. Positions' = Positions
  BY <1>3 DEF Positions
<1>5. \A k \in 1 .. n :
         /\ stack[k].pt \in Positions /\ stack[k].i \in Nat
         /\ stack[k].v \in Nat /\ stack[k].r \in Nat
  BY <1>2 DEF IInv, TypeOK
<1>6. \A k \in 1 .. n : k = n \/ k \in 1 .. n - 1
  <2>1. n \in Nat
    BY <1>1
  <2>2. QED
    BY <2>1
<1>7. \A k \in 1 .. n : /\ stack'[k].pt.offset = stack[k].pt.offset
                        /\ stack'[k].v = stack[k].v /\ stack'[k].r = stack[k].r
  BY <1>1, <1>3, <1>6
<1>8. TypeOK'
  <2>1. \A k \in 1 .. n :
           /\ stack'[k].pt \in Positions /\ stack'[k].i \in Nat
           /\ stack'[k].v \in Nat /\ stack'[k].r \in Nat
    BY <1>1, <1>3, <1>5, <1>6 DEF Place
  <2>2. pt' \in Positions
    BY <1>3 DEF Place
  <2>3. QED
    BY <2>1, <2>2, <1>1, <1>3, <1>4 DEF IInv, TypeOK
<1>9. Placed'
  <2>1. \A k \in 1 .. n : Place(stack'[k].pt)
    BY <1>1, <1>3, <1>6 DEF IInv, Placed
  <2>2. QED
    BY <2>1, <1>1, <1>3, <1>4 DEF Placed, Place
<1>10. Seqs'
  BY <1>1, <1>3 DEF IInv, Seqs
<1>11. OffsetsNested'
  <2>1. /\ \A j, k \in 1 .. n : j <= k => stack[j].pt.offset <= stack[k].pt.offset
        /\ \A k \in 1 .. n : stack[k].pt.offset <= pt.offset
        /\ cur.from <= cur.to
    BY <1>2 DEF IInv, OffsetsNested
  <2>a. pt \in Positions /\ pt' \in Positions /\ IsSeq(data)
    BY <1>3 DEF IInv, TypeOK, Place, Seqs
  <2>2. pt.offset \in Nat /\ pt'.offset \in Nat
    BY <2>a, PositionFields
  <2>3. \A k \in 1 .. n : stack[k].pt.offset \in Nat
    BY <2>a, <1>5, PositionFields
  <2>4. \A k \in 1 .. n : stack'[k].pt.offset <= pt'.offset
    BY <2>1, <2>2, <2>3, <1>3, <1>7
  <2>5. QED
    BY <2>1, <2>4, <1>1, <1>3, <1>7 DEF OffsetsNested
<1>12. Chain'
  <2>1. \A k \in 1 .. n - 1 :
           Link(stack[k], stack[k + 1].pt.offset, stack[k + 1].v, stack[k + 1].r)
    BY DEF IInv, Chain
  <2>2. \A k \in 1 .. n - 1 :
           Link(stack'[k], stack'[k + 1].pt.offset, stack'[k + 1].v, stack'[k + 1].r)
    <3> SUFFICES ASSUME NEW k \in 1 .. n - 1
                 PROVE  Link(stack'[k], stack'[k + 1].pt.offset, stack'[k + 1].v, stack'[k + 1].r)
      OBVIOUS
    <3>1. stack'[k] = stack[k] /\ k + 1 \in 1 .. n
      BY <1>1
    <3>2. QED
      BY <3>1, <2>1, <1>7
  <2>3. QED
    BY <2>2, <1>1 DEF Chain, Link, Anchored, Scopes, RuleScopes
<1>13. Bottom'
  <2>1. /\ stack[1].e.op = "rule" /\ stack[1].v = 0 /\ stack[1].r = 0
        /\ \A k \in 2 .. n : stack[k].v >= 1
    BY DEF IInv, Bottom, SameStep, Busy, Outermost
  <2>2. stack'[1].e.op = "rule"
    BY <2>1, <1>1, <1>3
  <2>3. QED
    BY <2>1, <2>2, <1>1, <1>7 DEF Bottom
<1>14. Calling'
  BY <1>1, <1>3 DEF IInv, Calling, SameStep, Busy, Outermost
<1>15. Returning' /\ FailRestores' /\ Ending'
  BY <1>1, <1>3 DEF IInv, Returning, FailRestores, Ending
<1>16. QED
  BY <1>8, <1>9, <1>10, <1>11, <1>12, <1>13, <1>14, <1>15 DEF IInv

-----------------------------------------------------------------------------
(* Positions, scopes and the entry of a call *)

\* read leads to a position in the input, not before the one it starts from.
LEMMA ReadPlace ==
    ASSUME IsSeq(data), NEW p, Place(p)
    PROVE  Place(Read(p)) /\ Read(p).offset >= p.offset
<1> DEFINE o == p.offset + p.w
<1>1. /\ Len(data) \in Nat /\ p.offset \in Nat /\ p.w \in {0, 1}
      /\ p.line \in Nat /\ p.col \in Nat
  BY PositionFields DEF Place
<1>2. o \in Nat /\ o <= Len(data) /\ o >= p.offset
  BY <1>1 DEF Place
<1>3. DOMAIN data = 1 .. Len(data)
  BY SeqEmpty
<1> HIDE DEF o
<1>4. RuneAt(o) \in {data[k] : k \in DOMAIN data} \cup {RuneError, NoRune}
  <2>1. CASE o < Len(data)
    <3>1. o + 1 \in DOMAIN data
      BY <2>1, <1>1, <1>2, <1>3
    <3>2. QED
      BY <2>1, <3>1 DEF RuneAt
  <2>2. CASE ~(o < Len(data))
    BY <2>2 DEF RuneAt
  <2>3. QED
    BY <2>1, <2>2
<1>5. /\ Read(p) = [offset |-> o, rn |-> RuneAt(o),
                    w      |-> IF o < Len(data) THEN 1 ELSE 0,
                    line   |-> IF RuneAt(o) = NewLine THEN p.line + 1 ELSE p.line,
                    col    |-> IF RuneAt(o) = NewLine THEN 0 ELSE p.col + 1]
  BY DEF Read, o
<1>6. Read(p) \in Positions
  <2>1. o \in 0 .. Len(data)
    BY <1>1, <1>2
  <2>2. (IF o < Len(data) THEN 1 ELSE 0) \in {0, 1}
    OBVIOUS
  <2>3. (IF RuneAt(o) = NewLine THEN p.line + 1 ELSE p.line) \in Nat
    BY <1>1
  <2>4. (IF RuneAt(o) = NewLine THEN 0 ELSE p.col + 1) \in Nat
    BY <1>1
  <2>5. QED
    BY <2>1, <2>2, <2>3, <2>4, <1>4, <1>5 DEF Positions
<1>7. Read(p).offset = o /\ Read(p).w = IF o < Len(data) THEN 1 ELSE 0
  BY <1>5
<1>8. o + Read(p).w <= Len(data)
  BY <1>1, <1>2, <1>7
<1>9. QED
  BY <1>2, <1>6, <1>7, <1>8 DEF Place

\* restore leads back to the offset it is given.
LEMMA RestorePlace ==
    ASSUME Place(pt), NEW p, Place(p)
    PROVE  Place(Restore(p)) /\ Restore(p).offset = p.offset
BY DEF Restore

\* A call of the function for op that has just begun ...
AtEntry(op) ==
    /\ Busy /\ ret.st = "none" /\ Top.e.op = op
    /\ IsSeq(data) /\ Place(pt) /\ Place(Top.pt)
    /\ Top.pt.offset \in Nat /\ pt.offset \in Nat /\ pt.offset >= Top.pt.offset
    /\ Top.i \in Nat /\ Top.v \in Nat /\ Top.r \in Nat
    /\ Deep(vstack, Top.v) /\ Deep(rstack, Top.r)
    /\ op # "lit" => pt.offset = Top.pt.offset /\ Top.i = 0
    /\ Span(cur)
    /\ Outermost => op = "rule"
    /\ op # "rule" => Top.v >= 1

\* ... or that has just got a result.
AtResult(op) ==
    /\ Busy /\ ret.st \in {"ok", "fail"} /\ Top.e.op = op
    /\ IsSeq(data) /\ Place(pt) /\ Place(Top.pt)
    /\ Top.pt.offset \in Nat /\ pt.offset \in Nat /\ pt.offset >= Top.pt.offset
    /\ Top.i \in Nat /\ Top.v \in Nat /\ Top.r \in Nat
    /\ Deep(vstack, Top.v + Scopes(Top)) /\ Deep(rstack, Top.r + RuleScopes(Top))
    /\ Anchored(Top) /\ ret.st = "fail" => pt.offset = Top.pt.offset
    /\ Span(cur)
    /\ op # "rule" => Top.v >= 1

\* What the invariant says of a call that has just begun.
LEMMA EnteredFacts ==
    ASSUME IInv, NEW op, Entered(op)
    PROVE  AtEntry(op)
<1>1. stack # <<>> /\ res.st = "pending" /\ ret.st = "none" /\ Top.e.op = op
  BY DEF Entered
<1>2. IsSeq(data) /\ IsSeq(stack) /\ IsSeq(vstack) /\ IsSeq(rstack)
  BY DEF IInv, Seqs
<1>3. Len(stack) \in Nat /\ Len(stack) >= 1 /\ DOMAIN stack = 1 .. Len(stack)
  BY <1>1, <1>2, SeqPop
<1>4. Len(stack) \in 1 .. Len(stack) /\ Top = stack[Len(stack)]
  BY <1>3 DEF Top
<1>5. Place(pt) /\ Place(Top.pt)
  BY <1>4 DEF IInv, Placed
<1>6. Top.pt.offset \in Nat /\ pt.offset \in Nat
  BY <1>2, <1>5, PositionFields DEF Place
<1>7. Top.i \in Nat /\ Top.v \in Nat /\ Top.r \in Nat
  BY <1>3, <1>4 DEF IInv, TypeOK
<1>8. pt.offset >= Top.pt.offset
  BY <1>3, <1>4, <1>6 DEF IInv, OffsetsNested
<1>9. /\ Len(vstack) = Top.v /\ Len(rstack) = Top.r
      /\ op # "lit" => pt.offset = Top.pt.offset /\ Top.i = 0
  BY <1>1 DEF IInv, Calling
<1>10. Span(cur)
  BY DEF IInv, TypeOK, OffsetsNested, Span
<1>11. /\ Len(stack) = 1 => op = "rule"
       /\ op # "rule" => Top.v >= 1
  <2>1. /\ stack[1].e.op = "rule"
        /\ \A k \in 2 .. Len(stack) : stack[k].v >= 1
    BY <1>1 DEF IInv, Bottom
  <2>2. Len(stack) = 1 => op = "rule"
    BY <2>1, <1>1, <1>4
  <2>3. Len(stack) # 1 => Len(stack) \in 2 .. Len(stack)
    BY <1>3
  <2>4. QED
    BY <2>1, <2>2, <2>3, <1>4
<1>12. Busy /\ Deep(vstack, Top.v) /\ Deep(rstack, Top.r)
  BY <1>1, <1>2, <1>9 DEF Busy, Deep
<1>13. Outermost => op = "rule"
  BY <1>11 DEF Outermost
<1>14. QED
  BY <1>1, <1>2, <1>5, <1>6, <1>7, <1>8, <1>9, <1>10, <1>11, <1>12, <1>13 DEF AtEntry

\* What the invariant says of a call that has just got a result.
LEMMA ResumedFacts ==
    ASSUME IInv, NEW op, Resumed(op)
    PROVE  AtResult(op)
<1>1. stack # <<>> /\ res.st = "pending" /\ ret.st # "none" /\ Top.e.op = op
  BY DEF Resumed
<1>2. IsSeq(data) /\ IsSeq(stack) /\ IsSeq(vstack) /\ IsSeq(rstack)
  BY DEF IInv, Seqs
<1>3. Len(stack) \in Nat /\ Len(stack) >= 1 /\ DOMAIN stack = 1 .. Len(stack)
  BY <1>1, <1>2, SeqPop
<1>4. Len(stack) \in 1 .. Len(stack) /\ Top = stack[Len(stack)]
  BY <1>3 DEF Top
<1>5. Place(pt) /\ Place(Top.pt)
  BY <1>4 DEF IInv, Placed
<1>6. Top.pt.offset \in Nat /\ pt.offset \in Nat
  BY <1>2, <1>5, PositionFields DEF Place
<1>7. Top.i \in Nat /\ Top.v \in Nat /\ Top.r \in Nat /\ ret.st \in {"ok", "fail"}
  BY <1>1, <1>3, <1>4 DEF IInv, TypeOK
<1>8. pt.offset >= Top.pt.offset
  BY <1>3, <1>4, <1>6 DEF IInv, OffsetsNested
<1>9. /\ Len(vstack) = Top.v + Scopes(Top) /\ Len(rstack) = Top.r + RuleScopes(Top)
      /\ Anchored(Top) => ret.from = Top.pt.offset
  BY <1>1 DEF IInv, Returning, Link
<1>10. Anchored(Top) /\ ret.st = "fail" => pt.offset = Top.pt.offset
  BY <1>9 DEF IInv, FailRestores
<1>11. Span(cur)
  BY DEF IInv, TypeOK, OffsetsNested, Span
<1>12. op # "rule" => Top.v >= 1
  <2>1. /\ stack[1].e.op = "rule"
        /\ \A k \in 2 .. Len(stack) : stack[k].v >= 1
    BY <1>1 DEF IInv, Bottom
  <2>2. Len(stack) = 1 => op = "rule"
    BY <2>1, <1>1, <1>4
  <2>3. Len(stack) # 1 => Len(stack) \in 2 .. Len(stack)
    BY <1>3
  <2>4. QED
    BY <2>1, <2>2, <2>3, <1>4
<1>13. Busy /\ Deep(vstack, Top.v + Scopes(Top)) /\ Deep(rstack, Top.r + RuleScopes(Top))
  BY <1>1, <1>2, <1>9 DEF Busy, Deep
<1>14. QED
  BY <1>1, <1>2, <1>5, <1>6, <1>7, <1>8, <1>10, <1>11, <1>12, <1>13 DEF AtResult

\* A call without a scope of its own makes calls at its own depths ...
LEMMA PlainCall ==
    ASSUME NEW op, op \notin {"rule", "choice", "labeled"}, AtEntry(op),
           vstack' = vstack, rstack' = rstack
    PROVE  Deep(vstack', Top.v + Scopes(Top)) /\ Deep(rstack', Top.r + RuleScopes(Top))
<1>1. Scopes(Top) = 0 /\ RuleScopes(Top) = 0
  BY DEF AtEntry, Scopes, RuleScopes
<1>2. /\ Deep(vstack, Top.v) /\ Deep(rstack, Top.r)
      /\ Top.v + Scopes(Top) = Top.v /\ Top.r + RuleScopes(Top) = Top.r
  BY <1>1 DEF AtEntry
<1>3. QED
  BY <1>2

\* ... and finds them unchanged when those return.
LEMMA PlainResult ==
    ASSUME NEW op, op \notin {"rule", "choice", "labeled"}, AtResult(op),
           vstack' = vstack, rstack' = rstack
    PROVE  /\ Deep(vstack', Top.v) /\ Deep(rstack', Top.r)
           /\ Deep(vstack', Top.v + Scopes(Top)) /\ Deep(rstack', Top.r + RuleScopes(Top))
<1>1. Scopes(Top) = 0 /\ RuleScopes(Top) = 0
  BY DEF AtResult, Scopes, RuleScopes
<1>2. /\ Deep(vstack, Top.v + Scopes(Top)) /\ Deep(rstack, Top.r + RuleScopes(Top))
      /\ Top.v + Scopes(Top) = Top.v /\ Top.r + RuleScopes(Top) = Top.r
  BY <1>1 DEF AtResult
<1>3. QED
  BY <1>2

-----------------------------------------------------------------------------
(* Each action preserves the invariant *)

\* parse starts without a scope.
LEMMA InitIInv == Init => IInv
<1> SUFFICES ASSUME Init PROVE IInv
  OBVIOUS
<1>1. IsSeq(data)
  BY InputAssumption DEF Init, IsSeq
<1>2. Len(data) \in Nat
  BY <1>1, SeqEmpty
<1>3. IsSeq(<<>>) /\ Len(<<>>) = 0
  BY DEF IsSeq
<1>4. pt = [offset |-> 0, rn |-> NoRune, w |-> 0, line |-> 1, col |-> 0]
  BY DEF Init
<1>5. pt \in Positions
  BY <1>2, <1>4 DEF Positions
<1>6. Place(pt)
  BY <1>2, <1>4, <1>5 DEF Place
<1>7. TypeOK
  BY <1>1, <1>2, <1>5 DEF Init, TypeOK, NoRet, Pending
<1>8. Placed /\ Seqs
  BY <1>1, <1>3, <1>6 DEF Init, Placed, Seqs
<1>9. OffsetsNested /\ Chain /\ Bottom /\ Calling
  BY <1>3 DEF Init, OffsetsNested, Chain, Bottom, Calling
<1>10. Returning /\ FailRestores /\ Ending
  BY DEF Init, Returning, FailRestores, Ending, NoRet, Pending
<1>11. QED
  BY <1>7, <1>8, <1>9, <1>10 DEF IInv

\* pushV opens one scope ...
LEMMA PushOne ==
    ASSUME NEW s, NEW n \in Nat, Deep(s, n), NEW x
    PROVE  Deep(Append(s, x), n + 1)
BY SeqAppend DEF Deep

\* ... popV leaves one ...
LEMMA PopOne ==
    ASSUME NEW s, NEW n \in Nat, Deep(s, n + 1)
    PROVE  Deep(SubSeq(s, 1, Len(s) - 1), n)
<1>1. IsSeq(s) /\ Len(s) = n + 1
  BY DEF Deep
<1>2. s # <<>>
  BY <1>1, SeqEmpty
<1>3. IsSeq(SubSeq(s, 1, Len(s) - 1)) /\ Len(SubSeq(s, 1, Len(s) - 1)) = Len(s) - 1
  BY <1>1, <1>2, SeqPop
<1>4. QED
  BY <1>1, <1>3 DEF Deep

\* ... and binding a label changes no depth.
LEMMA BindDepth ==
    ASSUME NEW s, NEW n \in Nat, n >= 1, Deep(s, n), NEW l, NEW v
    PROVE  Deep(Bind(s, l, v), n)
<1>1. IsSeq(s) /\ Len(s) = n
  BY DEF Deep
<1>2. s # <<>>
  BY <1>1, SeqEmpty
<1>3. QED
  BY <1>1, <1>2, SeqUpdate DEF Bind, Deep

\* parseRule enters and leaves one scope.
LEMMA RulePreserves == ASSUME IInv, ParseRule PROVE IInv'
<1>0. UNCHANGED <<gram, data, pt, cur, res>>
  BY DEF ParseRule
<1>1. CASE Entered("rule") /\ PushV /\ rstack' = Append(rstack, Top.e.arg)
           /\ Call(Top, Top.e.kids[1])
  <2>1. AtEntry("rule")
    BY <1>1, EnteredFacts
  <2>2. Scopes(Top) = 1 /\ RuleScopes(Top) = 1
    BY <2>1 DEF AtEntry, Scopes, RuleScopes
  <2>3. Deep(vstack', Top.v + 1) /\ Deep(rstack', Top.r + 1)
    BY <1>1, <2>1, PushOne DEF AtEntry, PushV
  <2>4. CallStep(Top, Top.e.kids[1])
    BY <1>0, <1>1, <2>1, <2>2, <2>3, ZenonT(30) DEF CallStep, AtEntry
  <2>5. QED
    BY <2>4, CallPreserves
<1>2. CASE Resumed("rule") /\ vstack' = PopV
           /\ rstack' = SubSeq(rstack, 1, Len(rstack) - 1)
           /\ Return(ret.st = "ok", ret.val)
  <2>1. AtResult("rule")
    BY <1>2, ResumedFacts
  <2>2. Scopes(Top) = 1 /\ RuleScopes(Top) = 1 /\ Anchored(Top)
    BY <2>1 DEF AtResult, Scopes, RuleScopes, Anchored
  <2>3. /\ Deep(vstack, Top.v + 1) /\ Deep(rstack, Top.r + 1)
        /\ Top.v \in Nat /\ Top.r \in Nat
    BY <2>1, <2>2 DEF AtResult
  <2>4. Deep(vstack', Top.v) /\ Deep(rstack', Top.r)
    BY <1>2, <2>3, PopOne DEF PopV
  <2>5. ReturnStep(ret.st = "ok", ret.val)
    BY <1>0, <1>2, <2>1, <2>2, <2>4, SMTT(30) DEF ReturnStep, AtResult
  <2>6. QED
    BY <2>5, ReturnPreserves
<1>3. QED
  BY <1>1, <1>2 DEF ParseRule

\* parseRuleRefExpr becomes the call of parseRule.
LEMMA RuleRefPreserves == ASSUME IInv, ParseRuleRefExpr PROVE IInv'
<1>0. AtEntry("ruleRef") /\ UNCHANGED <<gram, data, pt, vstack, rstack, cur, res>>
  BY EnteredFacts DEF ParseRuleRefExpr
<1>1. ASSUME NEW val, Return(FALSE, val)
      PROVE  IInv'
  <2>1. ReturnStep(FALSE, val)
    BY <1>0, <1>1, ZenonT(30) DEF ReturnStep, AtEntry
  <2>2. QED
    BY <2>1, ReturnPreserves
<1>2. ASSUME NEW e, stack' = Append(Below, Frame(e)), UNCHANGED ret
      PROVE  IInv'
  <2> DEFINE f == Frame(e)
  <2>1. /\ f.pt = pt /\ f.i = 0 /\ f.v = Len(vstack) /\ f.r = Len(rstack)
        /\ stack' = Append(Below, f)
    BY <1>0, <1>2 DEF Frame
  <2>2. f.v = Top.v /\ f.r = Top.r
    BY <1>0, <2>1 DEF AtEntry, Deep
  <2> HIDE DEF f
  <2>3. SameStep(f)
    BY <1>0, <1>2, <2>1, <2>2 DEF SameStep, AtEntry
  <2>4. QED
    BY <2>3, SamePreserves
<1>3. QED
  BY <1>1, <1>2 DEF ParseRuleRefExpr

\* A panic of a code block, after which nothing runs.
LEMMA PanicPreserves ==
    ASSUME IInv, Panic, UNCHANGED <<gram, data, pt, vstack, rstack>>, Span(cur')
    PROVE  IInv'
<1>1. /\ gram' = gram /\ data' = data /\ pt' = pt /\ ret' = ret /\ vstack' = vstack
      /\ rstack' = rstack /\ stack' = <<>> /\ res'.st = "panic"
  BY DEF Panic
<1>2. Positions' = Positions
  BY <1>1 DEF Positions
<1>3. IsSeq(<<>>) /\ Len(<<>>) = 0 /\ DOMAIN <<>> = 1 .. 0
  BY DEF IsSeq
<1>4. TypeOK'
  BY <1>1, <1>2, <1>3 DEF IInv, TypeOK, Span
<1>5. Placed' /\ Seqs'
  BY <1>1, <1>2, <1>3 DEF IInv, Placed, Place, Seqs
<1>6. OffsetsNested' /\ Chain' /\ Bottom' /\ Calling'
  BY <1>1, <1>3 DEF OffsetsNested, Chain, Bottom, Calling, Span
<1>7. Returning' /\ FailRestores' /\ Ending'
  BY <1>1 DEF IInv, Returning, FailRestores, Ending
<1>8. QED
  BY <1>4, <1>5, <1>6, <1>7 DEF IInv

\* parseActionExpr runs the code block on the match.
LEMMA ActionPreserves == ASSUME IInv, ParseActionExpr PROVE IInv'
<1>0. UNCHANGED <<gram, data, pt, vstack, rstack>>
  BY DEF ParseActionExpr
<1>1. CASE Entered("action") /\ Call(Top, Top.e.kids[1]) /\ UNCHANGED <<errs, cur, res>>
  <2>1. AtEntry("action")
    BY <1>1, EnteredFacts
  <2>2. Deep(vstack', Top.v + Scopes(Top)) /\ Deep(rstack', Top.r + RuleScopes(Top))
    BY <1>0, <2>1, PlainCall
  <2>3. CallStep(Top, Top.e.kids[1])
    BY <1>0, <1>1, <2>1, <2>2, SMTT(30) DEF CallStep, AtEntry
  <2>4. QED
    BY <2>3, CallPreserves
<1>2. ASSUME Resumed("action")
      PROVE  /\ AtResult("action") /\ Anchored(Top)
             /\ Deep(vstack', Top.v) /\ Deep(rstack', Top.r)
  <2>1. AtResult("action")
    BY <1>2, ResumedFacts
  <2>2. Anchored(Top)
    BY <2>1 DEF AtResult, Anchored
  <2>3. Deep(vstack', Top.v) /\ Deep(rstack', Top.r)
    BY <1>0, <2>1, PlainResult
  <2>4. QED
    BY <2>1, <2>2, <2>3
<1>3. CASE /\ Resumed("action") /\ ret.st = "fail"
           /\ Return(FALSE, ret.val) /\ UNCHANGED <<errs, cur, res>>
  <2>1. ReturnStep(FALSE, ret.val)
    BY <1>0, <1>2, <1>3, ZenonT(30) DEF ReturnStep, AtResult
  <2>2. QED
    BY <2>1, ReturnPreserves
<1>4. CASE /\ Resumed("action") /\ ret.st = "ok"
           /\ cur' = [from |-> Top.pt.offset, to |-> pt.offset]
           /\ \E o \in Outcomes(Top.e.arg, Scope, Slice(cur')) :
                 Panic \/ (Return(TRUE, o.val) /\ UNCHANGED res)
  <2>1. AtResult("action")
    BY <1>4, <1>2
  <2>2. /\ Top.pt.offset \in 0 .. Len(data) /\ pt.offset \in 0 .. Len(data)
        /\ Top.pt.offset <= pt.offset
    BY <2>1, PositionFields DEF AtResult, Place
  <2>3. Span(cur')
    BY <1>4, <2>2 DEF Span
  <2>4. PICK o : Panic \/ (Return(TRUE, o.val) /\ UNCHANGED res)
    BY <1>4
  <2>5. CASE Panic
    BY <1>0, <2>3, <2>5, PanicPreserves
  <2>6. CASE Return(TRUE, o.val) /\ UNCHANGED res
    <3>1. Deep(vstack', Top.v) /\ Deep(rstack', Top.r)
      BY <1>2, <1>4
    <3>2. ReturnStep(TRUE, o.val)
      BY <1>0, <2>1, <2>3, <2>6, <3>1, ZenonT(30) DEF ReturnStep, AtResult
    <3>3. QED
      BY <3>2, ReturnPreserves
  <2>7. QED
    BY <2>4, <2>5, <2>6
<1>5. QED
  BY <1>1, <1>3, <1>4 DEF ParseActionExpr

\* The code predicates do not move the parser.
LEMMA CodePreserves ==
    ASSUME IInv, NEW op, op \in {"andCode", "notCode"}, NEW want, ParseCode(op, want)
    PROVE  IInv'
<1>0. AtEntry(op) /\ op # "lit" /\ UNCHANGED <<gram, data, pt, vstack, rstack, cur>>
  BY EnteredFacts DEF ParseCode
<1>1. CASE Panic
  <2>1. Span(cur')
    BY <1>0 DEF AtEntry
  <2>2. QED
    BY <1>0, <1>1, <2>1, PanicPreserves
<1>2. ASSUME NEW ok, NEW val, Return(ok, val), UNCHANGED res
      PROVE  IInv'
  <2>1. ReturnStep(ok, val)
    BY <1>0, <1>2, SMTT(30) DEF ReturnStep, AtEntry
  <2>2. QED
    BY <2>1, ReturnPreserves
<1>3. QED
  BY <1>1, <1>2 DEF ParseCode

\* The lookaheads give back what they matched.
LEMMA LookaheadPreserves ==
    ASSUME IInv, NEW op, op \in {"and", "not"}, NEW want, ParseLookahead(op, want)
    PROVE  IInv'
<1>0. /\ UNCHANGED <<gram, data, vstack, rstack, cur, res>>
      /\ op # "lit" /\ op \notin {"rule", "choice", "labeled"}
  BY DEF ParseLookahead
<1>1. CASE Entered(op) /\ Call(Top, Top.e.kids[1]) /\ UNCHANGED pt
  <2>1. AtEntry(op)
    BY <1>1, EnteredFacts
  <2>2. Deep(vstack', Top.v + Scopes(Top)) /\ Deep(rstack', Top.r + RuleScopes(Top))
    BY <1>0, <2>1, PlainCall
  <2>3. CallStep(Top, Top.e.kids[1])
    BY <1>0, <1>1, <2>1, <2>2, ZenonT(30) DEF CallStep, AtEntry
  <2>4. QED
    BY <2>3, CallPreserves
<1>2. ASSUME Resumed(op), pt' = Restore(Top.pt), NEW ok, NEW val, Return(ok, val)
      PROVE  IInv'
  <2>1. AtResult(op)
    BY <1>2, ResumedFacts
  <2>2. Place(pt') /\ pt'.offset = Top.pt.offset
    BY <1>2, <2>1, RestorePlace DEF AtResult
  <2>3. pt'.offset >= Top.pt.offset
    <3>1. Top.pt.offset \in Nat
      BY <2>1 DEF AtResult
    <3>2. QED
      BY <2>2, <3>1
  <2>4. Deep(vstack', Top.v) /\ Deep(rstack', Top.r)
    BY <1>0, <2>1, PlainResult
  <2>5. ReturnStep(ok, val)
    BY <1>0, <1>2, <2>1, <2>2, <2>3, <2>4, SMTT(30) DEF ReturnStep, AtResult
  <2>6. QED
    BY <2>5, ReturnPreserves
<1>3. QED
  BY <1>1, <1>2 DEF ParseLookahead

\* parseChoiceExpr has one scope open whatever alternative it tries.
LEMMA ChoicePreserves == ASSUME IInv, ParseChoiceExpr PROVE IInv'
<1>0. UNCHANGED <<gram, data, pt, rstack, cur, res>>
  BY DEF ParseChoiceExpr
<1>1. ASSUME Entered("choice"), PushV, NEW val, NEW e, Call(Later(Top, 1, val), e)
      PROVE  IInv'
  <2>1. AtEntry("choice")
    BY <1>1, EnteredFacts
  <2>2. Scopes(Top) = 1 /\ RuleScopes(Top) = 0
    BY <2>1 DEF AtEntry, Scopes, RuleScopes
  <2>3. Deep(vstack', Top.v + 1)
    BY <1>1, <2>1, PushOne DEF AtEntry, PushV
  <2>4. Deep(rstack', Top.r + 0)
    <3>1. Top.r \in Nat /\ Deep(rstack, Top.r)
      BY <2>1 DEF AtEntry
    <3>2. Top.r + 0 = Top.r
      BY <3>1
    <3>3. QED
      BY <1>0, <3>1, <3>2
  <2> DEFINE f == Later(Top, 1, val)
  <2>5. /\ f.e = Top.e /\ f.pt = Top.pt /\ f.v = Top.v /\ f.r = Top.r /\ f.i = 1
        /\ Call(f, e)
    <3>1. f.e = Top.e /\ f.pt = Top.pt /\ f.v = Top.v /\ f.r = Top.r /\ f.i = 1
      BY DEF Later
    <3>2. Call(f, e)
      BY <1>1
    <3>3. QED
      BY <3>1, <3>2, Zenon
  <2> HIDE DEF f
  <2>6. CallStep(f, e)
    <3>1. f.i \in Nat
      BY <2>5
    <3>2. Busy /\ pt.offset = Top.pt.offset
      BY <2>1 DEF AtEntry
    <3>3. QED
      BY <1>0, <2>2, <2>3, <2>4, <2>5, <3>1, <3>2, ZenonT(30) DEF CallStep
  <2>7. QED
    BY <2>6, CallPreserves
<1>2. ASSUME Resumed("choice")
      PROVE  /\ AtResult("choice") /\ Anchored(Top) /\ Scopes(Top) = 1
             /\ Deep(PopV, Top.v)
             /\ Deep(rstack', Top.r) /\ Deep(rstack', Top.r + RuleScopes(Top))
  <2>1. AtResult("choice")
    BY <1>2, ResumedFacts
  <2>2. Anchored(Top) /\ RuleScopes(Top) = 0 /\ Scopes(Top) = 1
    BY <2>1 DEF AtResult, Scopes, RuleScopes, Anchored
  <2>3. Top.v \in Nat /\ Deep(vstack, Top.v + 1) /\ Top.r + RuleScopes(Top) = Top.r
    BY <2>1, <2>2 DEF AtResult
  <2>4. Deep(PopV, Top.v)
    BY <2>3, PopOne DEF PopV
  <2>5. Deep(rstack', Top.r + RuleScopes(Top))
    BY <1>0, <2>1 DEF AtResult
  <2>6. QED
    BY <2>1, <2>2, <2>3, <2>4, <2>5
<1>3. ASSUME Resumed("choice"), ret.st = "fail", vstack' = Append(PopV, NoLabel),
             NEW val, NEW e, Call(Later(Top, Top.i + 1, val), e)
      PROVE  IInv'
  <2>1. AtResult("choice")
    BY <1>2, <1>3
  <2>2. Top.v \in Nat /\ Top.i + 1 \in Nat
    BY <2>1 DEF AtResult
  <2>3. Deep(vstack', Top.v + Scopes(Top))
    BY <1>2, <1>3, <2>2, PushOne
  <2>4. pt.offset = Top.pt.offset
    BY <1>2, <1>3 DEF AtResult
  <2>5. Deep(rstack', Top.r + RuleScopes(Top))
    BY <1>2, <1>3
  <2> DEFINE f == Later(Top, Top.i + 1, val)
  <2>6. /\ f.e = Top.e /\ f.pt = Top.pt /\ f.v = Top.v /\ f.r = Top.r /\ f.i = Top.i + 1
        /\ Call(f, e)
    <3>1. f.e = Top.e /\ f.pt = Top.pt /\ f.v = Top.v /\ f.r = Top.r /\ f.i = Top.i + 1
      BY DEF Later
    <3>2. Call(f, e)
      BY <1>3
    <3>3. QED
      BY <3>1, <3>2, Zenon
  <2> HIDE DEF f
  <2>7. CallStep(f, e)
    BY <1>0, <2>1, <2>2, <2>3, <2>4, <2>5, <2>6, ZenonT(30) DEF CallStep, AtResult
  <2>8. QED
    BY <2>7, CallPreserves
<1>4. CASE Resumed("choice") /\ vstack' = PopV /\ Return(ret.st = "ok", ret.val)
  <2>1. AtResult("choice")
    BY <1>2, <1>4
  <2>2. Deep(vstack', Top.v) /\ Deep(rstack', Top.r)
    BY <1>2, <1>4
  <2>3. ret.st # "ok" => pt.offset = Top.pt.offset
    BY <1>2, <1>4 DEF AtResult
  <2>4. ReturnStep(ret.st = "ok", ret.val)
    BY <1>0, <1>4, <2>1, <2>2, <2>3, SMTT(30) DEF ReturnStep, AtResult
  <2>5. QED
    BY <2>4, ReturnPreserves
<1>5. QED
  BY <1>1, <1>3, <1>4 DEF ParseChoiceExpr

\* parseLabeledExpr binds its label in the scope it was called in.
LEMMA LabeledPreserves == ASSUME IInv, ParseLabeledExpr PROVE IInv'
<1>0. UNCHANGED <<gram, data, pt, rstack, cur, res>>
  BY DEF ParseLabeledExpr
<1>1. CASE Entered("labeled") /\ PushV /\ Call(Top, Top.e.kids[1])
  <2>1. AtEntry("labeled")
    BY <1>1, EnteredFacts
  <2>2. Scopes(Top) = 1 /\ RuleScopes(Top) = 0
    BY <2>1 DEF AtEntry, Scopes, RuleScopes
  <2>3. Deep(vstack', Top.v + 1)
    BY <1>1, <2>1, PushOne DEF AtEntry, PushV
  <2>4. Deep(rstack', Top.r + 0)
    <3>1. Top.r \in Nat /\ Deep(rstack, Top.r)
      BY <2>1 DEF AtEntry
    <3>2. Top.r + 0 = Top.r
      BY <3>1
    <3>3. QED
      BY <1>0, <3>1, <3>2
  <2>5. CallStep(Top, Top.e.kids[1])
    BY <1>0, <1>1, <2>1, <2>2, <2>3, <2>4, ZenonT(30) DEF CallStep, AtEntry
  <2>6. QED
    BY <2>5, CallPreserves
<1>2. CASE /\ Resumed("labeled") /\ Return(ret.st = "ok", ret.val)
           /\ vstack' = IF ret.st = "ok" THEN Bind(PopV, Top.e.arg, ret.val) ELSE PopV
  <2>1. AtResult("labeled")
    BY <1>2, ResumedFacts
  <2>2. Anchored(Top) /\ RuleScopes(Top) = 0 /\ Scopes(Top) = 1
    BY <2>1 DEF AtResult, Scopes, RuleScopes, Anchored
  <2>3. /\ Top.v \in Nat /\ Top.v >= 1 /\ Deep(vstack, Top.v + 1)
        /\ Deep(rstack, Top.r + RuleScopes(Top)) /\ Top.r + RuleScopes(Top) = Top.r
    BY <2>1, <2>2 DEF AtResult
  <2>4. Deep(PopV, Top.v)
    BY <2>3, PopOne DEF PopV
  <2>5. Deep(vstack', Top.v)
    BY <1>2, <2>3, <2>4, BindDepth
  <2>6. Deep(rstack', Top.r)
    BY <1>0, <2>3
  <2>7. ret.st # "ok" => pt.offset = Top.pt.offset
    BY <2>1, <2>2 DEF AtResult
  <2>8. ReturnStep(ret.st = "ok", ret.val)
    BY <1>0, <1>2, <2>1, <2>5, <2>6, <2>7, ZenonT(30) DEF ReturnStep, AtResult
  <2>9. QED
    BY <2>8, ReturnPreserves
<1>3. QED
  BY <1>1, <1>2 DEF ParseLabeledExpr

\* parseSeqExpr restores its own savepoint when it fails.
LEMMA SeqPreserves == ASSUME IInv, ParseSeqExpr PROVE IInv'
<1>0. UNCHANGED <<gram, data, vstack, rstack, cur, res>>
  BY DEF ParseSeqExpr
<1>1. ASSUME Entered("seq"), UNCHANGED pt, NEW val, NEW e, Call(Later(Top, 1, val), e)
      PROVE  IInv'
  <2>1. AtEntry("seq")
    BY <1>1, EnteredFacts
  <2>2. Deep(vstack', Top.v + Scopes(Top)) /\ Deep(rstack', Top.r + RuleScopes(Top))
    BY <1>0, <2>1, PlainCall
  <2> DEFINE f == Later(Top, 1, val)
  <2>3. /\ f.e = Top.e /\ f.pt = Top.pt /\ f.v = Top.v /\ f.r = Top.r /\ f.i = 1
        /\ Call(f, e)
    <3>1. f.e = Top.e /\ f.pt = Top.pt /\ f.v = Top.v /\ f.r = Top.r /\ f.i = 1
      BY DEF Later
    <3>2. Call(f, e)
      BY <1>1
    <3>3. QED
      BY <3>1, <3>2, Zenon
  <2> HIDE DEF f
  <2>4. CallStep(f, e)
    <3>1. f.i \in Nat
      BY <2>3
    <3>2. Busy /\ pt.offset = Top.pt.offset
      BY <2>1 DEF AtEntry
    <3>3. QED
      BY <1>0, <1>1, <2>2, <2>3, <3>1, <3>2, ZenonT(30) DEF CallStep
  <2>5. QED
    BY <2>4, CallPreserves
<1>2. ASSUME Resumed("seq")
      PROVE  /\ AtResult("seq")
             /\ Deep(vstack', Top.v) /\ Deep(rstack', Top.r)
             /\ Deep(vstack', Top.v + Scopes(Top)) /\ Deep(rstack', Top.r + RuleScopes(Top))
  <2>1. AtResult("seq")
    BY <1>2, ResumedFacts
  <2>2. QED
    BY <1>0, <2>1, PlainResult
<1>3. ASSUME Resumed("seq"), UNCHANGED pt, NEW val, NEW e, Call(Later(Top, Top.i + 1, val), e)
      PROVE  IInv'
  <2> DEFINE f == Later(Top, Top.i + 1, val)
  <2>1. f.e = Top.e /\ f.pt = Top.pt /\ f.v = Top.v /\ f.r = Top.r /\ f.i = Top.i + 1
    BY DEF Later
  <2>2. Call(f, e)
    BY <1>3
  <2> HIDE DEF f
  <2>3. AtResult("seq")
    BY <1>2, <1>3
  <2>4. f.i \in Nat /\ ~Anchored(f)
    BY <2>1, <2>3 DEF AtResult, Anchored
  <2>5. Deep(vstack', Top.v + Scopes(Top)) /\ Deep(rstack', Top.r + RuleScopes(Top))
    BY <1>2, <1>3
  <2>6. CallStep(f, e)
    BY <1>0, <1>3, <2>1, <2>2, <2>3, <2>4, <2>5, ZenonT(30) DEF CallStep, AtResult
  <2>7. QED
    BY <2>6, CallPreserves
<1>4. ASSUME Resumed("seq"), UNCHANGED pt, NEW val, Return(TRUE, val)
      PROVE  IInv'
  <2>1. AtResult("seq") /\ Deep(vstack', Top.v) /\ Deep(rstack', Top.r)
    BY <1>2, <1>4
  <2>2. ReturnStep(TRUE, val)
    BY <1>0, <1>4, <2>1, ZenonT(30) DEF ReturnStep, AtResult
  <2>3. QED
    BY <2>2, ReturnPreserves
<1>5. ASSUME Resumed("seq"), pt' = Restore(Top.pt), NEW val, Return(FALSE, val)
      PROVE  IInv'
  <2>1. AtResult("seq") /\ Deep(vstack', Top.v) /\ Deep(rstack', Top.r)
    BY <1>2, <1>5
  <2>2. Place(pt') /\ pt'.offset = Top.pt.offset
    BY <1>5, <2>1, RestorePlace DEF AtResult
  <2>3. pt'.offset >= Top.pt.offset
    <3>1. Top.pt.offset \in Nat
      BY <2>1 DEF AtResult
    <3>2. QED
      BY <2>2, <3>1
  <2>4. ReturnStep(FALSE, val)
    BY <1>0, <1>5, <2>1, <2>2, <2>3, ZenonT(30) DEF ReturnStep, AtResult
  <2>5. QED
    BY <2>4, ReturnPreserves
<1>6. QED
  BY <1>1, <1>3, <1>4, <1>5 DEF ParseSeqExpr

\* The repetitions go on or return, and change no position themselves.
LEMMA RepeatPreserves ==
    ASSUME IInv, NEW op, NEW min \in Nat, NEW again,
           (op = "oneOrMore" /\ min = 1) \/ (op \in {"zeroOrMore", "zeroOrOne"} /\ min = 0),
           ParseRepeat(op, min, again)
    PROVE  IInv'
<1>0. /\ UNCHANGED <<gram, data, pt, vstack, rstack, cur, res>>
      /\ op # "lit" /\ op \notin {"rule", "choice", "labeled", "action"}
  BY DEF ParseRepeat
<1>1. CASE Entered(op) /\ Call(Top, Top.e.kids[1])
  <2>1. AtEntry(op)
    BY <1>1, EnteredFacts
  <2>2. Deep(vstack', Top.v + Scopes(Top)) /\ Deep(rstack', Top.r + RuleScopes(Top))
    BY <1>0, <2>1, PlainCall
  <2>3. CallStep(Top, Top.e.kids[1])
    BY <1>0, <1>1, <2>1, <2>2, ZenonT(30) DEF CallStep, AtEntry
  <2>4. QED
    BY <2>3, CallPreserves
<1>2. ASSUME Resumed(op)
      PROVE  /\ AtResult(op)
             /\ Deep(vstack', Top.v) /\ Deep(rstack', Top.r)
             /\ Deep(vstack', Top.v + Scopes(Top)) /\ Deep(rstack', Top.r + RuleScopes(Top))
  <2>1. AtResult(op)
    BY <1>2, ResumedFacts
  <2>2. QED
    BY <1>0, <2>1, PlainResult
<1>3. ASSUME Resumed(op), NEW val, NEW e, Call(Later(Top, 1, val), e)
      PROVE  IInv'
  <2> DEFINE f == Later(Top, 1, val)
  <2>1. f.e = Top.e /\ f.pt = Top.pt /\ f.v = Top.v /\ f.r = Top.r /\ f.i = 1
    BY DEF Later
  <2>2. Call(f, e)
    BY <1>3
  <2> HIDE DEF f
  <2>3. AtResult(op)
    BY <1>2, <1>3
  <2>4. f.i \in Nat /\ ~Anchored(f)
    BY <1>0, <2>1, <2>3 DEF AtResult, Anchored
  <2>5. Deep(vstack', Top.v + Scopes(Top)) /\ Deep(rstack', Top.r + RuleScopes(Top))
    BY <1>2, <1>3
  <2>6. CallStep(f, e)
    BY <1>0, <2>1, <2>2, <2>3, <2>4, <2>5, ZenonT(30) DEF CallStep, AtResult
  <2>7. QED
    BY <2>6, CallPreserves
<1>4. ASSUME Resumed(op), NEW val, Return(ret.st = "ok" \/ Top.i >= min, val)
      PROVE  IInv'
  <2> DEFINE ok == ret.st = "ok" \/ Top.i >= min
  <2>1. AtResult(op) /\ Deep(vstack', Top.v) /\ Deep(rstack', Top.r)
    BY <1>2, <1>4
  <2>2. ret.st \in {"ok", "fail"} /\ Top.i \in Nat /\ Top.e.op = op
    BY <2>1 DEF AtResult
  <2>3. ~ok => ret.st = "fail" /\ op = "oneOrMore" /\ Top.i = 0
    BY <2>2
  <2>4. ~ok => Anchored(Top) /\ ret.st = "fail"
    BY <2>2, <2>3 DEF Anchored
  <2>5. Return(ok, val)
    BY <1>4
  <2> HIDE DEF ok
  <2>6. ~ok => pt.offset = Top.pt.offset
    BY <2>1, <2>4 DEF AtResult
  <2>7. ReturnStep(ok, val)
    BY <1>0, <2>1, <2>5, <2>6, ZenonT(30) DEF ReturnStep, AtResult
  <2>8. QED
    BY <2>7, ReturnPreserves
<1>5. QED
  BY <1>1, <1>3, <1>4 DEF ParseRepeat

\* A literal advances rune by rune, and starts over when a rune differs.
LEMMA LitPreserves == ASSUME IInv, ParseLitMatcher PROVE IInv'
<1>0. AtEntry("lit") /\ UNCHANGED <<gram, data, vstack, rstack, cur, res>>
  BY EnteredFacts DEF ParseLitMatcher
<1>1. CASE Return(TRUE, Str(Top.val)) /\ UNCHANGED pt
  <2>1. ReturnStep(TRUE, Str(Top.val))
    BY <1>0, <1>1, ZenonT(30) DEF ReturnStep, AtEntry
  <2>2. QED
    BY <2>1, ReturnPreserves
<1>2. ASSUME NEW val, stack' = Append(Below, Later(Top, Top.i + 1, val)), Advance, UNCHANGED ret
      PROVE  IInv'
  <2> DEFINE f == Later(Top, Top.i + 1, val)
  <2>1. f.e = Top.e /\ f.pt = Top.pt /\ f.v = Top.v /\ f.r = Top.r /\ f.i = Top.i + 1
    BY DEF Later
  <2>2. stack' = Append(Below, f)
    BY <1>2
  <2> HIDE DEF f
  <2>3. Place(pt') /\ pt'.offset >= pt.offset
    BY <1>0, <1>2, ReadPlace DEF AtEntry, Advance
  <2>4. f.i \in Nat /\ f.e.op = "lit" /\ ~Outermost
    <3>1. Top.i \in Nat
      BY <1>0, ZenonT(30) DEF AtEntry
    <3>2. Top.e.op = "lit" /\ ~Outermost
      BY <1>0, ZenonT(30) DEF AtEntry
    <3>3. f.i \in Nat
      BY <2>1, <3>1
    <3>4. QED
      BY <2>1, <3>2, <3>3, ZenonT(30)
  <2>5. SameStep(f)
    BY <1>0, <1>2, <2>1, <2>2, <2>3, <2>4 DEF SameStep, AtEntry
  <2>6. QED
    BY <2>5, SamePreserves
<1>3. ASSUME NEW val, pt' = Restore(Top.pt), Return(FALSE, val)
      PROVE  IInv'
  <2>1. Place(pt') /\ pt'.offset = Top.pt.offset
    BY <1>0, <1>3, RestorePlace DEF AtEntry
  <2>2. pt'.offset >= Top.pt.offset
    <3>1. Top.pt.offset \in Nat
      BY <1>0 DEF AtEntry
    <3>2. QED
      BY <2>1, <3>1
  <2>3. ReturnStep(FALSE, val)
    BY <1>0, <1>3, <2>1, <2>2, ZenonT(30) DEF ReturnStep, AtEntry
  <2>4. QED
    BY <2>3, ReturnPreserves
<1>4. QED
  BY <1>1, <1>2, <1>3 DEF ParseLitMatcher

\* A matcher of one rune advances when it matches.
LEMMA MatchPreserves ==
    ASSUME IInv, NEW op, op # "lit", Entered(op), UNCHANGED <<gram, data, vstack, rstack, cur, res>>,
           \/ \E val : Advance /\ Return(TRUE, val)
           \/ Return(FALSE, Nil) /\ UNCHANGED pt
    PROVE  IInv'
<1>0. AtEntry(op)
  BY EnteredFacts
<1>1. CASE \E val : Advance /\ Return(TRUE, val)
  <2>1. PICK val : Advance /\ Return(TRUE, val)
    BY <1>1
  <2>2. Place(pt') /\ pt'.offset >= pt.offset
    BY <1>0, <2>1, ReadPlace DEF AtEntry, Advance
  <2>3. pt'.offset >= Top.pt.offset
    BY <1>0, <2>2 DEF AtEntry
  <2>4. ReturnStep(TRUE, val)
    BY <1>0, <2>1, <2>2, <2>3, ZenonT(30) DEF ReturnStep, AtEntry
  <2>5. QED
    BY <2>4, ReturnPreserves
<1>2. CASE Return(FALSE, Nil) /\ UNCHANGED pt
  <2>1. ReturnStep(FALSE, Nil)
    BY <1>0, <1>2, ZenonT(30) DEF ReturnStep, AtEntry
  <2>2. QED
    BY <2>1, ReturnPreserves
<1>3. QED
  BY <1>1, <1>2

\* parse calls parseRule for the first rule, without a scope.
LEMMA ParsePreserves == ASSUME IInv, Parse PROVE IInv'
<1>0. /\ UNCHANGED <<gram, data, ret, vstack, rstack, cur>>
      /\ res.st = "pending" /\ stack = <<>> /\ ret.st = "none"
      /\ vstack = <<>> /\ rstack = <<>>
  BY DEF IInv, Ending, Parse
<1>1. Positions' = Positions
  BY <1>0 DEF Positions
<1>2. IsSeq(<<>>) /\ Len(<<>>) = 0 /\ DOMAIN <<>> = 1 .. 0
  BY DEF IsSeq
<1>3. IsSeq(data) /\ Len(data) \in Nat /\ Place(pt)
  BY SeqEmpty DEF IInv, Seqs, Placed
<1>4. CASE res' = [st |-> "fail", val |-> Nil] /\ UNCHANGED <<pt, stack>>
  <2>1. TypeOK' /\ Placed' /\ Seqs'
    BY <1>0, <1>1, <1>2, <1>4 DEF IInv, TypeOK, Placed, Place, Seqs
  <2>2. OffsetsNested' /\ Chain' /\ Bottom' /\ Calling'
    BY <1>0, <1>2, <1>4 DEF IInv, OffsetsNested, Chain, Bottom, Calling
  <2>3. Returning' /\ FailRestores' /\ Ending'
    BY <1>0, <1>4 DEF Returning, FailRestores, Ending
  <2>4. QED
    BY <2>1, <2>2, <2>3 DEF IInv
<1>5. CASE /\ Rules # <<>> /\ Advance /\ UNCHANGED res
           /\ stack' = <<[e |-> Rules[1], i |-> 0, pt |-> pt', val |-> <<>>, v |-> 0, r |-> 0]>>
  <2> DEFINE f == [e |-> Rules[1], i |-> 0, pt |-> pt', val |-> <<>>, v |-> 0, r |-> 0]
  <2>1. /\ f.e.op = "rule" /\ f.i = 0 /\ f.pt = pt' /\ f.v = 0 /\ f.r = 0
    BY <1>5, GrammarAssumption DEF IInv, TypeOK, Rules
  <2>2. Place(pt')
    BY <1>3, <1>5, ReadPlace DEF Advance
  <2>3. stack' = <<f>>
    BY <1>5
  <2> HIDE DEF f
  <2>4. /\ IsSeq(stack') /\ Len(stack') = 1 /\ stack'[1] = f /\ stack' # <<>>
        /\ DOMAIN stack' = {1} /\ Top' = f
    <3>1. <<f>> \in Seq({f}) /\ Len(<<f>>) = 1 /\ <<f>>[1] = f /\ <<f>> # <<>>
      OBVIOUS
    <3>2. IsSeq(<<f>>)
      BY <3>1 DEF IsSeq
    <3>3. DOMAIN <<f>> = 1 .. 1
      BY <3>1
    <3>4. Top' = f
      BY <2>3, <3>1 DEF Top
    <3>5. QED
      BY <2>3, <3>1, <3>2, <3>3, <3>4
  <2>5. pt' \in Positions /\ pt'.offset \in Nat
    BY <1>3, <2>2, PositionFields DEF Place
  <2>6. TypeOK'
    <3>1. \A k \in DOMAIN stack' :
             /\ stack'[k].pt \in Positions /\ stack'[k].i \in Nat
             /\ stack'[k].v \in Nat /\ stack'[k].r \in Nat
      BY <2>1, <2>4, <2>5
    <3>2. /\ gram' = gram /\ data' = data /\ ret' = ret /\ cur' = cur /\ res' = res
      BY <1>0, <1>5
    <3>3. QED
      BY <1>1, <2>5, <3>1, <3>2 DEF IInv, TypeOK
  <2>7. Placed' /\ Seqs'
    <3>1. Place(pt)' /\ \A k \in 1 .. Len(stack') : Place(stack[k].pt)'
      BY <1>0, <1>1, <2>1, <2>2, <2>4 DEF Place
    <3>2. Seqs'
      BY <1>0, <1>2, <1>3, <2>4 DEF Seqs
    <3>3. QED
      BY <3>1, <3>2 DEF Placed
  <2>8. OffsetsNested' /\ Chain' /\ Bottom' /\ Calling'
    <3>1. OffsetsNested'
      <4>1. cur'.from <= cur'.to
        BY <1>0 DEF IInv, OffsetsNested
      <4>2. f.pt.offset <= pt'.offset /\ f.pt.offset <= f.pt.offset
        BY <2>1, <2>5
      <4>3. QED
        BY <2>4, <4>1, <4>2 DEF OffsetsNested
    <3>2. Chain'
      BY <2>4 DEF Chain
    <3>3. Bottom'
      BY <2>1, <2>4 DEF Bottom
    <3>4. Calling'
      BY <1>0, <1>2, <2>1, <2>4 DEF Calling
    <3>5. QED
      BY <3>1, <3>2, <3>3, <3>4
  <2>9. Returning' /\ FailRestores' /\ Ending'
    BY <1>0, <1>5, <2>4 DEF Returning, FailRestores, Ending
  <2>10. QED
    BY <2>6, <2>7, <2>8, <2>9 DEF IInv
<1>6. QED
  BY <1>4, <1>5 DEF Parse

\* parse returns when the first rule has.
LEMMA ParseEndPreserves == ASSUME IInv, ParseEnd PROVE IInv'
<1>1. /\ UNCHANGED <<gram, data, pt, stack, ret, vstack, rstack, cur>>
      /\ res.st = "pending" /\ stack = <<>> /\ ret.st # "none"
      /\ res'.st = ret.st /\ ret.st \in {"ok", "fail"}
  BY DEF IInv, TypeOK, ParseEnd
<1>2. Positions' = Positions
  BY <1>1 DEF Positions
<1>3. Len(vstack) = 0 /\ Len(rstack) = 0
  BY <1>1 DEF IInv, Returning
<1>4. vstack = <<>> /\ rstack = <<>>
  BY <1>3, SeqEmpty DEF IInv, Seqs
<1>5. TypeOK' /\ Placed' /\ Seqs'
  BY <1>1, <1>2 DEF IInv, TypeOK, Placed, Place, Seqs
<1>6. OffsetsNested' /\ Chain' /\ Bottom' /\ Calling'
  BY <1>1 DEF IInv, OffsetsNested, Chain, Bottom, Calling, Top
<1>7. Returning' /\ FailRestores' /\ Ending'
  BY <1>1, <1>4 DEF IInv, Returning, FailRestores, Ending
<1>8. QED
  BY <1>5, <1>6, <1>7 DEF IInv

\* A step that changes nothing.
LEMMA StutterPreserves == ASSUME IInv, UNCHANGED vars PROVE IInv'
<1>1. /\ gram' = gram /\ data' = data /\ pt' = pt /\ stack' = stack /\ ret' = ret
      /\ vstack' = vstack /\ rstack' = rstack /\ cur' = cur /\ res' = res
  BY DEF vars
<1>2. Positions' = Positions
  BY <1>1 DEF Positions
<1>3. TypeOK'
  BY <1>1, <1>2 DEF IInv, TypeOK
<1>4. Placed' /\ Seqs'
  BY <1>1, <1>2 DEF IInv, Placed, Place, Seqs
<1>5. OffsetsNested' /\ FailRestores' /\ Ending'
  BY <1>1 DEF IInv, OffsetsNested, FailRestores, Ending
<1>6. Chain' /\ Bottom'
  BY <1>1 DEF IInv, Chain, Bottom
<1>7. Calling' /\ Returning'
  BY <1>1 DEF IInv, Calling, Returning, Top
<1>8. QED
  BY <1>3, <1>4, <1>5, <1>6, <1>7 DEF IInv

-----------------------------------------------------------------------------
(* Theorems *)

\* The inductive invariant holds in every state of every parse.
THEOREM PegInvariant == Spec => []IInv
<1>1. Init => IInv
  BY InitIInv
<1>2. IInv /\ [Next]_vars => IInv'
  <2> SUFFICES ASSUME IInv, [Next]_vars PROVE IInv'
    OBVIOUS
  <2>1. CASE Parse
    BY <2>1, ParsePreserves
  <2>2. CASE ParseEnd
    BY <2>2, ParseEndPreserves
  <2>3. CASE ParseRule
    BY <2>3, RulePreserves
  <2>4. CASE ParseRuleRefExpr
    BY <2>4, RuleRefPreserves
  <2>5. CASE ParseActionExpr
    BY <2>5, ActionPreserves
  <2>6. CASE ParseAndCodeExpr
    BY <2>6, CodePreserves DEF ParseAndCodeExpr
  <2>7. CASE ParseNotCodeExpr
    BY <2>7, CodePreserves DEF ParseNotCodeExpr
  <2>8. CASE ParseAndExpr
    BY <2>8, LookaheadPreserves DEF ParseAndExpr
  <2>9. CASE ParseNotExpr
    BY <2>9, LookaheadPreserves DEF ParseNotExpr
  <2>10. CASE ParseChoiceExpr
    BY <2>10, ChoicePreserves
  <2>11. CASE ParseLabeledExpr
    BY <2>11, LabeledPreserves
  <2>12. CASE ParseSeqExpr
    BY <2>12, SeqPreserves
  <2>13. CASE ParseZeroOrMoreExpr
    BY <2>13, RepeatPreserves DEF ParseZeroOrMoreExpr
  <2>14. CASE ParseOneOrMoreExpr
    BY <2>14, RepeatPreserves DEF ParseOneOrMoreExpr
  <2>15. CASE ParseZeroOrOneExpr
    BY <2>15, RepeatPreserves DEF ParseZeroOrOneExpr
  <2>16. CASE ParseLitMatcher
    BY <2>16, LitPreserves
  <2>17. CASE ParseCharClassMatcher
    BY <2>17, MatchPreserves DEF ParseCharClassMatcher
  <2>18. CASE ParseAnyMatcher
    BY <2>18, MatchPreserves DEF ParseAnyMatcher
  <2>19. CASE Terminating \/ UNCHANGED vars
    BY <2>19, StutterPreserves DEF Terminating
  <2>20. QED
    BY <2>1, <2>2, <2>3, <2>4, <2>5, <2>6, <2>7, <2>8, <2>9, <2>10, <2>11, <2>12,
       <2>13, <2>14, <2>15, <2>16, <2>17, <2>18, <2>19 DEF Next
<1>3. QED
  BY <1>1, <1>2, PTL DEF Spec

\* No parser of the package reads or saves a position past the end of its
\* input.
THEOREM PegTypeCorrect == Spec => []TypeOK
<1>1. IInv => TypeOK
  BY DEF IInv
<1>2. QED
  BY <1>1, PegInvariant, PTL

\* No slice of the input that parseActionExpr takes ends before it starts.
THEOREM PegOffsetsNested == Spec => []OffsetsNested
<1>1. IInv => OffsetsNested
  BY DEF IInv
<1>2. QED
  BY <1>1, PegInvariant, PTL

\* A parse function that fails has consumed nothing, for every grammar.
THEOREM PegFailRestores == Spec => []FailRestores
<1>1. IInv => FailRestores
  BY DEF IInv
<1>2. QED
  BY <1>1, PegInvariant, PTL

\* pushV and popV are balanced, and no code block or label finds vstack empty.
THEOREM PegScopeBalanced == Spec => []ScopeBalanced
<1>1. ASSUME IInv PROVE ScopeBalanced
  <2>1. ret.st # "none" => Len(vstack) = ret.v /\ Len(rstack) = ret.r
    BY <1>1 DEF IInv, Returning
  <2>2. res.st \in {"ok", "fail"} => vstack = <<>> /\ rstack = <<>>
    BY <1>1 DEF IInv, Ending
  <2>3. ASSUME NEW op \in {"andCode", "notCode"}, Entered(op)
        PROVE  vstack # <<>>
    <3>1. AtEntry(op)
      BY <1>1, <2>3, EnteredFacts
    <3>2. IsSeq(vstack) /\ Len(vstack) = Top.v /\ Top.v >= 1
      BY <3>1 DEF AtEntry, Deep
    <3>3. QED
      BY <3>2, SeqEmpty
  <2>4. ASSUME Resumed("action")
        PROVE  vstack # <<>>
    <3>1. AtResult("action")
      BY <1>1, <2>4, ResumedFacts
    <3>2. IsSeq(vstack) /\ Len(vstack) = Top.v + 0 /\ Top.v >= 1 /\ Top.v \in Nat
      BY <3>1 DEF AtResult, Scopes, Deep
    <3>3. QED
      BY <3>2, SeqEmpty
  <2>5. ASSUME Resumed("labeled")
        PROVE  Len(vstack) > 1
    <3>1. AtResult("labeled")
      BY <1>1, <2>5, ResumedFacts
    <3>2. Len(vstack) = Top.v + 1 /\ Top.v >= 1 /\ Top.v \in Nat
      BY <3>1 DEF AtResult, Scopes, Deep
    <3>3. QED
      BY <3>2
  <2>6. QED
    BY <2>1, <2>2, <2>3, <2>4, <2>5 DEF ScopeBalanced
<1>2. QED
  BY <1>1, PegInvariant, PTL

-----------------------------------------------------------------------------
(* The labels in scope *)

\* The expression of the call that f has made.
Cur(f) == IF f.e.op \in {"seq", "choice"} THEN f.e.kids[f.i] ELSE f.e.kids[1]

\* The labels that the calls of f that are over have added to its scope.
Own(f) == IF f.e.op = "seq" THEN ArgsUpTo(f.e, f.i - 1) ELSE {}

\* The labels that the call made by f finds, when f has found the labels a.
Inner(f, a) == IF Scopes(f) = 1 THEN {} ELSE a \cup Own(f)

\* The labels that a match of e adds to the scope it finds.
Adds(e) == IF e.op = "rule" THEN {} ELSE NewArgs(e)

\* The builder went through the expression of f, in grammar g, with the labels a.
Known(g, f, a) ==
    IF f.e.op = "rule" THEN WriteCall(f.e.kids[1], {}) \in CodeCalls[g]
    ELSE WriteCall(f.e, a) \in CodeCalls[g]

\* f has called the function for one of its expressions.
Waits(f) == f.e.op \in {"seq", "choice"} => f.i \in 1 .. Len(f.e.kids)

Labels == DOMAIN Scope

\* A call that found the labels w has left these: all that its expression adds
\* if it has matched, some of them if it has failed.
Found(w, new, ok, labels) ==
    /\ w \subseteq labels /\ labels \subseteq w \cup new
    /\ ok => labels = w \cup new

\* A[k] are the labels that the k-th call in progress has found.
KnownFrames(A) == \A k \in 1 .. Len(stack) : Known(gram, stack[k], A[k])

Awaiting(A) ==
    \A k \in 1 .. Len(stack) - 1 :
        /\ Waits(stack[k])
        /\ A[k + 1] = Inner(stack[k], A[k])
        /\ Adds(stack[k + 1].e) = Adds(Cur(stack[k]))

Depths ==
    \A j, k \in 1 .. Len(stack) : j < k => stack[j].v + Scopes(stack[j]) <= stack[k].v

\* A call that has opened a scope has found the scope below as it still is.
Outer(A) ==
    \A k \in 1 .. Len(stack) :
        (k < Len(stack) \/ ret.st # "none") /\ Scopes(stack[k]) = 1 /\ stack[k].v >= 1 =>
            DOMAIN vstack[stack[k].v] = A[k]

Here(A) ==
    stack # <<>> =>
        /\ ret.st = "none" /\ Top.v >= 1 => Labels = A[Len(stack)]
        /\ ret.st # "none" =>
              /\ Waits(Top)
              /\ Found(Inner(Top, A[Len(stack)]), Adds(Cur(Top)), ret.st = "ok", Labels)

ScopeState(A) == KnownFrames(A) /\ Awaiting(A) /\ Depths /\ Outer(A) /\ Here(A)

ScopeInv == gram \in DOMAIN Funcs => \E A : ScopeState(A)

\* What the step leaves of the scopes below those of the innermost call.
BelowKept == \A j \in 1 .. Top.v - 1 : vstack'[j] = vstack[j]

\* The depths of the calls are numbers.
LEMMA DepthsNat == ASSUME IInv PROVE \A k \in 1 .. Len(stack) : stack[k].v \in Nat
<1>1. DOMAIN stack = 1 .. Len(stack)
  BY SeqEmpty DEF IInv, Seqs
<1>2. QED
  BY <1>1 DEF IInv, TypeOK

\* A call of the innermost one, now f, hands on the labels as the builder does.
LEMMA ScopeCall ==
    ASSUME IInv, IInv', gram' = gram, NEW A, ScopeState(A), stack # <<>>,
           NEW f, NEW e, Call(f, e), f.e = Top.e, f.v = Top.v,
           e = Cur(f), Waits(f), BelowKept,
           e.op # "rule", WriteCall(e, Inner(f, A[Len(stack)])) \in CodeCalls[gram],
           Labels' = Inner(f, A[Len(stack)]),
           Scopes(f) = 1 /\ Top.v >= 1 => DOMAIN vstack'[Top.v] = A[Len(stack)]
    PROVE  \E B : ScopeState(B)'
<1> DEFINE n == Len(stack)
<1> DEFINE g == Frame(e)
<1>1. /\ n \in Nat /\ n >= 1 /\ Len(stack') = n + 1
      /\ \A k \in 1 .. n - 1 : stack'[k] = stack[k]
      /\ stack'[n] = f /\ stack'[n + 1] = g
  BY StackCall DEF IInv, Seqs, Call
<1>2. /\ g.e = e /\ Top = stack[n] /\ Top' = g /\ ret'.st = "none"
      /\ Scopes(f) = Scopes(Top)
  BY <1>1 DEF Frame, Top, Call, NoRet, Scopes
<1> HIDE DEF g
<1>3. g.v = Top.v + Scopes(Top) /\ Top.v \in Nat /\ Scopes(Top) \in {0, 1}
  <2>1. Link(stack'[n], stack'[n + 1].pt.offset, stack'[n + 1].v, stack'[n + 1].r)
    BY <1>1 DEF IInv, Chain
  <2>2. Top.v \in Nat
    BY <1>1, <1>2, DepthsNat
  <2>3. QED
    BY <1>1, <1>2, <2>1, <2>2 DEF Link, Scopes
<1>4. PICK B : B = [k \in 1 .. n + 1 |-> IF k <= n THEN A[k] ELSE Inner(f, A[n])]
  OBVIOUS
<1>5. (\A k \in 1 .. n : B[k] = A[k]) /\ B[n + 1] = Inner(f, A[n])
  BY <1>1, <1>4
<1> HIDE DEF n
<1>6. KnownFrames(B)'
  <2> SUFFICES ASSUME NEW k \in 1 .. n + 1
               PROVE  Known(gram, stack'[k], B[k])
    BY <1>1 DEF KnownFrames, Known
  <2>1. CASE k = n + 1
    BY <2>1, <1>1, <1>2, <1>5 DEF Known, n
  <2>2. CASE k = n
    <3>1. Known(gram, stack[n], A[n])
      BY <1>1 DEF ScopeState, KnownFrames, n
    <3>2. QED
      BY <3>1, <2>2, <1>1, <1>2, <1>5 DEF Known
  <2>3. CASE k \in 1 .. n - 1
    <3>1. Known(gram, stack[k], A[k]) /\ stack'[k] = stack[k] /\ B[k] = A[k]
      BY <2>3, <1>1, <1>5 DEF ScopeState, KnownFrames, n
    <3>2. QED
      BY <3>1 DEF Known
  <2>4. QED
    BY <1>1, <2>1, <2>2, <2>3
<1>7. Awaiting(B)'
  <2> SUFFICES ASSUME NEW k \in 1 .. n
               PROVE  /\ Waits(stack'[k])
                      /\ B[k + 1] = Inner(stack'[k], B[k])
                      /\ Adds(stack'[k + 1].e) = Adds(Cur(stack'[k]))
    <3>1. Len(stack') - 1 = n
      BY <1>1
    <3>2. QED
      BY <3>1, ZenonT(30) DEF Awaiting, Waits, Inner, Adds, Cur, Own, Scopes
  <2>1. CASE k = n
    BY <2>1, <1>1, <1>2, <1>5 DEF n
  <2>2. CASE k \in 1 .. n - 1
    <3>1. /\ Waits(stack[k]) /\ A[k + 1] = Inner(stack[k], A[k])
          /\ Adds(stack[k + 1].e) = Adds(Cur(stack[k]))
      BY <2>2 DEF ScopeState, Awaiting, n
    <3>2. stack'[k] = stack[k] /\ B[k] = A[k] /\ B[k + 1] = A[k + 1]
      BY <2>2, <1>1, <1>5
    <3>3. stack'[k + 1].e = stack[k + 1].e
      <4>1. CASE k + 1 = n
        BY <4>1, <1>1, <1>2
      <4>2. CASE k + 1 \in 1 .. n - 1
        BY <4>2, <1>1
      <4>3. QED
        BY <4>1, <4>2, <2>2, <1>1
    <3>4. QED
      BY <3>1, <3>2, <3>3
  <2>3. QED
    BY <1>1, <2>1, <2>2
<1>8. Depths'
  <2> SUFFICES ASSUME NEW j \in 1 .. n + 1, NEW k \in 1 .. n + 1, j < k
               PROVE  stack'[j].v + Scopes(stack'[j]) <= stack'[k].v
    BY <1>1 DEF Depths, Scopes
  <2>1. j \in 1 .. n /\ (k = n + 1 \/ k \in 1 .. n)
    BY <1>1
  <2>2. \A i \in 1 .. n : stack'[i].v = stack[i].v /\ Scopes(stack'[i]) = Scopes(stack[i])
    <3> SUFFICES ASSUME NEW i \in 1 .. n
                 PROVE  stack'[i].v = stack[i].v /\ Scopes(stack'[i]) = Scopes(stack[i])
      OBVIOUS
    <3>1. i = n \/ i \in 1 .. n - 1
      BY <1>1
    <3>2. QED
      BY <3>1, <1>1, <1>2
  <2>3. CASE k \in 1 .. n
    BY <2>1, <2>2, <2>3 DEF ScopeState, Depths, n
  <2>4. CASE k = n + 1
    <3>1. stack'[k].v = Top.v + Scopes(Top)
      BY <2>4, <1>1, <1>3
    <3>2. CASE j = n
      BY <3>1, <3>2, <2>2, <1>1, <1>2, <1>3
    <3>3. CASE j \in 1 .. n - 1
      <4>1. stack[j].v + Scopes(stack[j]) <= Top.v
        BY <3>3, <1>1, <1>2 DEF ScopeState, Depths, n
      <4>2. stack[j].v \in Nat /\ Scopes(stack[j]) \in {0, 1}
        BY <2>1, DepthsNat DEF Scopes, n
      <4>3. QED
        BY <3>1, <4>1, <4>2, <2>1, <2>2, <1>3
    <3>4. QED
      BY <3>2, <3>3, <2>1, <1>1
  <2>5. QED
    BY <2>1, <2>3, <2>4
<1>9. Outer(B)'
  <2> SUFFICES ASSUME NEW k \in 1 .. n + 1, k < n + 1,
                      Scopes(stack'[k]) = 1, stack'[k].v >= 1
               PROVE  DOMAIN vstack'[stack'[k].v] = B[k]
    BY <1>1, <1>2 DEF Outer, Scopes
  <2>1. CASE k = n
    BY <2>1, <1>1, <1>2, <1>5 DEF n
  <2>2. CASE k \in 1 .. n - 1
    <3>1. stack'[k] = stack[k] /\ B[k] = A[k]
      BY <2>2, <1>1, <1>5
    <3>2. DOMAIN vstack[stack[k].v] = A[k]
      BY <3>1, <2>2 DEF ScopeState, Outer, n
    <3>3. stack[k].v + 1 <= Top.v
      BY <3>1, <2>2, <1>1, <1>2 DEF ScopeState, Depths, n
    <3>4. stack[k].v \in Nat
      BY <2>2, <1>1, DepthsNat DEF n
    <3>5. stack[k].v \in 1 .. Top.v - 1
      BY <3>1, <3>3, <3>4, <1>3
    <3>6. QED
      BY <3>1, <3>2, <3>5 DEF BelowKept
  <2>3. QED
    BY <1>1, <2>1, <2>2
<1>10. Here(B)'
  BY <1>1, <1>2, <1>5 DEF Here, n
<1>11. QED
  BY <1>6, <1>7, <1>8, <1>9, <1>10 DEF ScopeState

\* The innermost call returns: the one that made it finds what it has left.
LEMMA ScopeReturn ==
    ASSUME IInv, IInv', gram' = gram, NEW A, ScopeState(A), stack # <<>>,
           NEW ok \in BOOLEAN, NEW val, Return(ok, val), BelowKept,
           Len(stack) > 1 => Found(A[Len(stack)], Adds(Top.e), ok, Labels')
    PROVE  \E B : ScopeState(B)'
<1> DEFINE n == Len(stack)
<1>1. /\ n \in Nat /\ n >= 1 /\ Len(stack') = n - 1
      /\ \A k \in 1 .. n - 1 : stack'[k] = stack[k]
      /\ stack' = <<>> <=> n = 1
  BY StackReturn DEF IInv, Seqs, Return
<1>2. /\ Top = stack[n] /\ ret'.st # "none" /\ (ret'.st = "ok" <=> ok)
      /\ Top.v \in Nat
  BY <1>1, DepthsNat DEF Top, Return
<1> HIDE DEF n
<1>3. KnownFrames(A)'
  BY <1>1 DEF ScopeState, KnownFrames, Known, n
<1>4. Awaiting(A)'
  <2> SUFFICES ASSUME NEW k \in 1 .. n - 2
               PROVE  /\ Waits(stack'[k])
                      /\ A[k + 1] = Inner(stack'[k], A[k])
                      /\ Adds(stack'[k + 1].e) = Adds(Cur(stack'[k]))
    <3>1. Len(stack') - 1 = n - 2
      BY <1>1
    <3>2. QED
      BY <3>1, ZenonT(30) DEF Awaiting, Waits, Inner, Adds, Cur, Own, Scopes
  <2>1. k \in 1 .. n - 1 /\ k + 1 \in 1 .. n - 1
    BY <1>1
  <2>2. stack'[k] = stack[k] /\ stack'[k + 1] = stack[k + 1]
    BY <2>1, <1>1
  <2>3. QED
    BY <2>1, <2>2 DEF ScopeState, Awaiting, n
<1>5. Depths'
  <2> SUFFICES ASSUME NEW j \in 1 .. n - 1, NEW k \in 1 .. n - 1, j < k
               PROVE  stack'[j].v + Scopes(stack'[j]) <= stack'[k].v
    BY <1>1 DEF Depths, Scopes
  <2>1. stack'[j] = stack[j] /\ stack'[k] = stack[k] /\ j \in 1 .. n /\ k \in 1 .. n
    BY <1>1
  <2>2. QED
    BY <2>1 DEF ScopeState, Depths, n
<1>6. Outer(A)'
  <2> SUFFICES ASSUME NEW k \in 1 .. n - 1, Scopes(stack'[k]) = 1, stack'[k].v >= 1
               PROVE  DOMAIN vstack'[stack'[k].v] = A[k]
    BY <1>1, <1>2 DEF Outer, Scopes
  <2>1. stack'[k] = stack[k] /\ k \in 1 .. n /\ n \in 1 .. n /\ k < n
    BY <1>1
  <2>2. DOMAIN vstack[stack[k].v] = A[k]
    BY <2>1 DEF ScopeState, Outer, n
  <2>3. stack[k].v + 1 <= Top.v
    BY <2>1, <1>2 DEF ScopeState, Depths, n
  <2>4. stack[k].v \in 1 .. Top.v - 1
    BY <2>1, <2>3, <1>2, DepthsNat DEF n
  <2>5. QED
    BY <2>1, <2>2, <2>4 DEF BelowKept
<1>7. Here(A)'
  <2> SUFFICES ASSUME n # 1
               PROVE  /\ Waits(Top')
                      /\ Found(Inner(Top', A[n - 1]), Adds(Cur(Top')), ok, Labels')
    <3>1. Len(stack') = n - 1 /\ (stack' # <<>> <=> n # 1)
      BY <1>1
    <3>2. QED
      BY <3>1, <1>2, ZenonT(30) DEF Here, Waits, Found, Inner, Adds, Cur, Own, Scopes
  <2>1. n - 1 \in 1 .. n - 1 /\ n > 1 /\ (n - 1) + 1 = n
    BY <1>1
  <2>2. Top' = stack[n - 1]
    BY <2>1, <1>1 DEF Top
  <2>3. /\ Waits(stack[n - 1]) /\ A[n] = Inner(stack[n - 1], A[n - 1])
        /\ Adds(Top.e) = Adds(Cur(stack[n - 1]))
    BY <2>1, <1>2 DEF ScopeState, Awaiting, n
  <2>4. Found(A[n], Adds(Top.e), ok, Labels')
    BY <2>1 DEF n
  <2>5. QED
    BY <2>2, <2>3, <2>4
<1>8. QED
  BY <1>3, <1>4, <1>5, <1>6, <1>7 DEF ScopeState

\* The innermost call goes on as f: in parseRuleRefExpr as a call of parseRule.
LEMMA ScopeSame ==
    ASSUME IInv, IInv', gram' = gram, NEW A, ScopeState(A), stack # <<>>, ret.st = "none",
           UNCHANGED <<ret, vstack>>, NEW f, stack' = Append(Below, f), f.v = Top.v,
           Known(gram, f, A[Len(stack)]), Adds(f.e) = Adds(Top.e)
    PROVE  \E B : ScopeState(B)'
<1> DEFINE n == Len(stack)
<1>1. /\ n \in Nat /\ n >= 1 /\ Len(stack') = n
      /\ \A k \in 1 .. n - 1 : stack'[k] = stack[k]
      /\ stack'[n] = f /\ stack' # <<>>
  BY StackSame DEF IInv, Seqs
<1>2. Top = stack[n] /\ Top' = f /\ Top.v \in Nat
  BY <1>1, DepthsNat DEF Top
<1> HIDE DEF n
<1>3. KnownFrames(A)'
  <2> SUFFICES ASSUME NEW k \in 1 .. n
               PROVE  Known(gram, stack'[k], A[k])
    BY <1>1 DEF KnownFrames, Known
  <2>1. k = n \/ k \in 1 .. n - 1
    BY <1>1
  <2>2. QED
    BY <2>1, <1>1 DEF ScopeState, KnownFrames, n
<1>4. Awaiting(A)'
  <2> SUFFICES ASSUME NEW k \in 1 .. n - 1
               PROVE  /\ Waits(stack'[k])
                      /\ A[k + 1] = Inner(stack'[k], A[k])
                      /\ Adds(stack'[k + 1].e) = Adds(Cur(stack'[k]))
    <3>1. Len(stack') - 1 = n - 1
      BY <1>1
    <3>2. QED
      BY <3>1, ZenonT(30) DEF Awaiting, Waits, Inner, Adds, Cur, Own, Scopes
  <2>1. k + 1 = n \/ k + 1 \in 1 .. n - 1
    BY <1>1
  <2>2. Adds(stack'[k + 1].e) = Adds(stack[k + 1].e) /\ stack'[k] = stack[k]
    BY <2>1, <1>1, <1>2
  <2>3. QED
    BY <2>2 DEF ScopeState, Awaiting, n
<1>5. Depths'
  <2> SUFFICES ASSUME NEW j \in 1 .. n, NEW k \in 1 .. n, j < k
               PROVE  stack'[j].v + Scopes(stack'[j]) <= stack'[k].v
    BY <1>1 DEF Depths, Scopes
  <2>1. stack'[j] = stack[j] /\ (k = n \/ k \in 1 .. n - 1)
    BY <1>1
  <2>2. stack'[k].v = stack[k].v
    BY <2>1, <1>1, <1>2
  <2>3. QED
    BY <2>1, <2>2 DEF ScopeState, Depths, n
<1>6. Outer(A)'
  <2> SUFFICES ASSUME NEW k \in 1 .. n, k < n, Scopes(stack'[k]) = 1, stack'[k].v >= 1
               PROVE  DOMAIN vstack[stack'[k].v] = A[k]
    BY <1>1 DEF Outer, Scopes
  <2>1. stack'[k] = stack[k]
    BY <1>1
  <2>2. QED
    BY <2>1 DEF ScopeState, Outer, n
<1>7. Here(A)'
  <2>1. Top.v >= 1 => Labels = A[n]
    BY DEF ScopeState, Here, n
  <2>2. Labels' = Labels
    BY DEF Labels, Scope
  <2>3. QED
    BY <2>1, <2>2, <1>1, <1>2 DEF Here
<1>8. QED
  BY <1>3, <1>4, <1>5, <1>6, <1>7 DEF ScopeState

-----------------------------------------------------------------------------
(* What the builder has counted *)

\* The functions that make calls.
Holders == {"rule", "labeled", "choice", "seq", "action"} \cup Repeats

\* What the builder has counted for an expression it went through.
LEMMA BuilderKnows ==
    ASSUME gram \in DOMAIN Funcs, NEW e, NEW a, WriteCall(e, a) \in CodeCalls[gram]
    PROVE  /\ e.op # "rule"
           /\ e.op \in {"seq", "choice"} => Len(e.kids) \in Nat \ {0}
           /\ WriteCalls(WriteCall(e, a)) \subseteq CodeCalls[gram]
           /\ NewArgs(e) = AddArgs(e)
           /\ e.op \in Repeats => NewArgs(e) = {}
           /\ WriteFunc(gram, WriteCall(e, a))
<1>1. WriteCall(e, a).e = e
  BY DEF WriteCall
<1>2. QED
  BY <1>1, BuilderAssumption

\* The labels that one expression more of a sequence adds.
LEMMA ArgsNext ==
    ASSUME NEW e, NEW i \in Nat, NEW m \in Nat, i <= m
    PROVE  /\ ArgsUpTo(e, 0) = {}
           /\ i > 0 => ArgsUpTo(e, i) = ArgsUpTo(e, i - 1) \cup NewArgs(e.kids[i])
           /\ ArgsUpTo(e, i) \subseteq ArgsUpTo(e, m)
<1>1. ArgsUpTo(e, 0) = {}
  BY DEF ArgsUpTo
<1>2. ASSUME i > 0 PROVE ArgsUpTo(e, i) = ArgsUpTo(e, i - 1) \cup NewArgs(e.kids[i])
  <2>1. 1 .. i = (1 .. i - 1) \cup {i}
    BY <1>2
  <2>2. QED
    BY <2>1 DEF ArgsUpTo
<1>3. ArgsUpTo(e, i) \subseteq ArgsUpTo(e, m)
  <2>1. 1 .. i \subseteq 1 .. m
    OBVIOUS
  <2>2. QED
    BY <2>1 DEF ArgsUpTo
<1>4. QED
  BY <1>1, <1>2, <1>3

\* The builder goes through the expression that f calls the function for, with
\* the labels that this call finds.
LEMMA NextKnown ==
    ASSUME gram \in DOMAIN Funcs, NEW f, NEW a, Known(gram, f, a), Waits(f), f.e.op \in Holders
    PROVE  /\ WriteCall(Cur(f), Inner(f, a)) \in CodeCalls[gram]
           /\ Cur(f).op # "rule" /\ Adds(Cur(f)) = NewArgs(Cur(f))
<1> DEFINE c == WriteCall(f.e, a)
<1>1. c.e = f.e /\ c.args = a
  BY DEF WriteCall
<1>2. f.e.op # "rule" => WriteCalls(c) \subseteq CodeCalls[gram]
  BY BuilderKnows DEF Known
<1> HIDE DEF c
<1>3. WriteCall(Cur(f), Inner(f, a)) \in CodeCalls[gram]
  <2>1. CASE f.e.op = "rule"
    BY <2>1 DEF Known, Cur, Inner, Scopes
  <2>2. CASE f.e.op = "labeled"
    <3>1. WriteCalls(c) = {WriteCall(f.e.kids[1], {})}
      BY <2>2, <1>1 DEF WriteCalls, Repeats
    <3>2. Cur(f) = f.e.kids[1] /\ Inner(f, a) = {}
      BY <2>2 DEF Cur, Inner, Scopes
    <3>3. QED
      BY <2>2, <3>1, <3>2, <1>2
  <2>3. CASE f.e.op = "choice"
    <3>1. WriteCalls(c) = {WriteCall(f.e.kids[k], {}) : k \in 1 .. Len(f.e.kids)}
      BY <2>3, <1>1 DEF WriteCalls, Repeats
    <3>2. Cur(f) = f.e.kids[f.i] /\ Inner(f, a) = {} /\ f.i \in 1 .. Len(f.e.kids)
      BY <2>3 DEF Cur, Inner, Scopes, Waits
    <3>3. QED
      BY <2>3, <3>1, <3>2, <1>2
  <2>4. CASE f.e.op = "seq"
    <3>1. WriteCalls(c) = {WriteCall(f.e.kids[k], a \cup ArgsUpTo(f.e, k - 1)) : k \in 1 .. Len(f.e.kids)}
      BY <2>4, <1>1 DEF WriteCalls, Repeats
    <3>2. /\ Cur(f) = f.e.kids[f.i] /\ f.i \in 1 .. Len(f.e.kids)
          /\ Inner(f, a) = a \cup ArgsUpTo(f.e, f.i - 1)
      BY <2>4 DEF Cur, Inner, Own, Scopes, Waits
    <3>3. QED
      BY <2>4, <3>1, <3>2, <1>2
  <2>5. CASE f.e.op \in {"action"} \cup Repeats
    <3>1. WriteCalls(c) = {WriteCall(f.e.kids[1], a)} /\ f.e.op # "rule"
      BY <2>5, <1>1 DEF WriteCalls, Repeats
    <3>2. Cur(f) = f.e.kids[1] /\ Inner(f, a) = a
      BY <2>5 DEF Cur, Inner, Own, Scopes, Repeats
    <3>3. QED
      BY <3>1, <3>2, <1>2
  <2>6. QED
    BY <2>1, <2>2, <2>3, <2>4, <2>5 DEF Holders
<1>4. QED
  BY <1>3, BuilderKnows DEF Adds

\* What an expression adds, from what the expressions that it holds add.
LEMMA AddsOf ==
    ASSUME gram \in DOMAIN Funcs, NEW e, NEW a, WriteCall(e, a) \in CodeCalls[gram]
    PROVE  /\ e.op = "labeled" => Adds(e) = {e.arg}
           /\ e.op = "seq" => Adds(e) = ArgsUpTo(e, Len(e.kids))
           /\ e.op = "action" => Adds(e) = NewArgs(e.kids[1])
           /\ e.op \in Repeats => Adds(e) = {} /\ NewArgs(e.kids[1]) = {}
           /\ e.op \notin Holders \/ e.op = "choice" => Adds(e) = {}
<1>1. /\ e.op # "rule" /\ NewArgs(e) = AddArgs(e)
      /\ e.op \in Repeats => NewArgs(e) = {}
  BY BuilderKnows
<1>2. Adds(e) = AddArgs(e)
  BY <1>1 DEF Adds
<1>3. /\ e.op = "labeled" => AddArgs(e) = {e.arg}
      /\ e.op = "seq" => AddArgs(e) = ArgsUpTo(e, Len(e.kids))
      /\ e.op = "action" => AddArgs(e) = NewArgs(e.kids[1])
      /\ e.op \in Repeats => AddArgs(e) = NewArgs(e.kids[1])
      /\ e.op \notin Holders \/ e.op = "choice" => AddArgs(e) = {}
  BY <1>1 DEF AddArgs, Repeats, Holders
<1>4. QED
  BY <1>1, <1>2, <1>3

-----------------------------------------------------------------------------
(* Each action keeps the labels in scope as the builder has counted them *)

\* A call is in progress, and A are the labels that the calls have found.
AtScope(A) == IInv /\ gram \in DOMAIN Funcs /\ ScopeState(A) /\ stack # <<>>

\* A step of the same parser.
SameParser == IInv' /\ gram' = gram

\* The innermost call is known to the builder; only the first one is not in a
\* scope.
LEMMA TopKnown ==
    ASSUME NEW A, AtScope(A)
    PROVE  /\ Len(stack) \in Nat /\ Top.v \in Nat /\ IsSeq(vstack)
           /\ Known(gram, Top, A[Len(stack)])
           /\ Len(stack) > 1 => Top.v >= 1
           /\ Top.e.op # "rule" =>
                 Len(stack) > 1 /\ WriteCall(Top.e, A[Len(stack)]) \in CodeCalls[gram]
<1>1. IsSeq(stack) /\ IsSeq(vstack) /\ stack # <<>> /\ IInv /\ ScopeState(A)
  BY DEF AtScope, IInv, Seqs
<1>2. Len(stack) \in Nat /\ Len(stack) >= 1 /\ Top = stack[Len(stack)]
  BY <1>1, SeqPop DEF Top
<1>3. Top.v \in Nat
  BY <1>1, <1>2, DepthsNat
<1>4. Known(gram, Top, A[Len(stack)])
  BY <1>1, <1>2 DEF ScopeState, KnownFrames
<1>5. stack[1].e.op = "rule" /\ \A k \in 2 .. Len(stack) : stack[k].v >= 1
  BY <1>1 DEF IInv, Bottom
<1>6. Len(stack) > 1 => Len(stack) \in 2 .. Len(stack)
  BY <1>2
<1>7. Top.e.op # "rule" => Len(stack) > 1
  BY <1>2, <1>5
<1>8. QED
  BY <1>1, <1>2, <1>3, <1>4, <1>5, <1>6, <1>7 DEF Known

\* A call that opens no scope hands on the labels in scope.
LEMMA PlainScopeCall ==
    ASSUME NEW A, AtScope(A), SameParser, NEW f, Call(f, Cur(f)), f.e = Top.e, f.v = Top.v,
           Waits(f), f.e.op \in Holders \ {"rule", "choice", "labeled"},
           vstack' = vstack, Labels = Inner(f, A[Len(stack)])
    PROVE  \E B : ScopeState(B)'
<1>1. Known(gram, f, A[Len(stack)])
  BY TopKnown DEF Known
<1>2. /\ WriteCall(Cur(f), Inner(f, A[Len(stack)])) \in CodeCalls[gram]
      /\ Cur(f).op # "rule"
  BY <1>1, NextKnown DEF AtScope, SameParser
<1>3. Scopes(f) = 0 /\ BelowKept /\ Labels' = Labels
  BY DEF Scopes, BelowKept, Labels, Scope
<1>4. QED
  BY <1>2, <1>3, ScopeCall DEF AtScope, SameParser

\* A call that opens a scope leaves the one that it has found below.
LEMMA OpenScopeCall ==
    ASSUME NEW A, AtScope(A), SameParser, NEW f, Call(f, Cur(f)), f.e = Top.e, f.v = Top.v,
           Waits(f), f.e.op \in {"rule", "choice", "labeled"},
           NEW w, Deep(w, Top.v), vstack' = Append(w, NoLabel),
           \A j \in 1 .. Top.v : w[j] = vstack[j],
           Top.v >= 1 => DOMAIN vstack[Top.v] = A[Len(stack)]
    PROVE  \E B : ScopeState(B)'
<1>1. Known(gram, f, A[Len(stack)]) /\ Top.v \in Nat
  BY TopKnown DEF Known
<1>2. Inner(f, A[Len(stack)]) = {}
  BY DEF Inner, Scopes
<1>3. /\ WriteCall(Cur(f), Inner(f, A[Len(stack)])) \in CodeCalls[gram]
      /\ Cur(f).op # "rule"
  BY <1>1, NextKnown DEF AtScope, SameParser, Holders
<1>4. /\ Len(vstack') = Top.v + 1 /\ vstack'[Top.v + 1] = NoLabel
      /\ \A j \in 1 .. Top.v : vstack'[j] = vstack[j]
  BY <1>1, SeqAppend DEF Deep
<1>5. Labels' = {}
  BY <1>4 DEF Labels, Scope, NoLabel
<1>6. BelowKept /\ (Top.v >= 1 => vstack'[Top.v] = vstack[Top.v])
  BY <1>1, <1>4 DEF BelowKept
<1>7. QED
  BY <1>2, <1>3, <1>5, <1>6, ScopeCall DEF AtScope, SameParser

\* A return that leaves vstack as it is.
LEMMA PlainScopeReturn ==
    ASSUME NEW A, AtScope(A), SameParser, NEW ok \in BOOLEAN, NEW val, Return(ok, val), vstack' = vstack,
           Len(stack) > 1 => Found(A[Len(stack)], Adds(Top.e), ok, Labels)
    PROVE  \E B : ScopeState(B)'
<1>1. BelowKept /\ Labels' = Labels
  BY DEF BelowKept, Labels, Scope
<1>2. QED
  BY <1>1, ScopeReturn DEF AtScope, SameParser

\* What popV leaves.
LEMMA PopLeaves ==
    ASSUME NEW m \in Nat, Deep(vstack, m + 1)
    PROVE  Deep(PopV, m) /\ \A j \in 1 .. m : PopV[j] = vstack[j]
<1>1. IsSeq(vstack) /\ Len(vstack) = m + 1
  BY DEF Deep
<1>2. vstack # <<>>
  BY <1>1, SeqEmpty
<1>3. /\ IsSeq(PopV) /\ Len(PopV) = Len(vstack) - 1
      /\ \A j \in 1 .. Len(vstack) - 1 : PopV[j] = vstack[j]
  BY <1>1, <1>2, SeqPop DEF PopV
<1>4. QED
  BY <1>1, <1>3 DEF Deep

\* A return that gives up the scope that the call has opened.
LEMMA PopScopeReturn ==
    ASSUME NEW A, AtScope(A), SameParser, NEW ok \in BOOLEAN, NEW val, Return(ok, val),
           Deep(vstack, Top.v + 1), vstack' = PopV,
           Top.v >= 1 => DOMAIN vstack[Top.v] = A[Len(stack)],
           ok => Adds(Top.e) = {}
    PROVE  \E B : ScopeState(B)'
<1>1. Top.v \in Nat /\ (Len(stack) > 1 => Top.v >= 1)
  BY TopKnown
<1>2. Len(vstack') = Top.v /\ \A j \in 1 .. Top.v : vstack'[j] = vstack[j]
  BY <1>1, PopLeaves DEF Deep
<1>3. BelowKept
  BY <1>1, <1>2 DEF BelowKept
<1>4. Top.v >= 1 => Labels' = A[Len(stack)]
  BY <1>1, <1>2 DEF Labels, Scope
<1>5. Len(stack) > 1 => Found(A[Len(stack)], Adds(Top.e), ok, Labels')
  BY <1>1, <1>4 DEF Found
<1>6. QED
  BY <1>3, <1>5, ScopeReturn DEF AtScope, SameParser

\* A return that also binds a label in the scope around the call.
LEMMA BindScopeReturn ==
    ASSUME NEW A, AtScope(A), SameParser, NEW val, Return(TRUE, val), NEW label, NEW bound,
           Deep(vstack, Top.v + 1), Top.v >= 1, vstack' = Bind(PopV, label, bound),
           DOMAIN vstack[Top.v] = A[Len(stack)], Adds(Top.e) = {label}
    PROVE  \E B : ScopeState(B)'
<1> DEFINE w == PopV
<1>1. Top.v \in Nat
  BY TopKnown
<1>2. IsSeq(w) /\ Len(w) = Top.v /\ \A j \in 1 .. Top.v : w[j] = vstack[j]
  BY <1>1, PopLeaves DEF Deep
<1>3. DOMAIN w = 1 .. Top.v
  BY <1>2, SeqEmpty
<1> HIDE DEF w
<1>4. PICK m : m = [l \in DOMAIN w[Top.v] \cup {label} |-> IF l = label THEN bound ELSE w[Top.v][l]]
  OBVIOUS
<1>5. vstack' = [w EXCEPT ![Top.v] = m]
  BY <1>2, <1>4 DEF Bind, w
<1>6. Len(vstack') = Top.v
  <2>1. Deep(w, Top.v) => Deep(Bind(w, label, bound), Top.v)
    BY <1>1, BindDepth
  <2>2. QED
    BY <2>1, <1>2 DEF Deep, w
<1>7. vstack'[Top.v] = m /\ \A j \in 1 .. Top.v - 1 : vstack'[j] = vstack[j]
  BY <1>1, <1>2, <1>3, <1>5
<1>8. DOMAIN m = A[Len(stack)] \cup {label}
  BY <1>1, <1>2, <1>4
<1>9. Labels' = A[Len(stack)] \cup {label}
  BY <1>6, <1>7, <1>8 DEF Labels, Scope
<1>10. BelowKept
  BY <1>7 DEF BelowKept
<1>11. Found(A[Len(stack)], Adds(Top.e), TRUE, Labels')
  BY <1>9 DEF Found
<1>12. QED
  BY <1>10, <1>11, ScopeReturn DEF AtScope, SameParser

\* The labels in scope when a call has just begun ...
LEMMA EnteredLabels ==
    ASSUME NEW A, AtScope(A), NEW op, Entered(op)
    PROVE  /\ AtEntry(op) /\ IsSeq(vstack) /\ Len(vstack) = Top.v /\ Top.e.op = op
           /\ op # "lit" => Top.i = 0
           /\ Top.v >= 1 => Labels = A[Len(stack)] /\ DOMAIN vstack[Top.v] = A[Len(stack)]
<1>1. AtEntry(op) /\ ret.st = "none" /\ stack # <<>>
  BY EnteredFacts DEF AtScope, Entered
<1>2. /\ IsSeq(vstack) /\ Len(vstack) = Top.v /\ Top.e.op = op
      /\ op # "lit" => Top.i = 0
  BY <1>1 DEF AtEntry, Deep
<1>3. Top.v >= 1 => Labels = A[Len(stack)]
  BY <1>1 DEF AtScope, ScopeState, Here
<1>4. Labels = DOMAIN vstack[Top.v]
  BY <1>2 DEF Labels, Scope
<1>5. QED
  BY <1>1, <1>2, <1>3, <1>4

\* ... and when it has just got a result.
LEMMA ResumedLabels ==
    ASSUME NEW A, AtScope(A), NEW op, Resumed(op)
    PROVE  /\ Deep(vstack, Top.v + Scopes(Top)) /\ Top.e.op = op /\ Top.i \in Nat
           /\ ret.st \in {"ok", "fail"} /\ Waits(Top)
           /\ Found(Inner(Top, A[Len(stack)]), Adds(Cur(Top)), ret.st = "ok", Labels)
           /\ Scopes(Top) = 1 /\ Top.v >= 1 => DOMAIN vstack[Top.v] = A[Len(stack)]
<1>1. AtResult(op) /\ ret.st # "none" /\ stack # <<>>
  BY ResumedFacts DEF AtScope, Resumed
<1>2. /\ Deep(vstack, Top.v + Scopes(Top)) /\ Top.e.op = op /\ Top.i \in Nat
      /\ ret.st \in {"ok", "fail"}
  BY <1>1 DEF AtResult
<1>3. /\ Waits(Top)
      /\ Found(Inner(Top, A[Len(stack)]), Adds(Cur(Top)), ret.st = "ok", Labels)
  BY <1>1 DEF AtScope, ScopeState, Here
<1>4. Scopes(Top) = 1 /\ Top.v >= 1 => DOMAIN vstack[Top.v] = A[Len(stack)]
  <2>1. Len(stack) \in 1 .. Len(stack) /\ Top = stack[Len(stack)]
    BY SeqPop DEF AtScope, IInv, Seqs, Top
  <2>2. QED
    BY <1>1, <2>1 DEF AtScope, ScopeState, Outer
<1>5. QED
  BY <1>2, <1>3, <1>4

\* Without a call in progress there is nothing to know.
LEMMA ScopeGone == ASSUME stack' = <<>> PROVE \E B : ScopeState(B)'
<1>1. Len(stack') = 0
  OBVIOUS
<1>2. \A B : ScopeState(B)'
  BY <1>1, SMTT(30) DEF ScopeState, KnownFrames, Awaiting, Depths, Outer, Here
<1>3. QED
  BY <1>2

\* parseRule: a rule starts without a label.
LEMMA RuleScope == ASSUME NEW A, AtScope(A), SameParser, ParseRule PROVE \E B : ScopeState(B)'
<1>1. CASE Entered("rule") /\ PushV /\ Call(Top, Top.e.kids[1])
  <2>1. /\ Deep(vstack, Top.v) /\ Top.e.op = "rule"
        /\ Top.v >= 1 => DOMAIN vstack[Top.v] = A[Len(stack)]
    BY <1>1, EnteredLabels DEF Deep
  <2>2. Cur(Top) = Top.e.kids[1] /\ Waits(Top)
    BY <2>1 DEF Cur, Waits
  <2>3. QED
    BY <1>1, <2>1, <2>2, OpenScopeCall DEF PushV
<1>2. CASE Resumed("rule") /\ vstack' = PopV /\ Return(ret.st = "ok", ret.val)
  <2>1. Top.e.op = "rule"
    BY <1>2 DEF Resumed
  <2>2. Scopes(Top) = 1 /\ Adds(Top.e) = {}
    BY <2>1 DEF Scopes, Adds
  <2>3. /\ Deep(vstack, Top.v + 1)
        /\ Top.v >= 1 => DOMAIN vstack[Top.v] = A[Len(stack)]
    BY <1>2, <2>2, ResumedLabels
  <2>4. (ret.st = "ok") \in BOOLEAN
    OBVIOUS
  <2>5. QED
    BY <1>2, <2>2, <2>3, <2>4, PopScopeReturn
<1>3. QED
  BY <1>1, <1>2 DEF ParseRule

\* parseRuleRefExpr: neither the reference nor the rule adds a label.
LEMMA RuleRefScope == ASSUME NEW A, AtScope(A), SameParser, ParseRuleRefExpr PROVE \E B : ScopeState(B)'
<1>1. /\ Top.e.op = "ruleRef" /\ Len(vstack) = Top.v /\ Top.v >= 1
      /\ Labels = A[Len(stack)] /\ ret.st = "none" /\ vstack' = vstack
  <2>1. Entered("ruleRef") /\ vstack' = vstack
    BY DEF ParseRuleRefExpr
  <2>2. Top.e.op = "ruleRef" /\ ret.st = "none"
    BY <2>1 DEF Entered
  <2>3. Top.v >= 1
    BY <2>2, TopKnown
  <2>4. QED
    BY <2>1, <2>2, <2>3, EnteredLabels
<1>2. Adds(Top.e) = {}
  <2>1. WriteCall(Top.e, A[Len(stack)]) \in CodeCalls[gram] /\ Top.e.op \notin Holders
    BY <1>1, TopKnown DEF Holders, Repeats
  <2>2. QED
    BY <2>1, AddsOf DEF AtScope, SameParser
<1>3. ASSUME NEW val, Return(FALSE, val)
      PROVE  \E B : ScopeState(B)'
  <2>1. Found(A[Len(stack)], Adds(Top.e), FALSE, Labels)
    BY <1>1 DEF Found
  <2>2. QED
    BY <1>1, <1>3, <2>1, PlainScopeReturn
<1>4. ASSUME NEW k \in DOMAIN Rules, stack' = Append(Below, Frame(Rules[k])), UNCHANGED ret
      PROVE  \E B : ScopeState(B)'
  <2>1. Rules[k].op = "rule" /\ WriteCall(Rules[k].kids[1], {}) \in CodeCalls[gram]
    BY <1>4, BuilderAssumption DEF Rules, AtScope, SameParser
  <2> DEFINE f == Frame(Rules[k])
  <2>2. f.e = Rules[k] /\ f.v = Top.v
    BY <1>1 DEF Frame
  <2> HIDE DEF f
  <2>3. Known(gram, f, A[Len(stack)]) /\ Adds(f.e) = {}
    BY <2>1, <2>2 DEF Known, Adds
  <2>4. stack' = Append(Below, f)
    BY <1>4 DEF f
  <2>5. QED
    BY <1>1, <1>2, <1>4, <2>2, <2>3, <2>4, ScopeSame DEF AtScope, SameParser
<1>5. QED
  BY <1>3, <1>4 DEF ParseRuleRefExpr

\* parseActionExpr: an action adds what its expression adds.
LEMMA ActionScope == ASSUME NEW A, AtScope(A), SameParser, ParseActionExpr PROVE \E B : ScopeState(B)'
<1>0. vstack' = vstack
  BY DEF ParseActionExpr
<1>1. CASE Entered("action") /\ Call(Top, Top.e.kids[1])
  <2>1. Top.e.op = "action" /\ Top.v >= 1
    BY <1>1, TopKnown DEF Entered
  <2>2. Labels = A[Len(stack)]
    BY <1>1, <2>1, EnteredLabels
  <2>3. /\ Cur(Top) = Top.e.kids[1] /\ Waits(Top) /\ Inner(Top, A[Len(stack)]) = A[Len(stack)]
        /\ Top.e.op \in Holders \ {"rule", "choice", "labeled"}
    BY <2>1 DEF Cur, Waits, Inner, Own, Scopes, Holders
  <2>4. QED
    BY <1>0, <1>1, <2>2, <2>3, PlainScopeCall
<1>2. ASSUME Resumed("action"), NEW val, Return(ret.st = "ok", val)
      PROVE  \E B : ScopeState(B)'
  <2>1. Top.e.op = "action"
    BY <1>2 DEF Resumed
  <2>2. Found(Inner(Top, A[Len(stack)]), Adds(Cur(Top)), ret.st = "ok", Labels) /\ Waits(Top)
    BY <1>2, ResumedLabels
  <2>3. Cur(Top) = Top.e.kids[1] /\ Inner(Top, A[Len(stack)]) = A[Len(stack)]
    BY <2>1 DEF Cur, Inner, Own, Scopes
  <2>4. Adds(Top.e) = NewArgs(Top.e.kids[1]) /\ Adds(Cur(Top)) = NewArgs(Cur(Top))
    BY <2>1, <2>2, TopKnown, AddsOf, NextKnown DEF AtScope, SameParser, Holders
  <2>5. Found(A[Len(stack)], Adds(Top.e), ret.st = "ok", Labels) /\ (ret.st = "ok") \in BOOLEAN
    BY <2>2, <2>3, <2>4
  <2>6. QED
    BY <1>0, <1>2, <2>5, PlainScopeReturn
<1>3. CASE Resumed("action") /\ ret.st = "fail" /\ Return(FALSE, ret.val)
  <2>1. Return(ret.st = "ok", ret.val)
    BY <1>3 DEF Return
  <2>2. QED
    BY <1>2, <1>3, <2>1
<1>4. ASSUME Resumed("action"), ret.st = "ok", NEW val, Return(TRUE, val)
      PROVE  \E B : ScopeState(B)'
  <2>1. Return(ret.st = "ok", val)
    BY <1>4 DEF Return
  <2>2. QED
    BY <1>2, <1>4, <2>1
<1>5. CASE Panic
  BY <1>5, ScopeGone DEF Panic
<1>6. QED
  BY <1>1, <1>3, <1>4, <1>5 DEF ParseActionExpr

\* A function that makes no call adds no label.
LEMMA LeafScope ==
    ASSUME NEW A, AtScope(A), SameParser, NEW op, op \notin Holders, Entered(op), vstack' = vstack,
           NEW ok \in BOOLEAN, NEW val, Return(ok, val)
    PROVE  \E B : ScopeState(B)'
<1>1. Top.e.op = op /\ op # "rule"
  BY DEF Entered, Holders
<1>2. Top.v >= 1 /\ WriteCall(Top.e, A[Len(stack)]) \in CodeCalls[gram]
  BY <1>1, TopKnown
<1>3. Labels = A[Len(stack)] /\ Adds(Top.e) = {}
  BY <1>1, <1>2, EnteredLabels, AddsOf DEF AtScope, SameParser
<1>4. Found(A[Len(stack)], Adds(Top.e), ok, Labels)
  BY <1>3 DEF Found
<1>5. QED
  BY <1>4, PlainScopeReturn

\* parseAndCodeExpr and parseNotCodeExpr.
LEMMA CodeScope ==
    ASSUME NEW A, AtScope(A), SameParser, NEW op \in {"andCode", "notCode"}, NEW want, ParseCode(op, want)
    PROVE  \E B : ScopeState(B)'
<1>1. Entered(op) /\ vstack' = vstack /\ op \notin Holders
  BY DEF ParseCode, Holders, Repeats
<1>2. CASE Panic
  BY <1>2, ScopeGone DEF Panic
<1>3. ASSUME NEW o, Return(o.ok = want, Nil)
      PROVE  \E B : ScopeState(B)'
  <2>1. (o.ok = want) \in BOOLEAN
    OBVIOUS
  <2>2. QED
    BY <1>1, <1>3, <2>1, LeafScope
<1>4. QED
  BY <1>2, <1>3 DEF ParseCode

\* Lookaheads and repetitions open no scope.
LEMMA RepeatsPlain ==
    ASSUME NEW f, NEW a, f.e.op \in Repeats
    PROVE  /\ Cur(f) = f.e.kids[1] /\ Waits(f) /\ Inner(f, a) = a
           /\ f.e.op \in Holders \ {"rule", "choice", "labeled"}
<1>1. f.e.op \notin {"seq", "choice", "rule", "labeled"}
  BY DEF Repeats
<1>2. Scopes(f) = 0 /\ Own(f) = {}
  BY <1>1 DEF Scopes, Own
<1>3. Inner(f, a) = a
  BY <1>2 DEF Inner
<1>4. Cur(f) = f.e.kids[1] /\ Waits(f)
  BY <1>1 DEF Cur, Waits
<1>5. f.e.op \in Holders \ {"rule", "choice", "labeled"}
  BY <1>1 DEF Holders
<1>6. QED
  BY <1>3, <1>4, <1>5

\* The expression of a lookahead or of a repetition binds no label.
LEMMA RepeatsScope ==
    ASSUME NEW A, AtScope(A), SameParser, Top.e.op \in Repeats, vstack' = vstack
    PROVE  /\ (Entered(Top.e.op) \/ Resumed(Top.e.op)) =>
                 \A f : f.e = Top.e /\ f.v = Top.v /\ Call(f, Top.e.kids[1]) => \E B : ScopeState(B)'
           /\ Resumed(Top.e.op) =>
                 \A val : \A ok \in BOOLEAN : Return(ok, val) => \E B : ScopeState(B)'
<1>1. /\ Top.v >= 1 /\ WriteCall(Top.e, A[Len(stack)]) \in CodeCalls[gram]
      /\ Known(gram, Top, A[Len(stack)])
  BY TopKnown DEF Repeats
<1>2. Adds(Top.e) = {} /\ NewArgs(Top.e.kids[1]) = {}
  BY <1>1, AddsOf DEF AtScope, SameParser
<1>3. /\ Cur(Top) = Top.e.kids[1] /\ Waits(Top) /\ Inner(Top, A[Len(stack)]) = A[Len(stack)]
      /\ Top.e.op \in Holders
  BY RepeatsPlain
<1>4. Adds(Cur(Top)) = {}
  BY <1>1, <1>2, <1>3, NextKnown DEF AtScope, SameParser
<1>5. Entered(Top.e.op) \/ Resumed(Top.e.op) => Labels = A[Len(stack)]
  <2>1. Entered(Top.e.op) => Labels = A[Len(stack)]
    BY <1>1, EnteredLabels
  <2>2. ASSUME Resumed(Top.e.op) PROVE Labels = A[Len(stack)]
    <3>1. Found(A[Len(stack)], {}, ret.st = "ok", Labels)
      BY <2>2, <1>3, <1>4, ResumedLabels
    <3>2. QED
      BY <3>1 DEF Found
  <2>3. QED
    BY <2>1, <2>2
<1>6. ASSUME Labels = A[Len(stack)], NEW f, f.e = Top.e, f.v = Top.v, Call(f, Top.e.kids[1])
      PROVE  \E B : ScopeState(B)'
  <2>1. /\ Cur(f) = Top.e.kids[1] /\ Waits(f) /\ Inner(f, A[Len(stack)]) = A[Len(stack)]
        /\ f.e.op \in Holders \ {"rule", "choice", "labeled"}
    BY <1>6, RepeatsPlain
  <2>2. QED
    BY <1>6, <2>1, PlainScopeCall
<1>7. ASSUME Labels = A[Len(stack)], NEW ok \in BOOLEAN, NEW val, Return(ok, val)
      PROVE  \E B : ScopeState(B)'
  <2>1. Found(A[Len(stack)], Adds(Top.e), ok, Labels)
    BY <1>2, <1>7 DEF Found
  <2>2. QED
    BY <1>7, <2>1, PlainScopeReturn
<1>8. QED
  BY <1>5, <1>6, <1>7

\* parseAndExpr and parseNotExpr.
LEMMA LookaheadScope ==
    ASSUME NEW A, AtScope(A), SameParser, NEW op \in {"and", "not"}, NEW want, ParseLookahead(op, want)
    PROVE  \E B : ScopeState(B)'
<1>1. vstack' = vstack
  BY DEF ParseLookahead
<1>2. Top.e.op = op /\ Top.e.op \in Repeats
  BY DEF ParseLookahead, Entered, Resumed, Repeats
<1>3. CASE Entered(op) /\ Call(Top, Top.e.kids[1])
  BY <1>1, <1>2, <1>3, RepeatsScope
<1>4. CASE Resumed(op) /\ Return((ret.st = "ok") = want, Nil)
  <2>1. ((ret.st = "ok") = want) \in BOOLEAN
    OBVIOUS
  <2>2. QED
    BY <1>1, <1>2, <1>4, <2>1, RepeatsScope
<1>5. QED
  BY <1>3, <1>4 DEF ParseLookahead

\* parseZeroOrMoreExpr, parseOneOrMoreExpr and parseZeroOrOneExpr.
LEMMA RepeatScope ==
    ASSUME NEW A, AtScope(A), SameParser, NEW op \in {"zeroOrMore", "oneOrMore", "zeroOrOne"},
           NEW min, NEW again, ParseRepeat(op, min, again)
    PROVE  \E B : ScopeState(B)'
<1>1. vstack' = vstack
  BY DEF ParseRepeat
<1>2. Top.e.op = op /\ Top.e.op \in Repeats
  BY DEF ParseRepeat, Entered, Resumed, Repeats
<1>3. CASE Entered(op) /\ Call(Top, Top.e.kids[1])
  BY <1>1, <1>2, <1>3, RepeatsScope
<1>4. ASSUME Resumed(op), NEW val, Call(Later(Top, 1, val), Top.e.kids[1])
      PROVE  \E B : ScopeState(B)'
  <2>1. Later(Top, 1, val).e = Top.e /\ Later(Top, 1, val).v = Top.v
    BY DEF Later
  <2>2. QED
    BY <1>1, <1>2, <1>4, <2>1, RepeatsScope
<1>5. ASSUME Resumed(op), NEW ok \in BOOLEAN, NEW val, Return(ok, val)
      PROVE  \E B : ScopeState(B)'
  BY <1>1, <1>2, <1>5, RepeatsScope
<1>6. (ret.st = "ok" \/ Top.i >= min) \in BOOLEAN
  OBVIOUS
<1>7. QED
  BY <1>3, <1>4, <1>5, <1>6 DEF ParseRepeat

\* parseChoiceExpr: each alternative starts without a label.
LEMMA ChoiceScope == ASSUME NEW A, AtScope(A), SameParser, ParseChoiceExpr PROVE \E B : ScopeState(B)'
<1>0. Top.e.op = "choice"
  BY DEF ParseChoiceExpr, Entered, Resumed
<1>1. /\ Len(Top.e.kids) \in Nat \ {0} /\ Adds(Top.e) = {} /\ Top.v \in Nat /\ Top.v >= 1
      /\ Scopes(Top) = 1
  BY <1>0, TopKnown, BuilderKnows, AddsOf DEF AtScope, SameParser, Scopes
<1>2. ASSUME NEW i \in 1 .. Len(Top.e.kids), Call(Later(Top, i, <<>>), Top.e.kids[i]),
             NEW w, Deep(w, Top.v), vstack' = Append(w, NoLabel),
             \A j \in 1 .. Top.v : w[j] = vstack[j],
             DOMAIN vstack[Top.v] = A[Len(stack)]
      PROVE  \E B : ScopeState(B)'
  <2> DEFINE f == Later(Top, i, <<>>)
  <2>1. f.e = Top.e /\ f.v = Top.v /\ f.i = i
    BY DEF Later
  <2>2. Call(f, Top.e.kids[i])
    BY <1>2
  <2> HIDE DEF f
  <2>3. Cur(f) = Top.e.kids[i] /\ Waits(f)
    BY <1>0, <2>1 DEF Cur, Waits
  <2>4. QED
    BY <1>0, <1>2, <2>1, <2>2, <2>3, OpenScopeCall
<1>3. CASE Entered("choice") /\ PushV /\ Call(Later(Top, 1, <<>>), Top.e.kids[1])
  <2>1. Deep(vstack, Top.v) /\ DOMAIN vstack[Top.v] = A[Len(stack)]
    BY <1>1, <1>3, EnteredLabels DEF Deep
  <2>2. 1 \in 1 .. Len(Top.e.kids)
    BY <1>1
  <2>3. QED
    BY <1>2, <1>3, <2>1, <2>2 DEF PushV
<1>4. ASSUME Resumed("choice")
      PROVE  /\ Deep(vstack, Top.v + 1) /\ DOMAIN vstack[Top.v] = A[Len(stack)]
             /\ Deep(PopV, Top.v) /\ \A j \in 1 .. Top.v : PopV[j] = vstack[j]
             /\ Top.i \in Nat
  <2>1. /\ Deep(vstack, Top.v + 1) /\ DOMAIN vstack[Top.v] = A[Len(stack)]
        /\ Top.i \in Nat
    BY <1>1, <1>4, ResumedLabels
  <2>2. QED
    BY <1>1, <2>1, PopLeaves
<1>5. CASE /\ Resumed("choice") /\ Top.i < Len(Top.e.kids)
           /\ vstack' = Append(PopV, NoLabel)
           /\ Call(Later(Top, Top.i + 1, <<>>), Top.e.kids[Top.i + 1])
  <2>1. Top.i + 1 \in 1 .. Len(Top.e.kids)
    BY <1>1, <1>4, <1>5
  <2>2. QED
    BY <1>2, <1>4, <1>5, <2>1
<1>6. CASE Resumed("choice") /\ vstack' = PopV /\ Return(ret.st = "ok", ret.val)
  <2>1. (ret.st = "ok") \in BOOLEAN
    OBVIOUS
  <2>2. QED
    BY <1>1, <1>4, <1>6, <2>1, PopScopeReturn
<1>7. QED
  BY <1>3, <1>5, <1>6 DEF ParseChoiceExpr

\* parseLabeledExpr: the label is added to the scope that the call has found.
LEMMA LabeledScope == ASSUME NEW A, AtScope(A), SameParser, ParseLabeledExpr PROVE \E B : ScopeState(B)'
<1>0. Top.e.op = "labeled"
  BY DEF ParseLabeledExpr, Entered, Resumed
<1>1. /\ Adds(Top.e) = {Top.e.arg} /\ Top.v \in Nat /\ Top.v >= 1 /\ Scopes(Top) = 1
      /\ Cur(Top) = Top.e.kids[1] /\ Waits(Top)
  BY <1>0, TopKnown, AddsOf DEF AtScope, SameParser, Scopes, Cur, Waits
<1>2. CASE Entered("labeled") /\ PushV /\ Call(Top, Top.e.kids[1])
  <2>1. Deep(vstack, Top.v) /\ DOMAIN vstack[Top.v] = A[Len(stack)]
    BY <1>1, <1>2, EnteredLabels DEF Deep
  <2>2. QED
    BY <1>0, <1>1, <1>2, <2>1, OpenScopeCall DEF PushV
<1>3. ASSUME Resumed("labeled")
      PROVE  Deep(vstack, Top.v + 1) /\ DOMAIN vstack[Top.v] = A[Len(stack)]
  BY <1>1, <1>3, ResumedLabels
<1>4. CASE /\ Resumed("labeled") /\ ret.st = "ok"
           /\ vstack' = Bind(PopV, Top.e.arg, ret.val) /\ Return(TRUE, ret.val)
  BY <1>1, <1>3, <1>4, BindScopeReturn
<1>5. CASE Resumed("labeled") /\ ret.st # "ok" /\ vstack' = PopV /\ Return(FALSE, ret.val)
  BY <1>1, <1>3, <1>5, PopScopeReturn
<1>6. QED
  <2>1. Return(ret.st = "ok", ret.val) => Return(TRUE, ret.val) \/ ret.st # "ok"
    BY DEF Return
  <2>2. Return(ret.st = "ok", ret.val) => Return(FALSE, ret.val) \/ ret.st = "ok"
    BY DEF Return
  <2>3. QED
    BY <1>2, <1>4, <1>5, <2>1, <2>2 DEF ParseLabeledExpr

\* parseSeqExpr: each expression finds the labels of those before it.
LEMMA SeqScope == ASSUME NEW A, AtScope(A), SameParser, ParseSeqExpr PROVE \E B : ScopeState(B)'
<1> DEFINE a == A[Len(stack)]
<1>0. Top.e.op = "seq" /\ vstack' = vstack
  BY DEF ParseSeqExpr, Entered, Resumed
<1>1. /\ Len(Top.e.kids) \in Nat \ {0} /\ Adds(Top.e) = ArgsUpTo(Top.e, Len(Top.e.kids))
      /\ Top.v >= 1 /\ Known(gram, Top, a)
  BY <1>0, TopKnown, BuilderKnows, AddsOf DEF AtScope, SameParser
<1> HIDE DEF a
<1>2. ASSUME NEW i \in 1 .. Len(Top.e.kids), NEW val, Call(Later(Top, i, val), Top.e.kids[i]),
             Labels = a \cup ArgsUpTo(Top.e, i - 1)
      PROVE  \E B : ScopeState(B)'
  <2> DEFINE f == Later(Top, i, val)
  <2>1. f.e = Top.e /\ f.v = Top.v /\ f.i = i
    BY DEF Later
  <2>2. Call(f, Top.e.kids[i])
    BY <1>2
  <2> HIDE DEF f
  <2>3. /\ Cur(f) = Top.e.kids[i] /\ Waits(f)
        /\ Inner(f, a) = a \cup ArgsUpTo(Top.e, i - 1)
        /\ f.e.op \in Holders \ {"rule", "choice", "labeled"}
    BY <1>0, <2>1 DEF Cur, Waits, Inner, Own, Scopes, Holders
  <2>4. QED
    BY <1>0, <1>2, <2>1, <2>2, <2>3, PlainScopeCall DEF a
<1>3. CASE Entered("seq") /\ Call(Later(Top, 1, <<>>), Top.e.kids[1])
  <2>1. Labels = a /\ ArgsUpTo(Top.e, 1 - 1) = {} /\ 1 \in 1 .. Len(Top.e.kids)
    BY <1>1, <1>3, EnteredLabels, ArgsNext DEF a
  <2>2. QED
    BY <1>2, <1>3, <2>1
<1>4. ASSUME Resumed("seq")
      PROVE  /\ Top.i \in 1 .. Len(Top.e.kids)
             /\ a \subseteq Labels /\ Labels \subseteq a \cup ArgsUpTo(Top.e, Top.i)
             /\ ret.st = "ok" => Labels = a \cup ArgsUpTo(Top.e, Top.i)
  <2>1. Found(Inner(Top, a), Adds(Cur(Top)), ret.st = "ok", Labels) /\ Waits(Top)
    BY <1>4, ResumedLabels DEF a
  <2>2. /\ Top.i \in 1 .. Len(Top.e.kids) /\ Cur(Top) = Top.e.kids[Top.i]
        /\ Inner(Top, a) = a \cup ArgsUpTo(Top.e, Top.i - 1)
    BY <1>0, <2>1 DEF Waits, Cur, Inner, Own, Scopes
  <2>3. Adds(Cur(Top)) = NewArgs(Top.e.kids[Top.i])
    BY <1>0, <1>1, <2>1, <2>2, NextKnown DEF AtScope, SameParser, Holders
  <2>4. ArgsUpTo(Top.e, Top.i) = ArgsUpTo(Top.e, Top.i - 1) \cup NewArgs(Top.e.kids[Top.i])
    BY <1>1, <2>2, ArgsNext
  <2>5. QED
    BY <2>1, <2>2, <2>3, <2>4 DEF Found
<1>5. CASE /\ Resumed("seq") /\ ret.st = "ok" /\ Top.i < Len(Top.e.kids)
           /\ Call(Later(Top, Top.i + 1, Append(Top.val, ret.val)), Top.e.kids[Top.i + 1])
  <2>1. /\ Top.i + 1 \in 1 .. Len(Top.e.kids) /\ (Top.i + 1) - 1 = Top.i
        /\ Labels = a \cup ArgsUpTo(Top.e, Top.i)
    BY <1>1, <1>4, <1>5
  <2>2. QED
    BY <1>2, <1>5, <2>1
<1>6. ASSUME Resumed("seq"), NEW ok \in BOOLEAN, NEW val, Return(ok, val),
             ok => ret.st = "ok" /\ Top.i = Len(Top.e.kids)
      PROVE  \E B : ScopeState(B)'
  <2>1. ArgsUpTo(Top.e, Top.i) \subseteq Adds(Top.e)
    <3>1. Top.i \in 1 .. Len(Top.e.kids) /\ Len(Top.e.kids) \in Nat
      BY <1>1, <1>4, <1>6
    <3>2. Top.i \in Nat /\ Top.i <= Len(Top.e.kids)
      BY <3>1, SMT
    <3>3. ArgsUpTo(Top.e, Top.i) \subseteq ArgsUpTo(Top.e, Len(Top.e.kids))
      BY <3>1, <3>2, ArgsNext
    <3>4. QED
      BY <1>1, <3>3
  <2>2. Found(a, Adds(Top.e), ok, Labels)
    BY <1>1, <1>4, <1>6, <2>1 DEF Found
  <2>3. QED
    BY <1>0, <1>6, <2>2, PlainScopeReturn DEF a
<1>7. CASE /\ Resumed("seq") /\ ret.st = "ok" /\ Top.i = Len(Top.e.kids)
           /\ Return(TRUE, List(Append(Top.val, ret.val)))
  BY <1>6, <1>7
<1>8. CASE Resumed("seq") /\ Return(FALSE, Nil)
  BY <1>6, <1>8
<1>9. QED
  BY <1>3, <1>5, <1>7, <1>8 DEF ParseSeqExpr

\* parseLitMatcher, which also takes a step for each rune.
LEMMA LitScope == ASSUME NEW A, AtScope(A), SameParser, ParseLitMatcher PROVE \E B : ScopeState(B)'
<1>1. Entered("lit") /\ vstack' = vstack /\ "lit" \notin Holders
  BY DEF ParseLitMatcher, Holders, Repeats
<1>2. ASSUME NEW ok \in BOOLEAN, NEW val, Return(ok, val)
      PROVE  \E B : ScopeState(B)'
  BY <1>1, <1>2, LeafScope
<1>3. ASSUME NEW i, NEW val, stack' = Append(Below, Later(Top, i, val)), UNCHANGED ret
      PROVE  \E B : ScopeState(B)'
  <2> DEFINE f == Later(Top, i, val)
  <2>1. f.e = Top.e /\ f.v = Top.v /\ stack' = Append(Below, f)
    BY <1>3 DEF Later
  <2> HIDE DEF f
  <2>2. Known(gram, f, A[Len(stack)])
    BY <2>1, TopKnown DEF Known
  <2>3. ret.st = "none" /\ Adds(f.e) = Adds(Top.e)
    BY <1>1, <2>1 DEF Entered
  <2>4. QED
    BY <1>1, <1>3, <2>1, <2>2, <2>3, ScopeSame DEF AtScope, SameParser
<1>4. QED
  BY <1>2, <1>3 DEF ParseLitMatcher

\* parseCharClassMatcher and parseAnyMatcher.
LEMMA MatcherScope ==
    ASSUME NEW A, AtScope(A), SameParser, ParseCharClassMatcher \/ ParseAnyMatcher
    PROVE  \E B : ScopeState(B)'
<1>1. \A op \in {"class", "any"} : op \notin Holders
  BY DEF Holders, Repeats
<1>2. /\ Entered("class") \/ Entered("any")
      /\ vstack' = vstack
      /\ \E val : \E ok \in BOOLEAN : Return(ok, val)
  BY DEF ParseCharClassMatcher, ParseAnyMatcher
<1>3. QED
  BY <1>1, <1>2, LeafScope

\* The first rule of a parser, for which parse calls parseRule.
LEMMA RulesKnown ==
    ASSUME gram \in DOMAIN Funcs, Rules # <<>>
    PROVE  Rules[1].op = "rule" /\ WriteCall(Rules[1].kids[1], {}) \in CodeCalls[gram]
<1>1. Rules \in Seq({Rules[k] : k \in DOMAIN Rules})
  BY BuilderAssumption DEF Rules
<1>2. 1 \in DOMAIN Rules
  BY <1>1, SeqEmpty DEF IsSeq
<1>3. QED
  BY <1>2, BuilderAssumption DEF Rules

\* parse calls parseRule for the first rule, in no scope.
LEMMA ParseScope ==
    ASSUME Parse, gram \in DOMAIN Funcs
    PROVE  \E B : ScopeState(B)'
<1>1. CASE Rules = <<>>
  <2>1. stack' = <<>>
    BY <1>1 DEF Parse
  <2>2. QED
    BY <2>1, ScopeGone
<1>2. CASE Rules # <<>>
  <2> DEFINE f == [e |-> Rules[1], i |-> 0, pt |-> pt', val |-> <<>>, v |-> 0, r |-> 0]
  <2>1. stack' = <<f>> /\ ret.st = "none" /\ ret' = ret /\ gram' = gram
    BY <1>2 DEF Parse
  <2>2. f.e = Rules[1] /\ f.v = 0
    OBVIOUS
  <2> HIDE DEF f
  <2>3. Len(stack') = 1 /\ stack'[1] = f /\ Top' = f
    BY <2>1 DEF Top
  <2>4. Known(gram, f, {})
    BY <1>2, <2>2, RulesKnown DEF Known
  <2>5. PICK B : B = [k \in {1} |-> {}]
    OBVIOUS
  <2>6. KnownFrames(B)'
    BY <2>1, <2>3, <2>4, <2>5 DEF KnownFrames, Known
  <2>7. Awaiting(B)' /\ Depths' /\ Outer(B)'
    BY <2>1, <2>3 DEF Awaiting, Depths, Outer
  <2>8. Here(B)'
    BY <2>1, <2>2, <2>3 DEF Here
  <2>9. QED
    BY <2>6, <2>7, <2>8 DEF ScopeState
<1>3. QED
  BY <1>1, <1>2

\* A step that changes nothing.
LEMMA ScopeKept ==
    ASSUME NEW A, ScopeState(A), UNCHANGED <<gram, stack, ret, vstack>>
    PROVE  ScopeState(A)'
<1>1. KnownFrames(A)' /\ Depths'
  BY DEF ScopeState, KnownFrames, Known, Depths, Scopes
<1>2. Awaiting(A)'
  BY DEF ScopeState, Awaiting, Waits, Inner, Adds, Cur, Own, Scopes
<1>3. Outer(A)'
  BY DEF ScopeState, Outer, Scopes
<1>4. Top' = Top /\ Labels' = Labels
  BY DEF Top, Labels, Scope
<1>5. Here(A)'
  BY <1>4 DEF ScopeState, Here, Waits, Found, Inner, Adds, Cur, Own, Scopes
<1>6. QED
  BY <1>1, <1>2, <1>3, <1>5 DEF ScopeState

\* The steps that only a call in progress takes.
LEMMA InProgress ==
    ParseRule \/ ParseRuleRefExpr \/ ParseActionExpr \/ ParseAndCodeExpr \/ ParseNotCodeExpr
    \/ ParseAndExpr \/ ParseNotExpr \/ ParseChoiceExpr \/ ParseLabeledExpr \/ ParseSeqExpr
    \/ ParseZeroOrMoreExpr \/ ParseOneOrMoreExpr \/ ParseZeroOrOneExpr
    \/ ParseLitMatcher \/ ParseCharClassMatcher \/ ParseAnyMatcher => stack # <<>>
BY DEF ParseRule, ParseRuleRefExpr, ParseActionExpr, ParseAndCodeExpr, ParseNotCodeExpr,
       ParseCode, ParseAndExpr, ParseNotExpr, ParseLookahead, ParseChoiceExpr, ParseLabeledExpr,
       ParseSeqExpr, ParseZeroOrMoreExpr, ParseOneOrMoreExpr, ParseZeroOrOneExpr, ParseRepeat,
       ParseLitMatcher, ParseCharClassMatcher, ParseAnyMatcher, Entered, Resumed

\* parse and the functions that it calls keep to the grammar of the parser.
LEMMA SameGrammar == ASSUME [Next]_vars PROVE gram' = gram
BY DEF Next, vars, Parse, ParseEnd, ParseRule, ParseRuleRefExpr, ParseActionExpr,
       ParseAndCodeExpr, ParseNotCodeExpr, ParseCode, ParseAndExpr, ParseNotExpr, ParseLookahead,
       ParseChoiceExpr, ParseLabeledExpr, ParseSeqExpr, ParseZeroOrMoreExpr, ParseOneOrMoreExpr,
       ParseZeroOrOneExpr, ParseRepeat, ParseLitMatcher, ParseCharClassMatcher, ParseAnyMatcher,
       Terminating

\* No step changes what is in scope other than the builder has counted.
LEMMA ScopePreserved ==
    ASSUME IInv, IInv', ScopeInv, [Next]_vars
    PROVE  ScopeInv'
<1> SUFFICES ASSUME gram \in DOMAIN Funcs PROVE \E B : ScopeState(B)'
  BY SameGrammar DEF ScopeInv
<1>1. PICK A : ScopeState(A)
  BY DEF ScopeInv
<1>2. SameParser /\ (stack # <<>> => AtScope(A))
  BY <1>1, SameGrammar DEF AtScope, SameParser
<1>3. CASE Parse
  BY <1>3, ParseScope
<1>4. CASE ParseEnd
  <2>1. stack' = <<>>
    BY <1>4 DEF ParseEnd
  <2>2. QED
    BY <2>1, ScopeGone
<1>5. CASE stack # <<>> /\ ParseRule
  BY <1>2, <1>5, RuleScope
<1>6. CASE stack # <<>> /\ ParseRuleRefExpr
  BY <1>2, <1>6, RuleRefScope
<1>7. CASE stack # <<>> /\ ParseActionExpr
  BY <1>2, <1>7, ActionScope
<1>8. CASE stack # <<>> /\ ParseAndCodeExpr
  BY <1>2, <1>8, CodeScope DEF ParseAndCodeExpr
<1>9. CASE stack # <<>> /\ ParseNotCodeExpr
  BY <1>2, <1>9, CodeScope DEF ParseNotCodeExpr
<1>10. CASE stack # <<>> /\ ParseAndExpr
  BY <1>2, <1>10, LookaheadScope DEF ParseAndExpr
<1>11. CASE stack # <<>> /\ ParseNotExpr
  BY <1>2, <1>11, LookaheadScope DEF ParseNotExpr
<1>12. CASE stack # <<>> /\ ParseChoiceExpr
  BY <1>2, <1>12, ChoiceScope
<1>13. CASE stack # <<>> /\ ParseLabeledExpr
  BY <1>2, <1>13, LabeledScope
<1>14. CASE stack # <<>> /\ ParseSeqExpr
  BY <1>2, <1>14, SeqScope
<1>15. CASE stack # <<>> /\ ParseZeroOrMoreExpr
  BY <1>2, <1>15, RepeatScope DEF ParseZeroOrMoreExpr
<1>16. CASE stack # <<>> /\ ParseOneOrMoreExpr
  BY <1>2, <1>16, RepeatScope DEF ParseOneOrMoreExpr
<1>17. CASE stack # <<>> /\ ParseZeroOrOneExpr
  BY <1>2, <1>17, RepeatScope DEF ParseZeroOrOneExpr
<1>18. CASE stack # <<>> /\ ParseLitMatcher
  BY <1>2, <1>18, LitScope
<1>19. CASE stack # <<>> /\ (ParseCharClassMatcher \/ ParseAnyMatcher)
  BY <1>2, <1>19, MatcherScope
<1>20. CASE UNCHANGED vars
  <2>1. gram' = gram /\ stack' = stack /\ ret' = ret /\ vstack' = vstack
    BY <1>20 DEF vars
  <2>2. ScopeState(A)'
    BY <1>1, <2>1, ScopeKept
  <2>3. QED
    BY <2>2
<1>21. QED
  BY <1>3, <1>4, <1>5, <1>6, <1>7, <1>8, <1>9, <1>10, <1>11, <1>12, <1>13, <1>14, <1>15,
     <1>16, <1>17, <1>18, <1>19, <1>20, InProgress DEF Next, Terminating

\* The calls in progress have found the labels that the builder has counted.
LEMMA ScopeKnown == Spec => [](IInv /\ ScopeInv)
<1>1. Init => ScopeInv
  <2> SUFFICES ASSUME Init PROVE \E A : ScopeState(A)
    BY DEF ScopeInv
  <2>1. stack = <<>> /\ Len(stack) = 0
    BY DEF Init
  <2>2. \A A : ScopeState(A)
    BY <2>1, SMTT(30) DEF ScopeState, KnownFrames, Awaiting, Depths, Outer, Here
  <2>3. QED
    BY <2>2
<1>2. IInv /\ IInv' /\ ScopeInv /\ [Next]_vars => ScopeInv'
  BY ScopePreserved
<1>3. QED
  BY <1>1, <1>2, PegInvariant, PTL DEF Spec

\* What is counted below needs the facts about finite sets.
INSTANCE FiniteSetTheorems

\* Every code block that a generated parser runs is the only function of its
\* name, and takes the labels that are in scope: the builder's argsStack and the
\* runtime's vstack agree, for every grammar whose lookaheads and repetitions
\* bind no label, on every input.
THEOREM PegCodeBlocksFit == Spec => []CodeBlocksFit
<1>1. ASSUME IInv, ScopeInv, gram \in DOMAIN Funcs, CodeRuns
      PROVE  OneFunc(gram, Top.e.arg, Labels)
  <2>1. PICK A : ScopeState(A)
    BY <1>1 DEF ScopeInv
  <2>2. AtScope(A)
    BY <1>1, <2>1 DEF AtScope, CodeRuns, Entered, Resumed
  <2>3. Top.e.op \in {"andCode", "notCode", "action"}
    BY <1>1 DEF CodeRuns, Entered, Resumed
  <2>4. /\ Top.v >= 1 /\ WriteCall(Top.e, A[Len(stack)]) \in CodeCalls[gram]
        /\ Known(gram, Top, A[Len(stack)])
    BY <2>2, <2>3, TopKnown
  <2> DEFINE c == WriteCall(Top.e, A[Len(stack)])
  <2>5. WriteFunc(gram, c) /\ c.e = Top.e /\ c.args = A[Len(stack)]
    BY <1>1, <2>4, BuilderKnows DEF WriteCall
  <2> HIDE DEF c
  <2>6. CASE Entered("andCode") \/ Entered("notCode")
    <3>1. Labels = A[Len(stack)] /\ Top.e.op \in {"andCode", "notCode"}
      BY <2>2, <2>4, <2>6, EnteredLabels
    <3>2. QED
      BY <3>1, <2>5 DEF WriteFunc
  <2>7. CASE Resumed("action") /\ ret.st = "ok"
    <3>1. Top.e.op = "action"
      BY <2>7 DEF Resumed
    <3>2. Found(Inner(Top, A[Len(stack)]), Adds(Cur(Top)), TRUE, Labels) /\ Waits(Top)
      BY <2>2, <2>7, ResumedLabels
    <3>3. Cur(Top) = Top.e.kids[1] /\ Inner(Top, A[Len(stack)]) = A[Len(stack)]
      BY <3>1 DEF Cur, Inner, Own, Scopes
    <3>4. Adds(Cur(Top)) = NewArgs(Top.e.kids[1])
      BY <1>1, <2>4, <3>1, <3>2, <3>3, NextKnown DEF Holders
    <3>5. Labels = A[Len(stack)] \cup NewArgs(Top.e.kids[1])
      BY <3>2, <3>3, <3>4 DEF Found
    <3>6. QED
      BY <3>1, <3>5, <2>5 DEF WriteFunc
  <2>8. QED
    BY <1>1, <2>6, <2>7 DEF CodeRuns
<1>2. IInv /\ ScopeInv => CodeBlocksFit
  <2> SUFFICES ASSUME IInv, ScopeInv, gram \in DOMAIN Funcs, CodeRuns
               PROVE  /\ Cardinality(Named(Funcs[gram], Top.e.arg)) = 1
                      /\ \A at \in Named(Funcs[gram], Top.e.arg) :
                            ArgsOf(Funcs[gram], at) = DOMAIN Scope
    BY DEF CodeBlocksFit
  <2>1. PICK at : /\ Named(Funcs[gram], Top.e.arg) = {at}
                  /\ ArgsOf(Funcs[gram], at) = DOMAIN Scope
    BY <1>1 DEF OneFunc, Labels
  <2>2. Cardinality({at}) = 1
    BY FS_Singleton
  <2>3. QED
    BY <2>1, <2>2
<1>3. QED
  BY <1>2, ScopeKnown, PTL
-----------------------------------------------------------------------------
(* Lines, columns and errors *)

\* The number of the last rune up to offset o that is a new line is k.
IsLast(k, o) ==
    /\ k > 0 => k <= Len(data) /\ data[k] = NewLine
    /\ \A j \in k + 1 .. o + 1 : j <= Len(data) => data[j] # NewLine

NewLines(o) == {k \in DOMAIN data : k <= o + 1 /\ data[k] = NewLine}

\* p is a position that read has reached, with the line and the column of its
\* offset.
Exact(p) ==
    /\ p.w = IF p.offset < Len(data) THEN 1 ELSE 0
    /\ \E k \in 0 .. p.offset + 1 :
          /\ IsLast(k, p.offset)
          /\ p.offset < Len(data) => p.col = p.offset + 1 - k
          /\ p.col >= p.offset + 1 - k
    /\ IsFiniteSet(NewLines(p.offset))
    /\ p.line = 1 + Cardinality(NewLines(p.offset))

\* Without an error, every rune up to p is UTF-8.
Clean(p) == errs = {} => \A k \in 1 .. p.offset + p.w : data[k] # RuneError

\* The position before the first read.
Start == [offset |-> 0, rn |-> NoRune, w |-> 0, line |-> 1, col |-> 0]

\* Every position that parse can go back to is exact, not only the current
\* one; before the first call, nothing was read.
PositionInv ==
    /\ stack # <<>> \/ ret.st # "none" => Exact(pt)
    /\ \A k \in 1 .. Len(stack) : Exact(stack[k].pt)
    /\ res.st = "pending" /\ stack = <<>> /\ ret.st = "none" => pt = Start

ErrorInv ==
    /\ Clean(pt)
    /\ \A k \in 1 .. Len(stack) : Clean(stack[k].pt)
    /\ res.st \in {"fail", "panic"} => errs # {}

\* The fields of the position that read reaches.
LEMMA ReadFields ==
    ASSUME NEW p, NEW o, o = p.offset + p.w
    PROVE  /\ Read(p).offset = o /\ Read(p).rn = RuneAt(o)
           /\ Read(p).w = IF o < Len(data) THEN 1 ELSE 0
           /\ RuneAt(o) = NewLine => Read(p).line = p.line + 1 /\ Read(p).col = 0
           /\ RuneAt(o) # NewLine => Read(p).line = p.line /\ Read(p).col = p.col + 1
BY DEF Read

\* read moves to the next rune: the line and the column that were right for
\* offset n are right for the one after it.  n is -1 before the first read.
LEMMA ReadNew ==
    ASSUME IsSeq(data), NEW n \in Int, n >= -1, n + 1 <= Len(data),
           NEW k \in 0 .. n + 1, IsLast(k, n),
           IsFiniteSet(NewLines(n)),
           NEW p, p.offset + p.w = n + 1,
           p.col = n + 1 - k, p.line = 1 + Cardinality(NewLines(n))
    PROVE  Exact(Read(p))
<1> DEFINE q == Read(p)
<1>1. Len(data) \in Nat /\ DOMAIN data = 1 .. Len(data)
  BY SeqEmpty
<1>2. /\ q.offset = n + 1
      /\ q.w = IF n + 1 < Len(data) THEN 1 ELSE 0
      /\ RuneAt(n + 1) = NewLine => q.line = p.line + 1 /\ q.col = 0
      /\ RuneAt(n + 1) # NewLine => q.line = p.line /\ q.col = p.col + 1
  BY ReadFields
<1>3. k \in Int /\ 0 <= k /\ k <= n + 1 /\ Cardinality(NewLines(n)) \in Nat
  BY FS_CardinalityType
<1> HIDE DEF q
<1>4. CASE RuneAt(n + 1) = NewLine
  <2>1. n + 1 < Len(data) /\ data[n + 2] = NewLine
    BY <1>1, <1>4, RuneAssumption DEF RuneAt
  <2>2. IsLast(n + 2, n + 1)
    BY <1>1, <2>1 DEF IsLast
  <2>3. NewLines(n + 1) = NewLines(n) \cup {n + 2} /\ n + 2 \notin NewLines(n)
    BY <1>1, <2>1 DEF NewLines
  <2>4. /\ IsFiniteSet(NewLines(n + 1))
        /\ Cardinality(NewLines(n + 1)) = Cardinality(NewLines(n)) + 1
    BY <2>3, FS_AddElement
  <2>5. q.col = (n + 1) + 1 - (n + 2) /\ q.line = 1 + Cardinality(NewLines(n + 1))
    BY <1>2, <1>3, <1>4, <2>4
  <2>6. \E m \in 0 .. q.offset + 1 :
           /\ IsLast(m, q.offset)
           /\ q.offset < Len(data) => q.col = q.offset + 1 - m
           /\ q.col >= q.offset + 1 - m
    <3>1. n + 2 \in 0 .. q.offset + 1 /\ q.offset + 1 - (n + 2) = 0 /\ q.col = 0
      BY <1>2, <1>4
    <3>2. IsLast(n + 2, q.offset)
      BY <1>2, <2>2
    <3>3. q.col >= q.offset + 1 - (n + 2)
      BY <3>1
    <3> QED
      BY <3>1, <3>2, <3>3
  <2> QED
    BY <1>2, <2>4, <2>5, <2>6 DEF Exact, q
<1>5. CASE RuneAt(n + 1) # NewLine
  <2>1. n + 1 < Len(data) => data[n + 2] # NewLine
    BY <1>1, <1>5 DEF RuneAt
  <2>2. IsLast(k, n + 1)
    BY <1>1, <1>3, <2>1 DEF IsLast
  <2>3. NewLines(n + 1) = NewLines(n)
    BY <1>1, <2>1 DEF NewLines
  <2>4. q.line = 1 + Cardinality(NewLines(n + 1))
    BY <1>2, <1>5, <2>3
  <2>5. q.col = q.offset + 1 - k
    BY <1>2, <1>3, <1>5
  <2>6. \E m \in 0 .. q.offset + 1 :
           /\ IsLast(m, q.offset)
           /\ q.offset < Len(data) => q.col = q.offset + 1 - m
           /\ q.col >= q.offset + 1 - m
    <3>1. k \in 0 .. q.offset + 1 /\ q.col >= q.offset + 1 - k
      BY <1>2, <1>3, <2>5
    <3>2. IsLast(k, q.offset)
      BY <1>2, <2>2
    <3> QED
      BY <2>5, <3>1, <3>2
  <2> QED
    BY <1>2, <2>3, <2>4, <2>6 DEF Exact, q
<1> QED
  BY <1>4, <1>5

\* read leads from an exact position, or from the start, to an exact one.
LEMMA ReadExact ==
    ASSUME IsSeq(data), NEW p, Place(p), Exact(p) \/ p = Start
    PROVE  Exact(Read(p))
<1>1. /\ Len(data) \in Nat /\ p.offset \in Nat /\ p.offset <= Len(data)
      /\ p.w \in {0, 1} /\ p.line \in Nat /\ p.col \in Nat
      /\ DOMAIN data = 1 .. Len(data)
  BY PositionFields, SeqEmpty DEF Place
<1>2. CASE p = Start
  <2>1. p.offset = 0 /\ p.w = 0 /\ p.line = 1 /\ p.col = 0
    BY <1>2 DEF Start
  <2>2. IsLast(0, -1)
    BY DEF IsLast
  <2>3. NewLines(-1) = {}
    BY <1>1 DEF NewLines
  <2>4. IsFiniteSet(NewLines(-1)) /\ Cardinality(NewLines(-1)) = 0
    BY <2>3, FS_EmptySet
  <2>5. /\ -1 \in Int /\ -1 >= -1 /\ -1 + 1 <= Len(data) /\ 0 \in 0 .. -1 + 1
        /\ p.offset + p.w = -1 + 1 /\ p.col = -1 + 1 - 0
        /\ p.line = 1 + Cardinality(NewLines(-1))
    BY <1>1, <2>1, <2>4
  <2> QED
    BY <2>2, <2>4, <2>5, ReadNew
<1>3. CASE Exact(p) /\ p.offset < Len(data)
  <2>1. PICK k \in 0 .. p.offset + 1 : IsLast(k, p.offset) /\ p.col = p.offset + 1 - k
    BY <1>3 DEF Exact
  <2>2. /\ IsFiniteSet(NewLines(p.offset)) /\ p.line = 1 + Cardinality(NewLines(p.offset))
        /\ p.w = 1
    BY <1>3 DEF Exact
  <2>3. p.offset \in Int /\ p.offset >= -1 /\ p.offset + 1 <= Len(data)
        /\ p.offset + p.w = p.offset + 1
    BY <1>1, <1>3, <2>2
  <2> QED
    BY <2>1, <2>2, <2>3, ReadNew
<1>4. CASE Exact(p) /\ ~(p.offset < Len(data))
  <2> DEFINE q == Read(p)
  <2>1. PICK k \in 0 .. p.offset + 1 : IsLast(k, p.offset) /\ p.col >= p.offset + 1 - k
    BY <1>4 DEF Exact
  <2>2. p.w = 0 /\ p.offset + p.w = p.offset
    BY <1>1, <1>4 DEF Exact
  <2>3. RuneAt(p.offset) # NewLine
    BY <1>4, RuneAssumption DEF RuneAt
  <2>4. /\ q.offset = p.offset /\ q.w = 0
        /\ q.line = p.line /\ q.col = p.col + 1
    BY <1>4, <2>2, <2>3, ReadFields
  <2> HIDE DEF q
  <2>5. q.col >= p.offset + 1 - k
    BY <1>1, <2>1, <2>4
  <2> QED
    BY <1>4, <2>1, <2>4, <2>5 DEF Exact, q
<1> QED
  BY <1>2, <1>3, <1>4

\* read reports a rune that is not UTF-8.
LEMMA ReadClean ==
    ASSUME IsSeq(data), NEW p, Place(p), NEW E, NEW F,
           F = E \cup EncodingErr(Read(p)), F = {},
           E = {} => \A k \in 1 .. p.offset + p.w : data[k] # RuneError
    PROVE  \A k \in 1 .. Read(p).offset + Read(p).w : data[k] # RuneError
<1> DEFINE o == p.offset + p.w
<1>1. o \in Nat /\ Len(data) \in Nat
  BY PositionFields DEF Place
<1>2. \A k \in 1 .. o : data[k] # RuneError
  OBVIOUS
<1>3. /\ Read(p).offset = o /\ Read(p).rn = RuneAt(o)
      /\ Read(p).w = IF o < Len(data) THEN 1 ELSE 0
  BY ReadFields
<1>4. ~(Read(p).rn = RuneError /\ Read(p).w > 0)
  BY DEF EncodingErr
<1> HIDE DEF o
<1>5. CASE o < Len(data)
  BY <1>1, <1>2, <1>3, <1>4, <1>5 DEF RuneAt
<1>6. CASE ~(o < Len(data))
  BY <1>1, <1>2, <1>3, <1>6
<1> QED
  BY <1>5, <1>6

\* Every saved position is one that was saved before or the current one.
Kept ==
    \A k \in 1 .. Len(stack') :
        stack'[k].pt = pt \/ \E j \in 1 .. Len(stack) : stack'[k].pt = stack[j].pt

\* What a step of a parse function does to positions and errors: it stays,
\* reads, or goes back to where the innermost call began; and parse goes on,
\* unless the last call has returned or a code block has failed.
Moves ==
    /\ data' = data
    /\ Kept
    /\ errs' = {} => errs = {}
    /\ \/ pt' = pt
       \/ pt' = Top.pt
       \/ pt' = Read(pt) /\ errs' = errs \cup EncodingErr(Read(pt))
    /\ stack' = <<>> => ret'.st # "none" \/ res'.st # "pending"
    /\ res'.st \in {"fail", "panic"} => errs' # {}

\* The innermost call is the last frame of the stack.
LEMMA TopFrame ==
    ASSUME IsSeq(stack), stack # <<>>
    PROVE  Len(stack) \in Nat /\ Len(stack) \in 1 .. Len(stack) /\ Top = stack[Len(stack)]
BY SeqPop DEF Top

\* A call, a return and a step within a call keep the saved positions.
LEMMA CallKeeps ==
    ASSUME IsSeq(stack), stack # <<>>, NEW f, NEW e, f.pt = Top.pt, Call(f, e)
    PROVE  Kept /\ stack' # <<>>
<1> DEFINE n == Len(stack)
<1> DEFINE g == Frame(e)
<1>1. stack' = Append(Append(Below, f), g) /\ g.pt = pt
  BY DEF Call, Frame
<1> HIDE DEF g
<1>2. /\ n \in Nat /\ n >= 1 /\ Len(stack') = n + 1 /\ stack' # <<>>
      /\ \A k \in 1 .. n - 1 : stack'[k] = stack[k]
      /\ stack'[n] = f /\ stack'[n + 1] = g
  BY <1>1, StackCall
<1>3. f.pt = stack[n].pt
  BY TopFrame
<1> SUFFICES ASSUME NEW k \in 1 .. n + 1
             PROVE  stack'[k].pt = pt \/ \E j \in 1 .. n : stack'[k].pt = stack[j].pt
  BY <1>2 DEF Kept
<1>4. k = n + 1 \/ (k \in 1 .. n /\ stack'[k].pt = stack[k].pt)
  BY <1>2, <1>3
<1> QED
  BY <1>1, <1>2, <1>4

LEMMA SameKeeps ==
    ASSUME IsSeq(stack), stack # <<>>, NEW f, f.pt = Top.pt \/ f.pt = pt,
           stack' = Append(Below, f)
    PROVE  Kept /\ stack' # <<>>
<1> DEFINE n == Len(stack)
<1>1. /\ n \in Nat /\ n >= 1 /\ Len(stack') = n /\ stack' # <<>>
      /\ \A k \in 1 .. n - 1 : stack'[k] = stack[k]
      /\ stack'[n] = f
  BY StackSame
<1>2. Top = stack[n]
  BY TopFrame
<1> SUFFICES ASSUME NEW k \in 1 .. n
             PROVE  stack'[k].pt = pt \/ \E j \in 1 .. n : stack'[k].pt = stack[j].pt
  BY <1>1 DEF Kept
<1>3. k = n \/ k \in 1 .. n - 1
  BY <1>1
<1>4. stack'[k].pt = pt \/ stack'[k].pt = stack[k].pt
  BY <1>1, <1>2, <1>3
<1> QED
  BY <1>4

LEMMA ReturnKeeps ==
    ASSUME IsSeq(stack), stack # <<>>, NEW ok, NEW val, Return(ok, val)
    PROVE  Kept /\ ret'.st # "none"
<1> DEFINE n == Len(stack)
<1>1. /\ n \in Nat /\ n >= 1 /\ Len(stack') = n - 1
      /\ \A k \in 1 .. n - 1 : stack'[k] = stack[k]
  BY StackReturn DEF Return
<1>2. ret'.st \in {"ok", "fail"}
  BY DEF Return
<1>3. \A k \in 1 .. n - 1 : k \in 1 .. n
  BY <1>1
<1>4. Kept
  BY <1>1, <1>3 DEF Kept
<1> QED
  BY <1>2, <1>4

\* A panic leaves an error and no call.
LEMMA PanicMoves ==
    ASSUME Panic, UNCHANGED <<data, pt>>
    PROVE  Moves
<1>1. stack' = <<>> /\ Len(stack') = 0 /\ errs' # {} /\ res'.st = "panic"
  BY DEF Panic
<1>2. Kept
  BY <1>1 DEF Kept
<1> QED
  BY <1>1, <1>2 DEF Moves

\* What is left to show for the steps of the parse functions.
LEMMA MovesFacts ==
    ASSUME IsSeq(stack), stack # <<>>, res.st = "pending",
           UNCHANGED <<data, res>>, errs \subseteq errs',
           \/ pt' = pt
           \/ pt' = Top.pt
           \/ pt' = Read(pt) /\ errs' = errs \cup EncodingErr(Read(pt)),
           \/ \E f, e : f.pt = Top.pt /\ Call(f, e)
           \/ \E f : (f.pt = Top.pt \/ f.pt = pt) /\ stack' = Append(Below, f)
           \/ \E ok, val : Return(ok, val)
    PROVE  Moves
<1>1. Kept /\ (stack' = <<>> => ret'.st # "none")
  BY CallKeeps, SameKeeps, ReturnKeeps
<1> QED
  BY <1>1 DEF Moves

\* The step of a call that ends neither in a panic nor the parse.
Within ==
    \/ \E f, e : f.pt = Top.pt /\ Call(f, e)
    \/ \E f : (f.pt = Top.pt \/ f.pt = pt) /\ stack' = Append(Below, f)
    \/ \E ok, val : Return(ok, val)

\* The same call later began where it did.
LEMMA LaterPt == \A f, i, val : Later(f, i, val).pt = f.pt
BY DEF Later

\* restore stays or goes back to where the call began.
LEMMA RestoreMoves == Restore(Top.pt) \in {pt, Top.pt}
BY DEF Restore

\* The functions of the expressions that hold others ...
LEMMA ExprMoves ==
    ASSUME Seqs,
           \/ ParseRule \/ ParseAndExpr \/ ParseNotExpr
           \/ ParseChoiceExpr \/ ParseLabeledExpr \/ ParseSeqExpr
           \/ ParseZeroOrMoreExpr \/ ParseOneOrMoreExpr \/ ParseZeroOrOneExpr
    PROVE  Moves
<1> USE LaterPt
<1>1. ASSUME ParseRule
      PROVE  UNCHANGED <<data, res, errs, pt>> /\ Busy /\ Within
  BY <1>1 DEF ParseRule, Entered, Resumed, Busy, Within
<1>2. ASSUME NEW op, NEW want, ParseLookahead(op, want)
      PROVE  UNCHANGED <<data, res, errs>> /\ Busy /\ Within /\ pt' \in {pt, Top.pt}
  BY <1>2, RestoreMoves DEF ParseLookahead, Entered, Resumed, Busy, Within
<1>3. ASSUME ParseChoiceExpr \/ ParseLabeledExpr
      PROVE  UNCHANGED <<data, res, errs, pt>> /\ Busy /\ Within
  BY <1>3 DEF ParseChoiceExpr, ParseLabeledExpr, Entered, Resumed, Busy, Within
<1>4. ASSUME ParseSeqExpr
      PROVE  UNCHANGED <<data, res, errs>> /\ Busy /\ Within /\ pt' \in {pt, Top.pt}
  BY <1>4, RestoreMoves DEF ParseSeqExpr, Entered, Resumed, Busy, Within
<1>5. ASSUME NEW op, NEW min, NEW again, ParseRepeat(op, min, again)
      PROVE  UNCHANGED <<data, res, errs, pt>> /\ Busy /\ Within
  BY <1>5 DEF ParseRepeat, Entered, Resumed, Busy, Within
<1>6. UNCHANGED <<data, res, errs>> /\ Busy /\ Within /\ pt' \in {pt, Top.pt}
  BY <1>1, <1>2, <1>3, <1>4, <1>5
     DEF ParseAndExpr, ParseNotExpr, ParseZeroOrMoreExpr, ParseOneOrMoreExpr,
         ParseZeroOrOneExpr
<1> QED
  BY <1>6, MovesFacts DEF Seqs, Busy, Within

\* ... those that run a code block ...
LEMMA CodeMoves ==
    ASSUME Seqs, ParseActionExpr \/ ParseAndCodeExpr \/ ParseNotCodeExpr
    PROVE  Moves
<1>1. ASSUME NEW op, NEW want, ParseCode(op, want)
      PROVE  /\ UNCHANGED <<data, pt>>
             /\ Panic \/ (UNCHANGED res /\ errs \subseteq errs' /\ Busy /\ Within)
  <2>1. UNCHANGED <<data, pt>> /\ Busy
    BY <1>1 DEF ParseCode, Entered, Busy
  <2>2. PICK o : IF o.panic THEN Panic
                 ELSE /\ Return(o.ok = want, Nil)
                      /\ errs' = errs \cup IF o.err THEN {Err(Top.e.arg, pt)} ELSE {}
                      /\ UNCHANGED res
    BY <1>1 DEF ParseCode
  <2> QED
    BY <2>1, <2>2 DEF Within
<1>2. ASSUME ParseActionExpr
      PROVE  /\ UNCHANGED <<data, pt>>
             /\ Panic \/ (UNCHANGED res /\ errs \subseteq errs' /\ Busy /\ Within)
  <2>1. UNCHANGED <<data, pt>> /\ Busy
    BY <1>2 DEF ParseActionExpr, Entered, Resumed, Busy
  <2>2. CASE /\ Call(Top, Top.e.kids[1]) \/ Return(FALSE, ret.val)
             /\ UNCHANGED <<errs, cur, res>>
    BY <2>1, <2>2 DEF Within
  <2>3. CASE \E o \in Outcomes(Top.e.arg, Scope, Slice(cur')) :
                IF o.panic THEN Panic
                ELSE /\ Return(TRUE, o.val)
                     /\ errs' = errs \cup IF o.err THEN {Err(Top.e.arg, Top.pt)} ELSE {}
                     /\ UNCHANGED res
    BY <2>1, <2>3 DEF Within
  <2> QED
    BY <1>2, <2>2, <2>3 DEF ParseActionExpr
<1>3. /\ UNCHANGED <<data, pt>>
      /\ Panic \/ (UNCHANGED res /\ errs \subseteq errs' /\ Busy /\ Within)
  BY <1>1, <1>2 DEF ParseAndCodeExpr, ParseNotCodeExpr
<1> QED
  BY <1>3, PanicMoves, MovesFacts DEF Seqs, Busy, Within

\* ... the reference to a rule and the matchers.
LEMMA MatcherMoves ==
    ASSUME Seqs, \/ ParseRuleRefExpr
                 \/ ParseLitMatcher \/ ParseCharClassMatcher \/ ParseAnyMatcher
    PROVE  Moves
<1> USE LaterPt
<1>1. ASSUME ParseRuleRefExpr
      PROVE  UNCHANGED <<data, res, pt>> /\ errs \subseteq errs' /\ Busy /\ Within
  <2>1. \A e : Frame(e).pt = pt
    BY DEF Frame
  <2> QED
    BY <1>1, <2>1 DEF ParseRuleRefExpr, Entered, Busy, Within
<1>2. ASSUME ParseLitMatcher
      PROVE  /\ UNCHANGED <<data, res>> /\ Busy /\ Within
             /\ (pt' \in {pt, Top.pt} /\ errs' = errs) \/ Advance
  BY <1>2, RestoreMoves DEF ParseLitMatcher, Entered, Busy, Within
<1>3. ASSUME ParseCharClassMatcher \/ ParseAnyMatcher
      PROVE  /\ UNCHANGED <<data, res>> /\ Busy /\ Within
             /\ (pt' = pt /\ errs' = errs) \/ Advance
  BY <1>3 DEF ParseCharClassMatcher, ParseAnyMatcher, Entered, Busy, Within
<1>4. /\ UNCHANGED <<data, res>> /\ Busy /\ Within
      /\ (pt' \in {pt, Top.pt} /\ errs \subseteq errs') \/ Advance
  BY <1>1, <1>2, <1>3
<1> QED
  BY <1>4, MovesFacts DEF Seqs, Busy, Within, Advance

\* Such steps keep every position exact ...
LEMMA MovesExact ==
    ASSUME IInv, PositionInv, stack # <<>>, Moves
    PROVE  PositionInv'
<1>1. IsSeq(data) /\ IsSeq(stack) /\ Place(pt)
  BY DEF IInv, Seqs, Placed
<1>2. Exact(pt) /\ \A k \in 1 .. Len(stack) : Exact(stack[k].pt)
  BY DEF PositionInv
<1>3. Exact(Top.pt)
  BY <1>1, <1>2, TopFrame
<1>4. Exact(pt')
  BY <1>1, <1>2, <1>3, ReadExact DEF Moves
<1>5. \A k \in 1 .. Len(stack') : Exact(stack'[k].pt)
  BY <1>2 DEF Moves, Kept
<1>6. Exact(pt)' /\ \A k \in 1 .. Len(stack') : Exact(stack[k].pt)'
  BY <1>4, <1>5 DEF Moves, Exact, IsLast, NewLines
<1> QED
  BY <1>6 DEF PositionInv, Moves

\* ... and every position clean.
LEMMA MovesClean ==
    ASSUME IInv, ErrorInv, stack # <<>>, Moves
    PROVE  ErrorInv'
<1>1. IsSeq(data) /\ IsSeq(stack) /\ Place(pt)
  BY DEF IInv, Seqs, Placed
<1>2. Clean(pt) /\ Clean(Top.pt) /\ \A k \in 1 .. Len(stack) : Clean(stack[k].pt)
  BY <1>1, TopFrame DEF ErrorInv
<1>3. data' = data /\ (errs' = {} => errs = {})
  BY DEF Moves
<1>4. Clean(pt)'
  <2> SUFFICES ASSUME errs' = {}
               PROVE  \A k \in 1 .. pt'.offset + pt'.w : data[k] # RuneError
    BY <1>3 DEF Clean
  <2>1. CASE pt' \in {pt, Top.pt}
    BY <1>2, <1>3, <2>1 DEF Clean
  <2>2. CASE pt' = Read(pt) /\ errs' = errs \cup EncodingErr(Read(pt))
    <3>1. errs = {} => \A k \in 1 .. pt.offset + pt.w : data[k] # RuneError
      BY <1>2 DEF Clean
    <3> QED
      BY <1>1, <2>2, <3>1, ReadClean
  <2> QED
    BY <2>1, <2>2 DEF Moves
<1>5. \A k \in 1 .. Len(stack') : Clean(stack[k].pt)'
  <2> SUFFICES ASSUME NEW k \in 1 .. Len(stack'), errs' = {}
               PROVE  \A j \in 1 .. stack'[k].pt.offset + stack'[k].pt.w : data[j] # RuneError
    BY <1>3 DEF Clean
  <2>1. stack'[k].pt = pt \/ \E j \in 1 .. Len(stack) : stack'[k].pt = stack[j].pt
    BY DEF Moves, Kept
  <2> QED
    BY <1>2, <1>3, <2>1 DEF Clean
<1> QED
  BY <1>4, <1>5 DEF ErrorInv, Moves

\* parse reads the first rune, or fails without a rule.
LEMMA ParseExact ==
    ASSUME IInv, PositionInv, ErrorInv, Parse
    PROVE  PositionInv' /\ ErrorInv'
<1>1. /\ IsSeq(data) /\ Place(pt) /\ pt = Start /\ data' = data
      /\ stack = <<>> /\ ret.st = "none" /\ ret' = ret /\ res.st = "pending"
  BY DEF IInv, Seqs, Placed, PositionInv, Parse
<1>2. CASE /\ res' = [st |-> "fail", val |-> Nil] /\ errs' = {Err("grammar has no rule", pt)}
           /\ UNCHANGED <<pt, stack>>
  <2>1. /\ stack' = <<>> /\ Len(stack') = 0 /\ ret'.st = "none"
        /\ res'.st = "fail" /\ errs' # {}
    BY <1>1, <1>2
  <2>2. PositionInv'
    BY <2>1 DEF PositionInv
  <2>3. ErrorInv'
    BY <2>1 DEF ErrorInv, Clean
  <2> QED
    BY <2>2, <2>3
<1>3. CASE /\ Advance /\ UNCHANGED res
           /\ stack' = <<[e |-> Rules[1], i |-> 0, pt |-> pt', val |-> <<>>, v |-> 0, r |-> 0]>>
  <2>1. Len(stack') = 1 /\ stack'[1].pt = pt' /\ stack' # <<>>
    BY <1>3
  <2>2. Exact(pt')
    BY <1>1, <1>3, ReadExact DEF Advance
  <2>3. Exact(pt)'
    BY <1>1, <2>2 DEF Exact, IsLast, NewLines
  <2>4. Clean(pt)'
    <3>1. errs = {} => \A k \in 1 .. pt.offset + pt.w : data[k] # RuneError
      BY DEF ErrorInv, Clean
    <3>2. errs' = {} => \A k \in 1 .. pt'.offset + pt'.w : data[k] # RuneError
      BY <1>1, <1>3, <3>1, ReadClean DEF Advance
    <3> QED
      BY <1>1, <3>2 DEF Clean
  <2>5. \A k \in 1 .. Len(stack') : stack'[k].pt = pt'
    BY <2>1
  <2>6. PositionInv'
    BY <2>1, <2>3, <2>5 DEF PositionInv, Exact
  <2>7. ErrorInv'
    BY <1>1, <1>3, <2>4, <2>5 DEF ErrorInv, Clean
  <2> QED
    BY <2>6, <2>7
<1> QED
  BY <1>2, <1>3 DEF Parse

\* parse returns.
LEMMA ParseEndExact ==
    ASSUME IInv, PositionInv, ErrorInv, ParseEnd
    PROVE  PositionInv' /\ ErrorInv'
<1>1. /\ UNCHANGED <<data, pt, stack, ret>> /\ stack = <<>> /\ ret.st \in {"ok", "fail"}
      /\ res'.st = ret.st
      /\ errs' = IF ret.st = "fail" /\ errs = {} THEN {Err("no match found", pt)} ELSE errs
  BY DEF IInv, TypeOK, ParseEnd
<1>2. Exact(pt)
  BY <1>1 DEF PositionInv
<1>3. Exact(pt)'
  BY <1>1, <1>2 DEF Exact, IsLast, NewLines
<1>4. stack' = <<>> /\ Len(stack') = 0 /\ ret'.st # "none"
  BY <1>1
<1>5. PositionInv'
  BY <1>3, <1>4 DEF PositionInv
<1>6. errs' = {} => errs = {} /\ ret.st # "fail"
  BY <1>1
<1>7. ErrorInv'
  BY <1>1, <1>4, <1>6 DEF ErrorInv, Clean
<1> QED
  BY <1>5, <1>7

\* Every step keeps both invariants.
LEMMA PositionStep ==
    IInv /\ (PositionInv /\ ErrorInv) /\ [Next]_vars => (PositionInv /\ ErrorInv)'
<1> SUFFICES ASSUME IInv, PositionInv, ErrorInv, [Next]_vars
             PROVE  PositionInv' /\ ErrorInv'
  OBVIOUS
<1>1. ASSUME Moves, stack # <<>>
      PROVE  PositionInv' /\ ErrorInv'
  BY <1>1, MovesExact, MovesClean
<1>2. CASE \/ ParseRule \/ ParseAndExpr \/ ParseNotExpr
           \/ ParseChoiceExpr \/ ParseLabeledExpr \/ ParseSeqExpr
           \/ ParseZeroOrMoreExpr \/ ParseOneOrMoreExpr \/ ParseZeroOrOneExpr
  <2>1. stack # <<>>
    BY <1>2 DEF ParseRule, ParseAndExpr, ParseNotExpr, ParseLookahead, ParseChoiceExpr,
                ParseLabeledExpr, ParseSeqExpr, ParseZeroOrMoreExpr, ParseOneOrMoreExpr,
                ParseZeroOrOneExpr, ParseRepeat, Entered, Resumed
  <2> QED
    BY <1>1, <1>2, <2>1, ExprMoves DEF IInv
<1>3. CASE ParseActionExpr \/ ParseAndCodeExpr \/ ParseNotCodeExpr
  <2>1. stack # <<>>
    BY <1>3 DEF ParseActionExpr, ParseAndCodeExpr, ParseNotCodeExpr, ParseCode,
                Entered, Resumed
  <2> QED
    BY <1>1, <1>3, <2>1, CodeMoves DEF IInv
<1>4. CASE \/ ParseRuleRefExpr
           \/ ParseLitMatcher \/ ParseCharClassMatcher \/ ParseAnyMatcher
  <2>1. stack # <<>>
    BY <1>4 DEF ParseRuleRefExpr, ParseLitMatcher, ParseCharClassMatcher,
                ParseAnyMatcher, Entered
  <2> QED
    BY <1>1, <1>4, <2>1, MatcherMoves DEF IInv
<1>5. CASE Terminating \/ UNCHANGED vars
  <2>1. UNCHANGED <<data, pt, stack, ret, errs, res>>
    BY <1>5 DEF Terminating, vars
  <2>2. PositionInv'
    BY <2>1 DEF PositionInv, Exact, IsLast, NewLines
  <2>3. ErrorInv'
    BY <2>1 DEF ErrorInv, Clean
  <2> QED
    BY <2>2, <2>3
<1> QED
  BY <1>2, <1>3, <1>4, <1>5, ParseExact, ParseEndExact DEF Next

\* Both invariants hold in every state of every parse.
LEMMA PositionKnown == Spec => [](IInv /\ PositionInv /\ ErrorInv)
<1>1. Init => PositionInv /\ ErrorInv
  <2> SUFFICES ASSUME Init PROVE PositionInv /\ ErrorInv
    OBVIOUS
  <2>1. /\ stack = <<>> /\ Len(stack) = 0 /\ ret.st = "none" /\ res.st = "pending"
        /\ pt = Start /\ pt.offset + pt.w = 0
    BY DEF Init, NoRet, Pending, Start
  <2> QED
    BY <2>1 DEF PositionInv, ErrorInv, Clean
<1> QED
  BY <1>1, PositionStep, PegInvariant, PTL DEF Spec

\* The number of the last new line is the one that LastNewLine chooses.
LEMMA LastIsLast ==
    ASSUME NEW o \in Nat, NEW k \in 0 .. o + 1, IsLast(k, o)
    PROVE  LastNewLine(o) = k
<1> DEFINE P(m) == IsLast(m, o)
<1>1. LastNewLine(o) = CHOOSE m \in 0 .. o + 1 : P(m)
  BY DEF LastNewLine, IsLast
<1>2. ASSUME NEW m \in 0 .. o + 1, P(m)
      PROVE  m = k
  <2>1. m \in Int /\ k \in Int /\ 0 <= m /\ 0 <= k /\ m <= o + 1 /\ k <= o + 1
    OBVIOUS
  <2>2. ASSUME m < k PROVE FALSE
    <3>1. k \in m + 1 .. o + 1 /\ k > 0
      BY <2>1, <2>2
    <3> QED
      BY <1>2, <3>1 DEF IsLast
  <2>3. ASSUME k < m PROVE FALSE
    <3>1. m \in k + 1 .. o + 1 /\ m > 0
      BY <2>1, <2>3
    <3> QED
      BY <1>2, <3>1 DEF IsLast
  <2> QED
    BY <2>1, <2>2, <2>3
<1> HIDE DEF P
<1>3. P(k)
  BY DEF P
<1> QED
  BY <1>1, <1>2, <1>3

\* While a parse is in progress the line and the column of the position are
\* those of its offset, for every grammar and however often the parser has
\* gone back, but for the column at the end of the input, which may be higher.
THEOREM PegPositionTrue == Spec => []PositionTrue
<1>1. ASSUME IInv, PositionInv PROVE PositionTrue
  <2> SUFFICES ASSUME stack # <<>>
               PROVE  /\ pt.offset < Len(data) =>
                           pt.col = pt.offset + 1 - LastNewLine(pt.offset)
                      /\ pt.col >= pt.offset + 1 - LastNewLine(pt.offset)
                      /\ pt.line = 1 + Cardinality(NewLines(pt.offset))
    BY DEF PositionTrue, NewLines
  <2>1. Exact(pt) /\ pt.offset \in Nat
    BY <1>1, PositionFields DEF PositionInv, IInv, Seqs, TypeOK
  <2>2. PICK k \in 0 .. pt.offset + 1 :
           /\ IsLast(k, pt.offset)
           /\ pt.offset < Len(data) => pt.col = pt.offset + 1 - k
           /\ pt.col >= pt.offset + 1 - k
    BY <2>1 DEF Exact
  <2>3. LastNewLine(pt.offset) = k
    BY <2>1, <2>2, LastIsLast
  <2> QED
    BY <2>1, <2>2, <2>3 DEF Exact
<1> QED
  BY <1>1, PositionKnown, PTL

\* Parse does not fail, and code blocks do not panic, without an error; and
\* a parse without an error has consumed no byte that is not UTF-8.
THEOREM PegNoSilentFailure == Spec => []NoSilentFailure
<1>1. ASSUME IInv, ErrorInv PROVE NoSilentFailure
  <2>1. pt.offset \in Nat /\ pt.w \in {0, 1}
    BY <1>1, PositionFields DEF IInv, Seqs, TypeOK
  <2>2. \A k \in 1 .. pt.offset : k \in 1 .. pt.offset + pt.w
    BY <2>1
  <2> QED
    BY <1>1, <2>2 DEF ErrorInv, Clean, NoSilentFailure
<1> QED
  BY <1>1, PositionKnown, PTL

=============================================================================
