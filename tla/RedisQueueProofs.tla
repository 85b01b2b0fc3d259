-------------------------- MODULE RedisQueueProofs --------------------------
(***************************************************************************)
(* Proofs about the queues of the Redis broker, for any number of lists,   *)
(* messages, brokers and consumers, any capacities and any timeouts.       *)
(***************************************************************************)
EXTENDS RedisQueue, TLAPS

\* Most leaves need no arithmetic: Zenon tries them before SMT does.
USE ZenonT(5), SMTT(10)

\* A consumer that checks or sends a message holds one.
HoldsMsg ==
  \A c \in Consumers : pc[c] \in {"check", "send"} => held[c] \in Msgs

\* A message that is not registered yet has left no trace.
NewUnused ==
  \A m \in Msgs : reg[m] = "new" =>
    /\ expires[m] = 0
    /\ \A l \in Lists : m \notin Range(list[l])
    /\ \A c \in Consumers : held[c] # m
    /\ \A c \in Consumers : \A i \in DOMAIN chan[c] : chan[c][i].msg # m

\* The key of a message expires when its timeout does, in milliseconds.
KeyExpiry ==
  \A m \in Msgs : expires[m] # 0 =>
    expires[m] = (pushed[m].at \div Resolution) + pushed[m].ms

\* The time left of a message about to be sent is right.
ReadWithin ==
  \A c \in Consumers : pc[c] = "send" =>
    WithinTimeout(held[c], read[c].at, read[c].ttl)

-----------------------------------------------------------------------------
(* Sequences *)

\* LPUSH puts an element before a list ...
LEMMA Prepended ==
  ASSUME NEW S, NEW s \in Seq(S), NEW e \in S
  PROVE  /\ <<e>> \o s \in Seq(S)
         /\ Len(<<e>> \o s) = 1 + Len(s)
         /\ \A i \in 1..(1 + Len(s)) : (<<e>> \o s)[i] = IF i <= 1 THEN e ELSE s[i - 1]
<1>1. <<e>> \in Seq(S) /\ Len(<<e>>) = 1 /\ <<e>>[1] = e
  OBVIOUS
<1> DEFINE t == <<e>>
<1> HIDE DEF t
<1>2. /\ t \o s \in Seq(S) /\ Len(t \o s) = Len(t) + Len(s)
      /\ \A i \in 1..(Len(t) + Len(s)) : (t \o s)[i] = IF i <= Len(t) THEN t[i] ELSE s[i - Len(t)]
  BY <1>1 DEF t
<1>3. t \in Seq(S) /\ Len(t) = 1 /\ t[1] = e /\ Len(s) \in Nat
  BY <1>1 DEF t
<1>4. \A i \in 1..(1 + Len(s)) : (t \o s)[i] = IF i <= 1 THEN e ELSE s[i - 1]
  BY <1>2, <1>3
<1> QED
  BY <1>2, <1>3, <1>4 DEF t

\* ... a send puts one after a channel's ...
LEMMA Appended ==
  ASSUME NEW S, NEW s \in Seq(S), NEW e \in S
  PROVE  /\ Append(s, e) \in Seq(S) /\ Len(Append(s, e)) = Len(s) + 1
         /\ DOMAIN Append(s, e) = 1..(Len(s) + 1)
         /\ \A i \in 1..Len(s) : Append(s, e)[i] = s[i]
         /\ Append(s, e)[Len(s) + 1] = e
OBVIOUS

\* ... and LTRIM and RPOP leave a part of a list.
LEMMA Part ==
  ASSUME NEW S, NEW s, NEW a \in Int, NEW b \in Int, \A i \in a..b : s[i] \in S
  PROVE  /\ SubSeq(s, a, b) \in Seq(S)
         /\ a <= b + 1 => Len(SubSeq(s, a, b)) = b - a + 1
         /\ \A i \in 1..(b - a + 1) : SubSeq(s, a, b)[i] = s[a + i - 1]
OBVIOUS

-----------------------------------------------------------------------------
\* Time to live arithmetic: if ttl milliseconds are left at b of ms
\* milliseconds given at a, they end less than a millisecond after the end
\* of those.
LEMMA MsArithmetic ==
  ASSUME NEW R \in Nat \ {0}, NEW a \in Nat, NEW b \in Nat, NEW ms \in Nat,
         NEW ttl \in Nat, (b \div R) + ttl = (a \div R) + ms
  PROVE  b + ttl * R < a + (ms + 1) * R
<1> DEFINE p == a \div R
           q == b \div R
<1>1. p \in Int /\ q \in Int /\ p * R <= a /\ b < (q + 1) * R
  BY SMT
<1> HIDE DEF p, q
<1>2. (q + ttl) * R = (p + ms) * R
  BY DEF p, q
<1>3. /\ (q + ttl) * R = q * R + ttl * R
      /\ (p + ms) * R = p * R + ms * R
      /\ (q + 1) * R = q * R + R
      /\ (ms + 1) * R = ms * R + R
  BY <1>1, SMT
<1>4. p * R \in Int /\ q * R \in Int /\ ttl * R \in Int /\ ms * R \in Int
  BY <1>1, SMT
<1> QED
  BY <1>1, <1>2, <1>3, <1>4, SMT

\* Dropping the newest messages of a list that is too long.
LEMMA TrimType ==
  ASSUME NEW s \in Seq(Msgs), NEW n \in Nat, n <= Len(s)
  PROVE  /\ Trim(s, n) \in Seq(Msgs)
         /\ Len(Trim(s, n)) = n
         /\ \A i \in 1..n : Trim(s, n)[i] = s[Len(s) - n + i]
<1>1. \A i \in (Len(s) - n + 1)..Len(s) : s[i] \in Msgs
  OBVIOUS
<1> QED
  BY <1>1, Part DEF Trim

\* What the registration script does to the list of the message.
LEMMA ScriptList ==
  ASSUME TypeOK, NEW p \in Producers, NEW m \in Msgs,
         NEW t \in Timeouts, Script(p, m, t)
  PROVE  /\ list' \in [Lists -> Seq(Msgs)]
         /\ \A l \in Lists \ {Home[m]} : list'[l] = list[l]
         /\ Cap[p] > 0 => Len(list'[Home[m]]) <= Cap[p]
         /\ \A l \in Lists : Range(list'[l]) \subseteq Range(list[l]) \cup {m}
         /\ \A l \in Lists : (Cap[p] > 0 => Len(list[l]) <= Cap[p]) =>
              Range(list[l]) \subseteq Range(list'[l])
<1> DEFINE l == Home[m]
           s == <<m>> \o list[l]
           new == IF Exceeds(p, s) THEN Trim(s, Cap[p]) ELSE s
<1>1. l \in Lists /\ Cap[p] \in Int /\ list[l] \in Seq(Msgs)
  BY QueueAssumption DEF TypeOK
<1>2. <<m>> \in Seq(Msgs) /\ Len(<<m>>) = 1 /\ <<m>>[1] = m
  OBVIOUS
<1>3. /\ s \in Seq(Msgs)
      /\ Len(s) = 1 + Len(list[l])
      /\ \A i \in 1..Len(s) : s[i] = IF i <= 1 THEN m ELSE list[l][i - 1]
  BY <1>1, Prepended
<1>4. list' = [list EXCEPT ![l] = new]
  BY DEF Script
<1> HIDE DEF s, l
<1>a. ASSUME Exceeds(p, s)
      PROVE  /\ Cap[p] \in Nat /\ 0 < Cap[p] /\ Cap[p] < Len(s)
             /\ new = Trim(s, Cap[p])
             /\ new \in Seq(Msgs)
             /\ Len(new) = Cap[p]
             /\ \A i \in 1..Cap[p] : new[i] = s[Len(s) - Cap[p] + i]
  <2>1. Cap[p] \in Nat /\ 0 < Cap[p] /\ Cap[p] < Len(s)
    BY <1>1, <1>3, <1>a DEF Exceeds
  <2>2. new = Trim(s, Cap[p])
    BY <1>a
  <2> HIDE DEF new
  <2>3. Cap[p] <= Len(s)
    BY <1>3, <2>1
  <2>4. /\ Trim(s, Cap[p]) \in Seq(Msgs)
        /\ Len(Trim(s, Cap[p])) = Cap[p]
        /\ \A i \in 1..Cap[p] : Trim(s, Cap[p])[i] = s[Len(s) - Cap[p] + i]
    <3> HIDE DEF s
    <3> QED
      BY <1>3, <2>1, <2>3, TrimType, Zenon
  <2> QED
    BY <2>1, <2>2, <2>4
<1>b. ASSUME ~Exceeds(p, s)
      PROVE  new = s /\ (Cap[p] > 0 => Len(s) <= Cap[p])
  BY <1>1, <1>3, <1>b DEF Exceeds
<1> HIDE DEF new
<1>5. /\ new \in Seq(Msgs)
      /\ Cap[p] > 0 => Len(new) <= Cap[p]
  <2>1. CASE Exceeds(p, s)
    BY <1>a, <2>1
  <2>2. CASE ~Exceeds(p, s)
    BY <1>3, <1>b, <2>2
  <2> QED
    BY <2>1, <2>2
<1>6. \A i \in 1..Len(new) : new[i] \in Range(list[l]) \cup {m}
  <2>1. \A i \in 1..Len(s) : s[i] \in Range(list[l]) \cup {m}
    <3>1. \A i \in 1..Len(list[l]) : list[l][i] \in Range(list[l])
      BY <1>1 DEF Range
    <3> QED
      BY <1>1, <1>3, <3>1
  <2>2. CASE Exceeds(p, s)
    <3>1. \A i \in 1..Cap[p] : Len(s) - Cap[p] + i \in 1..Len(s)
      BY <1>a, <1>3, <2>2
    <3> QED
      BY <1>a, <2>1, <2>2, <3>1, Zenon
  <2>3. CASE ~Exceeds(p, s)
    BY <1>b, <2>1, <2>3
  <2> QED
    BY <2>2, <2>3
<1>7. ASSUME Cap[p] > 0 => Len(list[l]) <= Cap[p]
      PROVE  \A i \in 1..Len(list[l]) : list[l][i] \in Range(new)
  <2>1. \A i \in 1..Len(list[l]) : i + 1 \in 1..Len(s) /\ s[i + 1] = list[l][i]
    BY <1>1, <1>3
  <2>2. CASE Exceeds(p, s)
    <3>1. Len(s) = Cap[p] + 1
      BY <1>1, <1>3, <1>7, <2>2 DEF Exceeds
    <3>2. /\ Len(new) = Cap[p]
          /\ \A i \in 1..Cap[p] : new[i] = s[Len(s) - Cap[p] + i]
      BY <1>a, <2>2
    <3>3. ASSUME NEW i \in 1..Len(list[l])
          PROVE  i \in DOMAIN new /\ new[i] = list[l][i]
      <4>0. Len(list[l]) \in Nat /\ Len(list[l]) = Cap[p]
        BY <1>1, <1>3, <3>1
      <4>1. i \in 1..Cap[p] /\ Len(s) - Cap[p] + i = i + 1
        BY <1>1, <3>1, <4>0
      <4>2. DOMAIN new = 1..Cap[p]
        BY <1>5, <3>2
      <4> QED
        BY <2>1, <3>2, <4>1, <4>2, Zenon
    <3> QED
      BY <3>3 DEF Range
  <2>3. CASE ~Exceeds(p, s)
    BY <1>b, <1>1, <1>3, <2>1, <2>3 DEF Range
  <2> QED
    BY <2>2, <2>3
<1>8. /\ list' \in [Lists -> Seq(Msgs)]
      /\ list'[l] = new
      /\ \A k \in Lists \ {l} : list'[k] = list[k]
  BY <1>1, <1>4, <1>5 DEF TypeOK
<1>9. /\ Range(new) \subseteq Range(list[l]) \cup {m}
      /\ (Cap[p] > 0 => Len(list[l]) <= Cap[p]) =>
            Range(list[l]) \subseteq Range(new)
  BY <1>1, <1>5, <1>6, <1>7 DEF Range
<1> QED
  BY <1>5, <1>8, <1>9 DEF l

\* What removing the oldest message does.
LEMMA PopList ==
  ASSUME TypeOK, NEW c \in Consumers, NEW i \in DOMAIN Keys[c],
         FirstNonEmpty(c, i), RemoveOldest(Keys[c][i])
  PROVE  /\ list' \in [Lists -> Seq(Msgs)]
         /\ Keys[c][i] \in Lists
         /\ Oldest(Keys[c][i]) \in Msgs
         /\ Oldest(Keys[c][i]) \in Range(list[Keys[c][i]])
         /\ \A k \in Lists : Len(list'[k]) <= Len(list[k])
         /\ \A k \in Lists : Range(list'[k]) \subseteq Range(list[k])
<1> DEFINE l == Keys[c][i]
<1>1. l \in Lists /\ list[l] \in Seq(Msgs) /\ list[l] # <<>>
  BY QueueAssumption DEF TypeOK, FirstNonEmpty
<1>2. Len(list[l]) \in Nat \ {0}
  BY <1>1
<1>3. Oldest(l) \in Msgs /\ Oldest(l) \in Range(list[l])
  BY <1>1, <1>2 DEF Oldest, Range
<1> DEFINE s == SubSeq(list[l], 1, Len(list[l]) - 1)
<1>4. list' = [list EXCEPT ![l] = s]
  BY DEF RemoveOldest
<1>5. /\ s \in Seq(Msgs)
      /\ Len(s) = Len(list[l]) - 1
      /\ \A j \in 1..Len(s) : s[j] = list[l][j]
  <2>1. \A j \in 1..(Len(list[l]) - 1) : list[l][j] \in Msgs
    BY <1>1
  <2> QED
    BY <1>2, <2>1, Part
<1> HIDE DEF s
<1>6. Range(s) \subseteq Range(list[l])
  BY <1>1, <1>5 DEF Range
<1> HIDE DEF l
<1>7. /\ list' \in [Lists -> Seq(Msgs)]
      /\ list'[l] = s
      /\ \A k \in Lists \ {l} : list'[k] = list[k]
  BY <1>1, <1>4, <1>5 DEF TypeOK
<1>8. \A k \in Lists : Len(list[k]) \in Nat
  BY DEF TypeOK
<1> QED
  BY <1>1, <1>2, <1>3, <1>5, <1>6, <1>7, <1>8, SMTT(30) DEF l

-----------------------------------------------------------------------------
\* The timeout in milliseconds and the Redis clock are integers.
LEMMA MsTypes ==
  ASSUME TypeOK
  PROVE  /\ RedisMs \in Nat
         /\ \A t \in Timeouts : TimeoutMs(t) \in Int
<1>1. Resolution \in Nat /\ Resolution > 0 /\ DefaultMs \in Nat
  BY QueueAssumption
<1>2. \A n \in Nat : n \div Resolution \in Nat
  BY <1>1
<1>3. RedisMs \in Nat
  BY <1>2 DEF TypeOK, RedisMs
<1>4. ASSUME NEW t \in Timeouts
      PROVE  TimeoutMs(t) \in Int
  <2>1. t \in Int
    BY QueueAssumption
  <2>2. Truncate(t) \in Int
    BY <1>1, <2>1 DEF Truncate
  <2> QED
    BY <1>1, <2>2 DEF TimeoutMs
<1> QED
  BY <1>3, <1>4

\* Every step of the system keeps the types.
LEMMA TypeStep ==
  ASSUME TypeOK, HoldsMsg, [Next]_vars
  PROVE  TypeOK' /\ HoldsMsg'
<1>1. ASSUME NEW p \in Producers, NEW m \in Msgs, NEW t \in Timeouts,
             Register(p, m, t) \/ RegisterLost(p, m, t)
      PROVE  TypeOK' /\ HoldsMsg'
  <2>1. Script(p, m, t) /\ UNCHANGED <<now, loopVars>>
    BY <1>1 DEF Register, RegisterLost
  <2>2. list' \in [Lists -> Seq(Msgs)]
    BY <2>1, ScriptList
  <2>3. reg' \in [Msgs -> {"new", "ok", "err"}]
    BY <1>1, Zenon DEF Register, RegisterLost, TypeOK
  <2>4. TimeoutMs(t) \in Nat /\ RedisMs + TimeoutMs(t) \in Nat
    BY <2>1, MsTypes DEF Script
  <2>5. expires' \in [Msgs -> Nat]
    BY <2>1, <2>4 DEF Script, TypeOK
  <2>6. serial' \in Nat /\ pushed' \in [Msgs -> [no : Nat, at : Nat, ms : Nat]]
    BY <2>1, <2>4 DEF Script, TypeOK
  <2> QED
    BY <2>1, <2>2, <2>3, <2>5, <2>6, Zenon DEF TypeOK, HoldsMsg, loopVars
<1>2. ASSUME NEW m \in Msgs, RegisterFail(m)
      PROVE  TypeOK' /\ HoldsMsg'
  BY <1>2 DEF RegisterFail, TypeOK, HoldsMsg, redisVars, loopVars, historyVars
<1>3. ASSUME NEW c \in Consumers, Pop(c)
      PROVE  TypeOK' /\ HoldsMsg'
  <2>1. PICK i \in DOMAIN Keys[c] :
          /\ FirstNonEmpty(c, i)
          /\ held' = [held EXCEPT ![c] = Oldest(Keys[c][i])]
          /\ RemoveOldest(Keys[c][i])
    BY <1>3, Zenon DEF Pop
  <2>2. list' \in [Lists -> Seq(Msgs)] /\ Oldest(Keys[c][i]) \in Msgs
    BY <2>1, PopList
  <2> QED
    BY <1>3, <2>1, <2>2, SMTT(30) DEF Pop, TypeOK, HoldsMsg, historyVars
<1>4. ASSUME NEW c \in Consumers, PopLost(c)
      PROVE  TypeOK' /\ HoldsMsg'
  <2>1. list' \in [Lists -> Seq(Msgs)]
    BY <1>4, PopList DEF PopLost
  <2> QED
    BY <1>4, <2>1 DEF PopLost, TypeOK, HoldsMsg, historyVars
<1>5. ASSUME NEW c \in Consumers, PopFail(c) \/ CloseChan(c) \/ Break(c)
      PROVE  TypeOK' /\ HoldsMsg'
  BY <1>5, Zenon DEF PopFail, CloseChan, Break, TypeOK, HoldsMsg, redisVars,
              historyVars
<1>6. ASSUME NEW c \in Consumers, Check(c)
      PROVE  TypeOK' /\ HoldsMsg'
  <2>1. held[c] \in Msgs /\ expires[held[c]] \in Nat
    BY <1>6 DEF Check, HoldsMsg, TypeOK
  <2>2. PTTL(held[c]) \in Nat
    BY <2>1, MsTypes DEF PTTL
  <2>3. UNCHANGED <<now, list, reg, link, chan, historyVars>>
    BY <1>6 DEF Check
  <2>4. expires' \in [Msgs -> Nat]
    BY <1>6, <2>1 DEF Check, TypeOK
  <2>5. CASE PTTL(held[c]) > 0
    <3>1. /\ pc' = [pc EXCEPT ![c] = "send"]
          /\ read' = [read EXCEPT ![c] = [at |-> now, ttl |-> PTTL(held[c])]]
          /\ held' = held
      BY <1>6, <2>5 DEF Check
    <3>2. [at |-> now, ttl |-> PTTL(held[c])] \in [at : Nat, ttl : Nat]
      BY <2>2, QueueAssumption DEF TypeOK
    <3>3. read' \in [Consumers -> [at : Nat, ttl : Nat]]
      BY <3>1, <3>2 DEF TypeOK
    <3> QED
      BY <2>1, <2>3, <2>4, <3>1, <3>3, Zenon DEF TypeOK, HoldsMsg, historyVars
  <2>6. CASE ~(PTTL(held[c]) > 0)
    <3>1. /\ pc' = [pc EXCEPT ![c] = "pop"]
          /\ held' = [held EXCEPT ![c] = NoMsg]
          /\ read' = read
      BY <1>6, <2>6 DEF Check
    <3> QED
      BY <2>3, <2>4, <3>1 DEF TypeOK, HoldsMsg, historyVars
  <2> QED
    BY <2>5, <2>6
<1>7. ASSUME NEW c \in Consumers, CheckFail(c)
      PROVE  TypeOK' /\ HoldsMsg'
  <2>1. expires' = expires \/ expires' = [expires EXCEPT ![held[c]] = 0]
    BY <1>7 DEF CheckFail
  <2>a. expires' \in [Msgs -> Nat]
    <3>1. expires \in [Msgs -> Nat]
      BY DEF TypeOK
    <3>2. [expires EXCEPT ![held[c]] = 0] \in [Msgs -> Nat]
      BY <3>1, Zenon
    <3> QED
      BY <2>1, <3>1, <3>2
  <2>2. link' \in [Consumers -> {"up", "down"}]
    BY <1>7 DEF CheckFail, TypeOK
  <2> QED
    BY <1>7, <2>a, <2>2 DEF CheckFail, TypeOK, HoldsMsg, historyVars
<1>8. ASSUME NEW c \in Consumers, Send(c)
      PROVE  TypeOK' /\ HoldsMsg'
  <2> DEFINE d == [msg |-> held[c], at |-> read[c].at, ttl |-> read[c].ttl]
  <2>1. d \in Delivery
    BY <1>8 DEF Send, HoldsMsg, TypeOK, Delivery
  <2>2. chan' = [chan EXCEPT ![c] = Append(@, d)]
    BY <1>8 DEF Send
  <2> HIDE DEF d
  <2>3. chan' \in [Consumers -> Seq(Delivery)]
    BY <2>1, <2>2 DEF TypeOK
  <2> QED
    BY <1>8, <2>3, SMTT(30) DEF Send, TypeOK, HoldsMsg, redisVars, historyVars
<1>9. CASE Tick
  BY <1>9, QueueAssumption
  DEF Tick, TypeOK, HoldsMsg, redisVars, loopVars, historyVars
<1>10. CASE UNCHANGED vars
  BY <1>10 DEF vars, TypeOK, HoldsMsg
<1> QED
  BY <1>1, <1>2, <1>3, <1>4, <1>5, <1>6, <1>7, <1>8, <1>9, <1>10
  DEF Next, Loop, Fault

\* The clock, the lists, the keys, the loops and the channels keep the shape
\* TypeOK describes.
THEOREM TypeCorrect == Spec => []TypeOK
<1>1. Init => TypeOK /\ HoldsMsg
  BY QueueAssumption DEF Init, TypeOK, HoldsMsg
<1>2. TypeOK /\ HoldsMsg /\ [Next]_vars => (TypeOK /\ HoldsMsg)'
  BY TypeStep
<1> QED
  BY <1>1, <1>2, PTL DEF Spec

-----------------------------------------------------------------------------
\* How the lists change: they grow by a registration, shrink by a pop, and
\* nothing else touches them.
LEMMA ListStep ==
  ASSUME TypeOK, [Next]_vars
  PROVE  \/ \E p \in Producers, m \in Msgs, t \in Timeouts : Script(p, m, t)
         \/ \E c \in Consumers : \E i \in DOMAIN Keys[c] :
              /\ pc[c] = "pop" /\ pc'[c] # "pop"
              /\ FirstNonEmpty(c, i)
              /\ RemoveOldest(Keys[c][i])
         \/ UNCHANGED list
<1>1. ASSUME NEW p \in Producers, NEW m \in Msgs, NEW t \in Timeouts,
             Register(p, m, t) \/ RegisterLost(p, m, t)
      PROVE  Script(p, m, t)
  BY <1>1 DEF Register, RegisterLost
<1>2. ASSUME NEW c \in Consumers, Pop(c) \/ PopLost(c)
      PROVE  /\ pc[c] = "pop" /\ pc'[c] # "pop"
             /\ \E i \in DOMAIN Keys[c] :
                  FirstNonEmpty(c, i) /\ RemoveOldest(Keys[c][i])
  BY <1>2 DEF Pop, PopLost, TypeOK
<1>3. ASSUME NEW c \in Consumers,
             \/ PopFail(c) \/ CloseChan(c) \/ Break(c) \/ Check(c)
             \/ CheckFail(c) \/ Send(c)
      PROVE  UNCHANGED list
  BY <1>3 DEF PopFail, CloseChan, Break, Check, CheckFail, Send, redisVars
<1>4. ASSUME NEW m \in Msgs, RegisterFail(m)
      PROVE  UNCHANGED list
  BY <1>4 DEF RegisterFail, redisVars
<1>5. CASE Tick
  BY <1>5 DEF Tick, redisVars
<1>6. CASE UNCHANGED vars
  BY <1>6 DEF vars
<1>7. CASE \E p \in Producers, m \in Msgs, t \in Timeouts :
             Register(p, m, t) \/ RegisterLost(p, m, t)
  BY <1>1, <1>7
<1>8. CASE \E m \in Msgs : RegisterFail(m)
  BY <1>4, <1>8
<1>9. CASE \E c \in Consumers : Loop(c) \/ Fault(c)
  <2>1. PICK c \in Consumers : Loop(c) \/ Fault(c)
    BY <1>9
  <2>2. CASE Pop(c) \/ PopLost(c)
    BY <1>2, <2>2
  <2>3. CASE ~(Pop(c) \/ PopLost(c))
    BY <1>3, <2>1, <2>3 DEF Loop, Fault
  <2> QED
    BY <2>2, <2>3
<1> QED
  BY <1>5, <1>6, <1>7, <1>8, <1>9 DEF Next

\* When all brokers have a capacity, a queue never outgrows the largest one,
\* however registrations, pops and faults interleave.
THEOREM QueueCapRespected == Spec => []CapRespected
<1>1. Init => CapRespected
  BY DEF Init, CapRespected
<1>2. ASSUME TypeOK, CapRespected, [Next]_vars
      PROVE  CapRespected'
  <2> SUFFICES ASSUME \A p \in Producers : Cap[p] > 0,
                      NEW l \in Lists, list'[l] # <<>>
               PROVE  \E p \in Producers : Len(list'[l]) <= Cap[p]
    BY DEF CapRespected
  <2>1. list[l] # <<>> => \E p \in Producers : Len(list[l]) <= Cap[p]
    BY <1>2 DEF CapRespected
  <2>2. ASSUME NEW p \in Producers, NEW m \in Msgs, NEW t \in Timeouts,
               Script(p, m, t)
        PROVE  \E q \in Producers : Len(list'[l]) <= Cap[q]
    BY <1>2, <2>1, <2>2, ScriptList
  <2>3. ASSUME NEW c \in Consumers, NEW i \in DOMAIN Keys[c],
               FirstNonEmpty(c, i), RemoveOldest(Keys[c][i])
        PROVE  \E q \in Producers : Len(list'[l]) <= Cap[q]
    <3>1. /\ list' \in [Lists -> Seq(Msgs)]
          /\ Len(list'[l]) <= Len(list[l])
          /\ list[l] \in Seq(Msgs)
      BY <1>2, <2>3, PopList DEF TypeOK
    <3>2. Len(list'[l]) > 0 /\ Len(list'[l]) \in Nat /\ Len(list[l]) \in Nat
      BY <3>1
    <3>3. list[l] # <<>>
      BY <3>1, <3>2
    <3>4. PICK q \in Producers : Len(list[l]) <= Cap[q]
      BY <2>1, <3>3
    <3>5. Cap[q] \in Int
      BY QueueAssumption
    <3> QED
      BY <3>1, <3>2, <3>4, <3>5
  <2>4. CASE UNCHANGED list
    BY <2>1, <2>4
  <2> QED
    BY <1>2, <2>2, <2>3, <2>4, ListStep
<1> QED
  BY <1>1, <1>2, TypeCorrect, PTL DEF Spec

\* A list is never longer than the capacity its brokers share.
SharedCapRespected ==
  \A p \in Producers :
    Cap[p] > 0 /\ (\A q \in Producers : Cap[p] = Cap[q]) =>
      \A l \in Lists : Len(list[l]) <= Cap[p]

\* The bound of a capacity shared by all brokers.
LEMMA SharedCap ==
  ASSUME TypeOK, CapRespected
  PROVE  SharedCapRespected
<1> SUFFICES ASSUME NEW p \in Producers, Cap[p] > 0,
                    \A q \in Producers : Cap[p] = Cap[q],
                    NEW l \in Lists
             PROVE  Len(list[l]) <= Cap[p]
  BY DEF SharedCapRespected
<1>1. list[l] # <<>> => \E q \in Producers : Len(list[l]) <= Cap[q]
  BY DEF CapRespected
<1>2. Len(list[l]) \in Nat /\ Cap[p] \in Int
  BY QueueAssumption DEF TypeOK
<1>3. CASE list[l] = <<>>
  BY <1>2, <1>3
<1>4. CASE list[l] # <<>>
  BY <1>1, <1>4
<1> QED
  BY <1>3, <1>4

\* Between brokers of one capacity, a registration never removes a message
\* that is already queued, not even when the queue is full.
THEOREM QueueOnlyPoppedLeave == Spec => OnlyPoppedLeave
<1> DEFINE A == (\A p, q \in Producers : Cap[p] = Cap[q]) =>
                  \A m \in Msgs : InList(m) /\ ~InList(m)' =>
                    \E c \in Consumers : pc[c] = "pop" /\ pc'[c] # "pop"
<1>1. ASSUME TypeOK, CapRespected, [Next]_vars
      PROVE  A
  <2> SUFFICES ASSUME \A p, q \in Producers : Cap[p] = Cap[q],
                      NEW m \in Msgs, InList(m), ~InList(m)'
               PROVE  \E c \in Consumers : pc[c] = "pop" /\ pc'[c] # "pop"
    OBVIOUS
  <2>1. ASSUME NEW p \in Producers, NEW n \in Msgs, NEW t \in Timeouts,
               Script(p, n, t)
        PROVE  FALSE
    <3>1. Home[m] \in Lists
      BY QueueAssumption
    <3>2. Cap[p] > 0 => Len(list[Home[m]]) <= Cap[p]
      BY <1>1, <3>1, SharedCap DEF SharedCapRespected
    <3>3. Range(list[Home[m]]) \subseteq Range(list'[Home[m]])
      BY <1>1, <2>1, <3>1, <3>2, ScriptList, SMTT(30)
    <3> QED
      BY <3>3 DEF InList
  <2>2. CASE UNCHANGED list
    BY <2>2 DEF InList
  <2> QED
    BY <1>1, <2>1, <2>2, ListStep
<1>2. TypeOK /\ CapRespected /\ [Next]_vars => [A]_vars
  BY <1>1
<1> QED
  BY <1>2, TypeCorrect, QueueCapRespected, PTL DEF Spec, OnlyPoppedLeave

-----------------------------------------------------------------------------
\* The inductive invariant behind TTLWithinTimeout.
TTLInv == NewUnused /\ KeyExpiry /\ ReadWithin /\ TTLWithinTimeout

\* A registration preserves the invariant: the message is a new one.
LEMMA TTLRegister ==
  ASSUME TypeOK, HoldsMsg, TTLInv, NEW p \in Producers, NEW m \in Msgs,
         NEW t \in Timeouts, Register(p, m, t) \/ RegisterLost(p, m, t)
  PROVE  TTLInv'
<1>1. /\ reg[m] = "new" /\ Script(p, m, t)
      /\ UNCHANGED <<now, link, pc, held, read, chan>>
      /\ reg'[m] # "new"
      /\ \A n \in Msgs \ {m} : reg'[n] = reg[n]
  BY DEF Register, RegisterLost, loopVars, TypeOK
<1>2. /\ \A n \in Msgs \ {m} :
           expires'[n] = expires[n] /\ pushed'[n] = pushed[n]
      /\ expires'[m] = RedisMs + TimeoutMs(t)
      /\ pushed'[m].at = now /\ pushed'[m].ms = TimeoutMs(t)
  BY <1>1 DEF Script, TypeOK
<1>3. NewUnused'
  <2> SUFFICES ASSUME NEW n \in Msgs, reg'[n] = "new"
               PROVE  /\ expires'[n] = 0
                      /\ \A l \in Lists : n \notin Range(list'[l])
                      /\ \A c \in Consumers : held'[c] # n
                      /\ \A c \in Consumers : \A i \in DOMAIN chan'[c] :
                           chan'[c][i].msg # n
    BY DEF NewUnused
  <2>1. n # m /\ reg[n] = "new"
    BY <1>1
  <2>2. \A l \in Lists : n \notin Range(list'[l])
    <3>1. \A l \in Lists : Range(list'[l]) \subseteq Range(list[l]) \cup {m}
      BY <1>1, ScriptList, Zenon
    <3> QED
      BY <2>1, <3>1 DEF TTLInv, NewUnused
  <2> QED
    BY <1>1, <1>2, <2>1, <2>2 DEF TTLInv, NewUnused
<1>4. KeyExpiry'
  <2>1. ASSUME NEW n \in Msgs, expires'[n] # 0
        PROVE  expires'[n] = (pushed'[n].at \div Resolution) + pushed'[n].ms
    <3>1. CASE n = m
      BY <1>2, <3>1 DEF RedisMs
    <3>2. CASE n # m
      BY <1>2, <2>1, <3>2, SMTT(30) DEF TTLInv, KeyExpiry
    <3> QED
      BY <3>1, <3>2
  <2> QED
    BY <2>1 DEF KeyExpiry
<1>5. ReadWithin'
  <2> SUFFICES ASSUME NEW c \in Consumers, pc'[c] = "send"
               PROVE  WithinTimeout(held[c], read[c].at, read[c].ttl)'
    BY DEF ReadWithin
  <2>1. held[c] \in Msgs \ {m}
    BY <1>1 DEF HoldsMsg, TTLInv, NewUnused
  <2>2. WithinTimeout(held[c], read[c].at, read[c].ttl)
    <3>1. pc[c] = "send"
      BY <1>1
    <3>2. ReadWithin
      BY DEF TTLInv
    <3> QED
      BY <3>1, <3>2, Zenon DEF ReadWithin
  <2> QED
    BY <1>1, <1>2, <2>1, <2>2 DEF WithinTimeout
<1>6. TTLWithinTimeout'
  <2> SUFFICES ASSUME NEW c \in Consumers, NEW i \in DOMAIN chan'[c]
               PROVE  WithinTimeout(chan[c][i].msg, chan[c][i].at,
                                    chan[c][i].ttl)'
    BY DEF TTLWithinTimeout
  <2>1. chan[c][i].msg \in Msgs \ {m}
    <3>1. chan[c] \in Seq(Delivery) /\ i \in DOMAIN chan[c]
      BY <1>1 DEF TypeOK
    <3>2. chan[c][i] \in Delivery
      BY <3>1, SMTT(30)
    <3> QED
      BY <1>1, <3>1, <3>2 DEF Delivery, TTLInv, NewUnused
  <2>2. WithinTimeout(chan[c][i].msg, chan[c][i].at, chan[c][i].ttl)
    BY <1>1 DEF TTLInv, TTLWithinTimeout
  <2> QED
    BY <1>1, <1>2, <2>1, <2>2, Zenon DEF WithinTimeout
<1> QED
  BY <1>3, <1>4, <1>5, <1>6 DEF TTLInv

\* Redis answers PTTL: what is left is right at that moment.
LEMMA TTLCheck ==
  ASSUME TypeOK, HoldsMsg, TTLInv, NEW c \in Consumers, pc[c] = "check",
         PTTL(held[c]) > 0
  PROVE  WithinTimeout(held[c], now, PTTL(held[c]))
<1> DEFINE m == held[c]
<1>1. m \in Msgs
  BY DEF HoldsMsg
<1>2. expires[m] \in Nat /\ RedisMs \in Nat /\ now \in Nat
  BY <1>1, MsTypes, QueueAssumption DEF TypeOK
<1>3. expires[m] > RedisMs /\ PTTL(m) = expires[m] - RedisMs
  BY <1>2 DEF PTTL
<1>4. expires[m] = (pushed[m].at \div Resolution) + pushed[m].ms
  BY <1>1, <1>2, <1>3 DEF TTLInv, KeyExpiry
<1>5. pushed[m].at \in Nat /\ pushed[m].ms \in Nat /\ Resolution \in Nat \ {0}
  BY <1>1, QueueAssumption DEF TypeOK
<1>6. PTTL(m) \in Nat
  BY <1>2, <1>3
<1>7. (now \div Resolution) + PTTL(m) =
        (pushed[m].at \div Resolution) + pushed[m].ms
  BY <1>2, <1>3, <1>4 DEF RedisMs
<1> HIDE DEF m
<1>8. now + PTTL(m) * Resolution <
        pushed[m].at + (pushed[m].ms + 1) * Resolution
  BY <1>2, <1>5, <1>6, <1>7, MsArithmetic, Zenon
<1> QED
  BY <1>8 DEF WithinTimeout, m

\* Every other step: no message is registered.
LEMMA TTLQuiet ==
  ASSUME TypeOK, HoldsMsg, TTLInv, UNCHANGED pushed,
         \A m \in Msgs : reg'[m] = "new" => reg[m] = "new",
         \A m \in Msgs : expires'[m] = expires[m] \/ expires'[m] = 0,
         \A l \in Lists : Range(list'[l]) \subseteq Range(list[l]),
         \A c \in Consumers : \/ held'[c] \in {held[c], NoMsg}
                              \/ \E l \in Lists : held'[c] \in Range(list[l]),
         \A c \in Consumers : pc'[c] = "send" =>
           WithinTimeout(held'[c], read'[c].at, read'[c].ttl),
         \A c \in Consumers :
           \/ chan'[c] = chan[c]
           \/ /\ pc[c] = "send"
              /\ chan'[c] = Append(chan[c], [msg |-> held[c],
                                   at |-> read[c].at, ttl |-> read[c].ttl])
  PROVE  TTLInv'
<1>1. ASSUME NEW c \in Consumers, NEW i \in DOMAIN chan'[c]
      PROVE  \/ i \in DOMAIN chan[c] /\ chan'[c][i] = chan[c][i]
             \/ /\ pc[c] = "send"
                /\ chan'[c][i] = [msg |-> held[c], at |-> read[c].at,
                                  ttl |-> read[c].ttl]
  <2> DEFINE d == [msg |-> held[c], at |-> read[c].at, ttl |-> read[c].ttl]
  <2>1. CASE chan'[c] = chan[c]
    BY <1>1, <2>1
  <2>2. CASE pc[c] = "send" /\ chan'[c] = Append(chan[c], d)
    <3>1. d \in Delivery
      <4>1. held[c] \in Msgs
        BY <2>2 DEF HoldsMsg
      <4>2. read[c] \in [at : Nat, ttl : Nat]
        BY DEF TypeOK
      <4>3. read[c].at \in Nat /\ read[c].ttl \in Nat
        BY <4>2
      <4> QED
        BY <4>1, <4>3 DEF Delivery
    <3>2. chan[c] \in Seq(Delivery)
      BY DEF TypeOK
    <3> HIDE DEF d
    <3>3. /\ DOMAIN Append(chan[c], d) = 1..(Len(chan[c]) + 1)
          /\ \A j \in 1..Len(chan[c]) : Append(chan[c], d)[j] = chan[c][j]
          /\ Append(chan[c], d)[Len(chan[c]) + 1] = d
          /\ DOMAIN chan[c] = 1..Len(chan[c])
          /\ Len(chan[c]) \in Nat
      BY <3>1, <3>2, Appended
    <3> QED
      BY <1>1, <2>2, <3>3 DEF d
  <2> QED
    BY <2>1, <2>2, SMTT(30)
<1>2. NewUnused'
  <2> SUFFICES ASSUME NEW m \in Msgs, reg'[m] = "new"
               PROVE  /\ expires'[m] = 0
                      /\ \A l \in Lists : m \notin Range(list'[l])
                      /\ \A c \in Consumers : held'[c] # m
                      /\ \A c \in Consumers : \A i \in DOMAIN chan'[c] :
                           chan'[c][i].msg # m
    BY DEF NewUnused
  <2>1. /\ expires[m] = 0
        /\ \A l \in Lists : m \notin Range(list[l])
        /\ \A c \in Consumers : held[c] # m
        /\ \A c \in Consumers : \A i \in DOMAIN chan[c] : chan[c][i].msg # m
    BY DEF TTLInv, NewUnused
  <2>2. \A c \in Consumers : held'[c] # m
    BY <2>1, QueueAssumption
  <2>3. \A c \in Consumers : \A i \in DOMAIN chan'[c] : chan'[c][i].msg # m
    <3>1. ASSUME NEW c \in Consumers, NEW i \in DOMAIN chan'[c]
          PROVE  chan'[c][i].msg # m
      <4>1. CASE i \in DOMAIN chan[c] /\ chan'[c][i] = chan[c][i]
        BY <2>1, <4>1
      <4>2. CASE chan'[c][i] = [msg |-> held[c], at |-> read[c].at,
                                ttl |-> read[c].ttl]
        BY <2>1, <4>2
      <4> QED
        BY <1>1, <3>1, <4>1, <4>2
    <3> QED
      BY <3>1
  <2> QED
    BY <2>1, <2>2, <2>3
<1>3. KeyExpiry'
  BY DEF TTLInv, KeyExpiry
<1>4. ReadWithin'
  BY DEF ReadWithin, WithinTimeout
<1>5. TTLWithinTimeout'
  <2> SUFFICES ASSUME NEW c \in Consumers, NEW i \in DOMAIN chan'[c]
               PROVE  WithinTimeout(chan[c][i].msg, chan[c][i].at,
                                    chan[c][i].ttl)'
    BY SMTT(30) DEF TTLWithinTimeout
  <2>1. CASE i \in DOMAIN chan[c] /\ chan'[c][i] = chan[c][i]
    BY <2>1 DEF TTLInv, TTLWithinTimeout, WithinTimeout
  <2>2. CASE /\ pc[c] = "send"
             /\ chan'[c][i] = [msg |-> held[c], at |-> read[c].at,
                               ttl |-> read[c].ttl]
    BY <2>2 DEF TTLInv, ReadWithin, WithinTimeout
  <2> QED
    BY <1>1, <2>1, <2>2
<1> QED
  BY <1>2, <1>3, <1>4, <1>5 DEF TTLInv

\* Every step preserves the invariant.
LEMMA TTLStep ==
  ASSUME TypeOK, HoldsMsg, TTLInv, [Next]_vars
  PROVE  TTLInv'
<1> USE DEF redisVars, loopVars, historyVars
<1>0. \A c \in Consumers : pc[c] = "send" =>
        WithinTimeout(held[c], read[c].at, read[c].ttl)
  BY DEF TTLInv, ReadWithin
<1>1. ASSUME NEW p \in Producers, NEW m \in Msgs, NEW t \in Timeouts,
             Register(p, m, t) \/ RegisterLost(p, m, t)
      PROVE  TTLInv'
  BY <1>1, TTLRegister
<1>2. ASSUME NEW m \in Msgs, RegisterFail(m)
      PROVE  TTLInv'
  <2>1. \A n \in Msgs : reg'[n] = "new" => reg[n] = "new"
    BY <1>2 DEF RegisterFail, TypeOK
  <2>2. UNCHANGED <<expires, list, pc, held, read, chan, pushed>>
    BY <1>2 DEF RegisterFail
  <2> QED
    BY <1>0, <2>1, <2>2, TTLQuiet
<1>3. ASSUME NEW c \in Consumers, Pop(c)
      PROVE  TTLInv'
  <2>1. PICK i \in DOMAIN Keys[c] :
          /\ FirstNonEmpty(c, i)
          /\ held' = [held EXCEPT ![c] = Oldest(Keys[c][i])]
          /\ RemoveOldest(Keys[c][i])
    BY <1>3, Zenon DEF Pop
  <2>2. /\ \A l \in Lists : Range(list'[l]) \subseteq Range(list[l])
        /\ Keys[c][i] \in Lists
        /\ Oldest(Keys[c][i]) \in Range(list[Keys[c][i]])
    BY <2>1, PopList, Zenon
  <2>3. \A d \in Consumers : \/ held'[d] \in {held[d], NoMsg}
                             \/ \E l \in Lists : held'[d] \in Range(list[l])
    BY <2>1, <2>2 DEF TypeOK
  <2>4. \A d \in Consumers : pc'[d] = "send" =>
          pc[d] = "send" /\ held'[d] = held[d]
    BY <1>3, <2>1, SMTT(30) DEF Pop, TypeOK
  <2>5. UNCHANGED <<expires, reg, read, chan, pushed>>
    BY <1>3, Zenon DEF Pop
  <2> QED
    BY <1>0, <2>2, <2>3, <2>4, <2>5, TTLQuiet
<1>4. ASSUME NEW c \in Consumers, PopLost(c)
      PROVE  TTLInv'
  <2>1. \A l \in Lists : Range(list'[l]) \subseteq Range(list[l])
    BY <1>4, PopList, Zenon DEF PopLost
  <2>2. \A d \in Consumers : pc'[d] = "send" => pc[d] = "send"
    BY <1>4 DEF PopLost, TypeOK
  <2>3. UNCHANGED <<expires, reg, held, read, chan, pushed>>
    BY <1>4 DEF PopLost
  <2> QED
    BY <1>0, <2>1, <2>2, <2>3, TTLQuiet
<1>5. ASSUME NEW c \in Consumers, PopFail(c) \/ CloseChan(c) \/ Break(c)
      PROVE  TTLInv'
  <2>1. \A d \in Consumers : pc'[d] = "send" => pc[d] = "send"
    BY <1>5 DEF PopFail, CloseChan, Break, TypeOK
  <2>2. UNCHANGED <<expires, list, reg, held, read, chan, pushed>>
    BY <1>5 DEF PopFail, CloseChan, Break
  <2> QED
    BY <1>0, <2>1, <2>2, TTLQuiet
<1>6. ASSUME NEW c \in Consumers, Check(c)
      PROVE  TTLInv'
  <2>1. \A m \in Msgs : expires'[m] = expires[m] \/ expires'[m] = 0
    BY <1>6 DEF Check, TypeOK
  <2>2. \A d \in Consumers : held'[d] \in {held[d], NoMsg}
    BY <1>6 DEF Check, TypeOK
  <2>3. ASSUME NEW d \in Consumers, pc'[d] = "send"
        PROVE  WithinTimeout(held'[d], read'[d].at, read'[d].ttl)
    <3>1. CASE d = c
      <4>1. /\ PTTL(held[c]) > 0 /\ held'[c] = held[c]
            /\ read'[c].at = now /\ read'[c].ttl = PTTL(held[c])
        BY <1>6, <2>3, <3>1, SMTT(30) DEF Check, TypeOK
      <4>2. WithinTimeout(held[c], now, PTTL(held[c]))
        BY <1>6, <4>1, TTLCheck, Zenon DEF Check
      <4> QED
        BY <3>1, <4>1, <4>2
    <3>2. CASE d # c
      <4>1. pc[d] = "send" /\ held'[d] = held[d] /\ read'[d] = read[d]
        BY <1>6, <2>3, <3>2 DEF Check, TypeOK
      <4> QED
        BY <1>0, <4>1
    <3> QED
      BY <3>1, <3>2
  <2>4. UNCHANGED <<list, reg, chan, pushed>>
    BY <1>6 DEF Check
  <2> QED
    BY <2>1, <2>2, <2>3, <2>4, TTLQuiet
<1>7. ASSUME NEW c \in Consumers, CheckFail(c)
      PROVE  TTLInv'
  <2>1. \A m \in Msgs : expires'[m] = expires[m] \/ expires'[m] = 0
    BY <1>7 DEF CheckFail, TypeOK
  <2>2. \A d \in Consumers :
          /\ held'[d] \in {held[d], NoMsg}
          /\ pc'[d] = "send" => pc[d] = "send" /\ held'[d] = held[d]
    BY <1>7 DEF CheckFail, TypeOK
  <2>3. UNCHANGED <<list, reg, read, chan, pushed>>
    BY <1>7 DEF CheckFail
  <2> QED
    BY <1>0, <2>1, <2>2, <2>3, TTLQuiet
<1>8. ASSUME NEW c \in Consumers, Send(c)
      PROVE  TTLInv'
  <2>1. \A d \in Consumers :
          /\ held'[d] \in {held[d], NoMsg}
          /\ pc'[d] = "send" =>
               pc[d] = "send" /\ held'[d] = held[d] /\ read'[d] = read[d]
    BY <1>8 DEF Send, TypeOK
  <2>2. \A d \in Consumers :
          \/ chan'[d] = chan[d]
          \/ /\ pc[d] = "send"
             /\ chan'[d] = Append(chan[d], [msg |-> held[d],
                                  at |-> read[d].at, ttl |-> read[d].ttl])
    BY <1>8 DEF Send, TypeOK
  <2>3. UNCHANGED <<list, expires, reg, pushed>>
    BY <1>8 DEF Send
  <2> QED
    BY <1>0, <2>1, <2>2, <2>3, TTLQuiet
<1>9. CASE Tick \/ UNCHANGED vars
  <2>1. UNCHANGED <<list, expires, reg, pc, held, read, chan, pushed>>
    BY <1>9 DEF Tick, vars
  <2> QED
    BY <1>0, <2>1, TTLQuiet
<1> QED
  BY <1>1, <1>2, <1>3, <1>4, <1>5, <1>6, <1>7, <1>8, <1>9
  DEF Next, Loop, Fault

\* The types and the invariant always hold.
LEMMA QueueInv == Spec => [](TypeOK /\ HoldsMsg /\ TTLInv)
<1>1. Init => TypeOK /\ HoldsMsg /\ TTLInv
  <2>1. Init => TypeOK /\ HoldsMsg
    BY QueueAssumption DEF Init, TypeOK, HoldsMsg
  <2>2. Init => NewUnused
    BY QueueAssumption DEF Init, NewUnused, Range
  <2>3. Init => KeyExpiry /\ ReadWithin /\ TTLWithinTimeout
    BY DEF Init, KeyExpiry, ReadWithin, TTLWithinTimeout
  <2> QED
    BY <2>1, <2>2, <2>3 DEF TTLInv
<1>2. TypeOK /\ HoldsMsg /\ TTLInv /\ [Next]_vars =>
        (TypeOK /\ HoldsMsg /\ TTLInv)'
  BY TypeStep, TTLStep
<1> QED
  BY <1>1, <1>2, PTL DEF Spec

\* A receiver is never given more time than is left of the timeout that the
\* message was registered with, to the millisecond, whatever the time it
\* spent in the queue and whatever the other brokers and consumers do.
THEOREM QueueTTLWithinTimeout == Spec => []TTLWithinTimeout
<1>1. TTLInv => TTLWithinTimeout
  BY DEF TTLInv
<1> QED
  BY <1>1, QueueInv, PTL

-----------------------------------------------------------------------------
(* Order and uniqueness of deliveries *)

\* A list holds messages of its own, the newest first: their ranks decrease.
ListOrder ==
  \A l \in Lists : \A i \in DOMAIN list[l] :
    /\ Home[list[l][i]] = l
    /\ pushed[list[l][i]].no <= serial
    /\ \A j \in DOMAIN list[l] :
         i < j => pushed[list[l][j]].no < pushed[list[l][i]].no

\* A message that has left its list was pushed before all that are in it.
Before(m) ==
  /\ pushed[m].no <= serial
  /\ \A i \in DOMAIN list[Home[m]] :
       pushed[m].no < pushed[list[Home[m]][i]].no

\* The message that a consumer holds has left its list after those that the
\* consumer has delivered, and nobody else has it.
HeldOrder ==
  \A c \in Consumers : held[c] \in Msgs =>
    /\ pc[c] \in {"check", "send"}
    /\ Before(held[c])
    /\ \A d \in Consumers : held[d] = held[c] => d = c
    /\ \A d \in Consumers : \A i \in DOMAIN chan[d] :
         chan[d][i].msg # held[c]
    /\ \A i \in DOMAIN chan[c] : Home[chan[c][i].msg] = Home[held[c]] =>
         pushed[chan[c][i].msg].no < pushed[held[c]].no

\* So has a message that was delivered.
ChanOrder ==
  \A c \in Consumers : \A i \in DOMAIN chan[c] : Before(chan[c][i].msg)

\* The inductive invariant behind InOrder and AtMostOnce.
OrderInv == ListOrder /\ HeldOrder /\ ChanOrder /\ InOrder /\ AtMostOnce

\* What a channel has delivered are messages.
LEMMA ChanType ==
  ASSUME TypeOK, NEW c \in Consumers, NEW i \in DOMAIN chan[c]
  PROVE  i \in 1..Len(chan[c]) /\ chan[c][i].msg \in Msgs
<1>1. chan[c] \in Seq(Delivery)
  BY DEF TypeOK
<1>2. i \in 1..Len(chan[c]) /\ chan[c][i] \in Delivery
  BY <1>1
<1> QED
  BY <1>2 DEF Delivery

\* The script leaves the oldest messages of the list where they were, behind
\* the new one unless it was trimmed.
LEMMA ScriptShift ==
  ASSUME TypeOK, NEW p \in Producers, NEW m \in Msgs, NEW t \in Timeouts,
         Script(p, m, t)
  PROVE  \E k \in Nat :
           /\ Len(list'[Home[m]]) + k = Len(list[Home[m]]) + 1
           /\ \A i \in DOMAIN list'[Home[m]] :
                list'[Home[m]][i] =
                  IF i + k = 1 THEN m ELSE list[Home[m]][i + k - 1]
<1> DEFINE l == Home[m]
           s == <<m>> \o list[l]
           new == IF Exceeds(p, s) THEN Trim(s, Cap[p]) ELSE s
<1>1. l \in Lists /\ Cap[p] \in Int /\ list[l] \in Seq(Msgs)
  BY QueueAssumption DEF TypeOK
<1>2. <<m>> \in Seq(Msgs) /\ Len(<<m>>) = 1 /\ <<m>>[1] = m
  OBVIOUS
<1>3. /\ s \in Seq(Msgs)
      /\ Len(s) = 1 + Len(list[l])
      /\ \A i \in 1..Len(s) : s[i] = IF i <= 1 THEN m ELSE list[l][i - 1]
  BY <1>1, Prepended
<1>4. list' = [list EXCEPT ![l] = new]
  BY DEF Script
<1>5. list'[l] = new
  BY <1>1, <1>4 DEF TypeOK
<1> HIDE DEF s, l
<1>6. CASE Exceeds(p, s)
  <2>1. Cap[p] \in Nat /\ Cap[p] <= Len(s)
    BY <1>1, <1>3, <1>6 DEF Exceeds
  <2>2. new = Trim(s, Cap[p])
    BY <1>6
  <2> HIDE DEF new
  <2>3. /\ new \in Seq(Msgs) /\ Len(new) = Cap[p]
        /\ \A i \in 1..Cap[p] : new[i] = s[Len(s) - Cap[p] + i]
    BY <1>3, <2>1, <2>2, TrimType, Zenon
  <2>4. Len(s) \in Nat /\ Len(s) - Cap[p] \in Nat
    BY <1>3, <2>1
  <2> DEFINE k == Len(s) - Cap[p]
  <2>5. Len(new) + k = Len(list[l]) + 1
    BY <1>1, <1>3, <2>1, <2>3, <2>4
  <2>6. ASSUME NEW i \in DOMAIN new
        PROVE  new[i] = IF i + k = 1 THEN m ELSE list[l][i + k - 1]
    <3>1. i \in 1..Cap[p] /\ i \in Nat \ {0}
      BY <2>1, <2>3
    <3>2. new[i] = s[k + i]
      BY <2>3, <3>1
    <3>3. PICK j \in 1..Len(s) : j = k + i
      BY <2>1, <2>4, <3>1
    <3>4. s[j] = IF j <= 1 THEN m ELSE list[l][j - 1]
      BY <1>3
    <3>5. i + k = j /\ j \in Nat \ {0} /\ k \in Nat
      BY <2>4, <3>1, <3>3
    <3> HIDE DEF new, k
    <3>6. new[i] = IF j <= 1 THEN m ELSE list[l][j - 1]
      BY <3>2, <3>3, <3>4
    <3> QED
      BY <3>1, <3>5, <3>6
  <2> QED
    BY <1>5, <2>4, <2>5, <2>6 DEF k, l
<1>7. CASE ~Exceeds(p, s)
  <2>1. new = s
    BY <1>7
  <2> HIDE DEF new
  <2>2. /\ Len(new) + 0 = Len(list[l]) + 1
        /\ \A i \in DOMAIN new : new[i] = IF i + 0 = 1 THEN m ELSE list[l][i + 0 - 1]
    BY <1>1, <1>3, <2>1
  <2> QED
    BY <1>5, <2>2 DEF l
<1> QED
  BY <1>6, <1>7

\* What removing the oldest message leaves.
LEMMA PopShape ==
  ASSUME TypeOK, NEW c \in Consumers, NEW i \in DOMAIN Keys[c],
         FirstNonEmpty(c, i), RemoveOldest(Keys[c][i])
  PROVE  /\ Keys[c][i] \in Lists
         /\ Len(list[Keys[c][i]]) \in DOMAIN list[Keys[c][i]]
         /\ Oldest(Keys[c][i]) = list[Keys[c][i]][Len(list[Keys[c][i]])]
         /\ \A j \in DOMAIN list'[Keys[c][i]] :
              /\ j \in DOMAIN list[Keys[c][i]] /\ j < Len(list[Keys[c][i]])
              /\ list'[Keys[c][i]][j] = list[Keys[c][i]][j]
         /\ \A j \in DOMAIN list[Keys[c][i]] :
              j # Len(list[Keys[c][i]]) => j \in DOMAIN list'[Keys[c][i]]
         /\ \A k \in Lists \ {Keys[c][i]} : list'[k] = list[k]
<1> DEFINE l == Keys[c][i]
           s == SubSeq(list[l], 1, Len(list[l]) - 1)
<1>1. l \in Lists /\ list[l] \in Seq(Msgs) /\ list[l] # <<>>
  BY QueueAssumption DEF TypeOK, FirstNonEmpty
<1>2. Len(list[l]) \in Nat \ {0} /\ DOMAIN list[l] = 1..Len(list[l])
  BY <1>1
<1>3. list' = [list EXCEPT ![l] = s]
  BY DEF RemoveOldest
<1>4. /\ s \in Seq(Msgs)
      /\ Len(s) = Len(list[l]) - 1
      /\ \A j \in 1..Len(s) : s[j] = list[l][j]
  <2>1. \A j \in 1..(Len(list[l]) - 1) : list[l][j] \in Msgs
    BY <1>1
  <2> QED
    BY <1>2, <2>1, Part
<1> HIDE DEF s, l
<1>5. /\ list'[l] = s
      /\ \A k \in Lists \ {l} : list'[k] = list[k]
  BY <1>1, <1>3 DEF TypeOK
<1>6. \A j \in DOMAIN s : j \in DOMAIN list[l] /\ j < Len(list[l]) /\ s[j] = list[l][j]
  BY <1>2, <1>4
<1>7. \A j \in DOMAIN list[l] : j # Len(list[l]) => j \in DOMAIN s
  BY <1>2, <1>4
<1> QED
  BY <1>1, <1>2, <1>5, <1>6, <1>7 DEF l, Oldest

\* The lists stay in order while nothing is pushed or popped.
LEMMA ListSame ==
  ASSUME ListOrder, list' = list, serial' = serial, pushed' = pushed
  PROVE  ListOrder'
  BY DEF ListOrder

\* What the channels have delivered stays in order while nothing is pushed,
\* popped or delivered.
LEMMA ChanSame ==
  ASSUME ChanOrder, list' = list, chan' = chan, serial' = serial, pushed' = pushed
  PROVE  ChanOrder'
  BY DEF ChanOrder, Before

\* So does the order of what was delivered, while nothing is pushed or
\* delivered.
LEMMA SentSame ==
  ASSUME InOrder, AtMostOnce, chan' = chan, pushed' = pushed
  PROVE  InOrder' /\ AtMostOnce'
<1>1. InOrder'
  BY DEF InOrder
<1>2. AtMostOnce'
  BY DEF AtMostOnce
<1> QED
  BY <1>1, <1>2

\* The message that a consumer holds stays in order while nothing is pushed,
\* popped or delivered, even if it is dropped.
LEMMA HeldSame ==
  ASSUME HeldOrder, list' = list, chan' = chan, serial' = serial, pushed' = pushed,
         \A c \in Consumers : held'[c] \in Msgs =>
           held'[c] = held[c] /\ (pc[c] \in {"check", "send"} => pc'[c] \in {"check", "send"})
  PROVE  HeldOrder'
<1>1. \A m : Before(m)' <=> Before(m)
  BY DEF Before
<1> SUFFICES ASSUME NEW c \in Consumers, held'[c] \in Msgs
             PROVE  /\ pc'[c] \in {"check", "send"}
                    /\ Before(held'[c])
                    /\ \A d \in Consumers : held'[d] = held'[c] => d = c
                    /\ \A d \in Consumers : \A i \in DOMAIN chan[d] :
                         chan[d][i].msg # held'[c]
                    /\ \A i \in DOMAIN chan[c] :
                         Home[chan[c][i].msg] = Home[held'[c]] =>
                           pushed[chan[c][i].msg].no < pushed[held'[c]].no
  BY <1>1 DEF HeldOrder
<1>2. /\ held[c] \in Msgs /\ held'[c] = held[c]
      /\ \A d \in Consumers : held'[d] = held'[c] => held[d] = held[c]
  OBVIOUS
<1> QED
  BY <1>2 DEF HeldOrder

\* Registering a new message keeps the order: it is the newest of its list.
LEMMA OrderScript ==
  ASSUME TypeOK, NewUnused, OrderInv, NEW p \in Producers, NEW m \in Msgs,
         NEW t \in Timeouts, reg[m] = "new", Script(p, m, t),
         UNCHANGED <<pc, held, chan>>
  PROVE  OrderInv'
<1> USE DEF OrderInv
<1>1. /\ serial \in Nat /\ serial' = serial + 1
      /\ pushed'[m].no = serial + 1
      /\ \A n \in Msgs : pushed[n].no \in Nat
      /\ \A n \in Msgs \ {m} : pushed'[n] = pushed[n]
  BY DEF TypeOK, Script
<1>2. /\ \A l \in Lists : \A i \in DOMAIN list[l] : list[l][i] \in Msgs \ {m}
      /\ \A c \in Consumers : held[c] # m
      /\ \A c \in Consumers : \A i \in DOMAIN chan[c] : chan[c][i].msg \in Msgs \ {m}
  <2>1. \A l \in Lists : \A i \in DOMAIN list[l] : list[l][i] \in Msgs
    BY DEF TypeOK
  <2>2. \A c \in Consumers : \A i \in DOMAIN chan[c] : chan[c][i].msg \in Msgs
    BY ChanType
  <2> QED
    BY <2>1, <2>2 DEF NewUnused, Range
<1>3. Home[m] \in Lists /\ \A n \in Msgs : Home[n] \in Lists
  BY QueueAssumption
<1>4. \A l \in Lists \ {Home[m]} : list'[l] = list[l]
  BY ScriptList
<1>5. PICK k \in Nat :
        /\ Len(list'[Home[m]]) + k = Len(list[Home[m]]) + 1
        /\ \A i \in DOMAIN list'[Home[m]] :
             list'[Home[m]][i] =
               IF i + k = 1 THEN m ELSE list[Home[m]][i + k - 1]
  BY ScriptShift
<1>6. ASSUME NEW i \in DOMAIN list'[Home[m]]
      PROVE  /\ i \in Nat \ {0}
             /\ \/ i + k = 1 /\ list'[Home[m]][i] = m
                \/ /\ i + k - 1 \in DOMAIN list[Home[m]]
                   /\ list'[Home[m]][i] = list[Home[m]][i + k - 1]
  <2>1. list[Home[m]] \in Seq(Msgs) /\ list'[Home[m]] \in Seq(Msgs)
    BY <1>3, ScriptList DEF TypeOK
  <2>2. i \in 1..Len(list'[Home[m]]) /\ Len(list'[Home[m]]) \in Nat /\ Len(list[Home[m]]) \in Nat
    BY <2>1
  <2>3. CASE i + k = 1
    BY <1>5, <2>2, <2>3
  <2>4. CASE i + k # 1
    <3>1. i + k - 1 \in 1..Len(list[Home[m]])
      BY <1>5, <2>2, <2>4
    <3>2. list'[Home[m]][i] = list[Home[m]][i + k - 1]
      BY <1>5, <2>4
    <3> QED
      BY <2>1, <2>2, <3>1, <3>2
  <2> QED
    BY <2>3, <2>4
<1>7. \A l \in Lists : \A i \in DOMAIN list'[l] :
        \/ list'[l][i] = m /\ l = Home[m]
        \/ \E j \in DOMAIN list[l] : list'[l][i] = list[l][j]
  BY <1>4, <1>6
<1>8. ASSUME NEW n \in Msgs \ {m}, Before(n)
      PROVE  Before(n)'
  <2>1. pushed'[n].no = pushed[n].no /\ pushed[n].no <= serial /\ pushed[n].no \in Nat
    BY <1>1, <1>8 DEF Before
  <2>2. ASSUME NEW i \in DOMAIN list'[Home[n]]
        PROVE  pushed'[n].no < pushed'[list'[Home[n]][i]].no
    <3>1. CASE list'[Home[n]][i] = m
      BY <1>1, <2>1, <3>1
    <3>2. ASSUME NEW j \in DOMAIN list[Home[n]], list'[Home[n]][i] = list[Home[n]][j]
          PROVE  pushed'[n].no < pushed'[list'[Home[n]][i]].no
      BY <1>1, <1>2, <1>3, <1>8, <2>1, <3>2 DEF Before
    <3> QED
      BY <1>3, <1>7, <3>1, <3>2
  <2> QED
    BY <1>1, <2>1, <2>2 DEF Before
<1>9. ListOrder'
  <2> SUFFICES ASSUME NEW l \in Lists, NEW i \in DOMAIN list'[l]
               PROVE  /\ Home[list'[l][i]] = l
                      /\ pushed'[list'[l][i]].no <= serial'
                      /\ \A j \in DOMAIN list'[l] :
                           i < j => pushed'[list'[l][j]].no < pushed'[list'[l][i]].no
    BY DEF ListOrder
  <2>1. Home[list'[l][i]] = l /\ pushed'[list'[l][i]].no <= serial'
    <3>1. CASE list'[l][i] = m /\ l = Home[m]
      BY <1>1, <3>1
    <3>2. ASSUME NEW j \in DOMAIN list[l], list'[l][i] = list[l][j]
          PROVE  Home[list'[l][i]] = l /\ pushed'[list'[l][i]].no <= serial'
      BY <1>1, <1>2, <3>2 DEF ListOrder
    <3> QED
      BY <1>7, <3>1, <3>2
  <2>2. ASSUME NEW j \in DOMAIN list'[l], i < j
        PROVE  pushed'[list'[l][j]].no < pushed'[list'[l][i]].no
    <3>1. CASE l # Home[m]
      <4>1. list'[l] = list[l]
        BY <1>4, <3>1
      <4> QED
        BY <1>1, <1>2, <2>2, <4>1 DEF ListOrder
    <3>2. CASE l = Home[m]
      <4>1. j + k # 1 /\ i \in Nat \ {0} /\ j \in Nat \ {0} /\ i + k - 1 < j + k - 1
        BY <1>6, <2>2, <3>2
      <4>2. /\ j + k - 1 \in DOMAIN list[l]
            /\ list'[l][j] = list[l][j + k - 1]
        BY <1>6, <3>2, <4>1
      <4>3. CASE i + k = 1 /\ list'[l][i] = m
        <5>1. pushed[list[l][j + k - 1]].no <= serial
          BY <4>2 DEF ListOrder
        <5> QED
          BY <1>1, <1>2, <4>2, <4>3, <5>1
      <4>4. CASE /\ i + k - 1 \in DOMAIN list[l]
                 /\ list'[l][i] = list[l][i + k - 1]
        <5>1. pushed[list[l][j + k - 1]].no < pushed[list[l][i + k - 1]].no
          BY <4>1, <4>2, <4>4 DEF ListOrder
        <5> QED
          BY <1>1, <1>2, <4>2, <4>4, <5>1
      <4> QED
        BY <1>6, <3>2, <4>3, <4>4
    <3> QED
      BY <3>1, <3>2
  <2> QED
    BY <2>1, <2>2
<1>10. HeldOrder'
  BY <1>1, <1>2, <1>8 DEF HeldOrder
<1>11. ChanOrder'
  BY <1>2, <1>8 DEF ChanOrder
<1>12. InOrder'
  <2>1. \A c \in Consumers : \A i \in DOMAIN chan[c] :
          pushed'[chan[c][i].msg] = pushed[chan[c][i].msg]
    BY <1>1, <1>2
  <2>2. InOrder
    OBVIOUS
  <2> QED
    BY <2>1, <2>2 DEF InOrder
<1>13. AtMostOnce'
  BY DEF AtMostOnce
<1> QED
  BY <1>9, <1>10, <1>11, <1>12, <1>13

\* Taking the oldest message of a list keeps the order, whether the consumer
\* gets it or the answer is lost.
LEMMA OrderPop ==
  ASSUME TypeOK, OrderInv, NEW c \in Consumers, pc[c] = "pop",
         NEW i \in DOMAIN Keys[c], FirstNonEmpty(c, i),
         RemoveOldest(Keys[c][i]),
         \/ /\ held' = [held EXCEPT ![c] = Oldest(Keys[c][i])]
            /\ pc' = [pc EXCEPT ![c] = "check"]
         \/ /\ held' = held
            /\ pc' = [pc EXCEPT ![c] = "failed"],
         UNCHANGED <<chan, serial, pushed>>
  PROVE  OrderInv'
<1> USE DEF OrderInv
<1>0. PICK l \in Lists : l = Keys[c][i]
  BY PopShape
<1>1. /\ Len(list[l]) \in DOMAIN list[l]
      /\ Oldest(l) = list[l][Len(list[l])]
      /\ \A j \in DOMAIN list'[l] :
           /\ j \in DOMAIN list[l] /\ j < Len(list[l])
           /\ list'[l][j] = list[l][j]
      /\ \A k \in Lists \ {l} : list'[k] = list[k]
  <2>1. /\ Len(list[Keys[c][i]]) \in DOMAIN list[Keys[c][i]]
        /\ Oldest(Keys[c][i]) = list[Keys[c][i]][Len(list[Keys[c][i]])]
    BY PopShape
  <2>2. \A j \in DOMAIN list'[Keys[c][i]] :
          /\ j \in DOMAIN list[Keys[c][i]] /\ j < Len(list[Keys[c][i]])
          /\ list'[Keys[c][i]][j] = list[Keys[c][i]][j]
    BY PopShape
  <2>3. \A k \in Lists \ {Keys[c][i]} : list'[k] = list[k]
    BY PopShape
  <2> QED
    BY <1>0, <2>1, <2>2, <2>3
<1>2. PICK o \in Msgs :
        /\ o = Oldest(l) /\ o = list[l][Len(list[l])] /\ Home[o] = l
        /\ \A n \in Msgs : pushed[n].no \in Nat
  BY <1>1 DEF TypeOK, ListOrder
<1>3. \A n \in Msgs : Before(n) => Before(n)' /\ (Home[n] = l => pushed[n].no < pushed[o].no)
  <2>1. \A n \in Msgs : Home[n] \in Lists
    BY QueueAssumption
  <2> QED
    BY <1>1, <1>2, <2>1 DEF Before
<1>4. Before(o)'
  <2>1. pushed[o].no <= serial
    BY <1>1, <1>2 DEF ListOrder
  <2>2. \A j \in DOMAIN list'[l] : pushed[o].no < pushed[list'[l][j]].no
    BY <1>1, <1>2 DEF ListOrder
  <2> QED
    BY <1>2, <2>1, <2>2 DEF Before
<1>5. \A d \in Consumers : \A j \in DOMAIN chan[d] :
        /\ chan[d][j].msg \in Msgs
        /\ chan[d][j].msg # o
        /\ Home[chan[d][j].msg] = Home[o] => pushed[chan[d][j].msg].no < pushed[o].no
  <2>1. \A d \in Consumers : \A j \in DOMAIN chan[d] : chan[d][j].msg \in Msgs
    BY ChanType
  <2>2. \A d \in Consumers : \A j \in DOMAIN chan[d] : Before(chan[d][j].msg)
    BY DEF ChanOrder
  <2> QED
    BY <1>2, <1>3, <2>1, <2>2
<1>6. \A d \in Consumers : held[d] # o
  <2>1. \A d \in Consumers : held[d] = o => Before(o)
    BY <1>2 DEF HeldOrder
  <2> QED
    BY <1>2, <1>3, <2>1
<1>7. ListOrder'
  BY <1>1 DEF ListOrder
<1>8. HeldOrder'
  <2>1. held[c] \notin Msgs
    BY DEF HeldOrder
  <2>2. \A d \in Consumers \ {c} :
          /\ held'[d] = held[d] /\ pc'[d] = pc[d]
    BY DEF TypeOK
  <2>3. \/ held'[c] = o /\ pc'[c] = "check"
        \/ held'[c] \notin Msgs
    <3>1. /\ held \in [Consumers -> Msgs \cup {NoMsg}]
          /\ pc \in [Consumers -> {"pop", "check", "send", "failed", "closed"}]
      BY DEF TypeOK
    <3>2. CASE held' = [held EXCEPT ![c] = o] /\ pc' = [pc EXCEPT ![c] = "check"]
      BY <3>1, <3>2
    <3>3. CASE held' = held
      BY <2>1, <3>3
    <3> QED
      BY <1>0, <1>2, <3>2, <3>3
  <2> SUFFICES ASSUME NEW d \in Consumers, NEW n \in Msgs, held'[d] = n
               PROVE  /\ pc'[d] \in {"check", "send"}
                      /\ Before(n)'
                      /\ \A e \in Consumers : held'[e] = n => e = d
                      /\ \A e \in Consumers : \A j \in DOMAIN chan[e] :
                           chan[e][j].msg # n
                      /\ \A j \in DOMAIN chan[d] :
                           Home[chan[d][j].msg] = Home[n] =>
                             pushed[chan[d][j].msg].no < pushed[n].no
    BY DEF HeldOrder, Before
  <2>4. CASE d = c
    BY <1>4, <1>5, <1>6, <2>2, <2>3, <2>4
  <2>5. CASE d # c
    <3>1. held[d] = n /\ n # o
      BY <1>6, <2>2, <2>5
    <3>2. Before(n)' /\ pc[d] \in {"check", "send"}
      BY <1>3, <3>1 DEF HeldOrder
    <3>3. pc'[d] = pc[d] /\ \A e \in Consumers : held'[e] = n => e = d
      BY <2>2, <2>3, <2>5, <3>1 DEF HeldOrder
    <3> QED
      BY <3>1, <3>2, <3>3 DEF HeldOrder
  <2> QED
    BY <2>4, <2>5
<1>9. ChanOrder'
  <2>1. \A d \in Consumers : \A j \in DOMAIN chan[d] : Before(chan[d][j].msg)'
    BY <1>3, <1>5 DEF ChanOrder
  <2> QED
    BY <2>1 DEF ChanOrder, Before
<1>10. InOrder' /\ AtMostOnce'
  BY SentSame
<1> QED
  BY <1>7, <1>8, <1>9, <1>10

\* Dropping the message that is held keeps the order.
LEMMA OrderDrop ==
  ASSUME TypeOK, OrderInv, NEW c \in Consumers,
         held' = [held EXCEPT ![c] = NoMsg], pc' = [pc EXCEPT ![c] = "pop"],
         UNCHANGED <<list, chan, serial, pushed>>
  PROVE  OrderInv'
<1> USE DEF OrderInv
<1>1. /\ held'[c] \notin Msgs
      /\ \A d \in Consumers \ {c} : held'[d] = held[d] /\ pc'[d] = pc[d]
  BY QueueAssumption DEF TypeOK
<1>2. HeldOrder'
  BY <1>1, HeldSame
<1>3. ListOrder' /\ InOrder' /\ AtMostOnce'
  BY ListSame, SentSame
<1>4. ChanOrder'
  BY ChanSame
<1> QED
  BY <1>2, <1>3, <1>4

\* Sending a message appends it to what the channel has delivered.
LEMMA SendChan ==
  ASSUME TypeOK, HoldsMsg, NEW c \in Consumers, Send(c)
  PROVE  /\ held[c] \in Msgs
         /\ \E k \in Nat :
              /\ DOMAIN chan[c] = 1..k
              /\ DOMAIN chan'[c] = 1..(k + 1)
              /\ chan'[c][k + 1] = [msg |-> held[c], at |-> read[c].at,
                                    ttl |-> read[c].ttl]
              /\ chan'[c][k + 1].msg = held[c]
              /\ \A i \in DOMAIN chan[c] : chan'[c][i] = chan[c][i]
         /\ \A d \in Consumers \ {c} : chan'[d] = chan[d]
<1> DEFINE D == [msg |-> held[c], at |-> read[c].at, ttl |-> read[c].ttl]
<1>1. chan[c] \in Seq(Delivery) /\ read[c] \in [at : Nat, ttl : Nat]
  BY DEF TypeOK
<1>2. held[c] \in Msgs
  BY DEF HoldsMsg, Send
<1>3. D \in Delivery /\ D.msg = held[c]
  BY <1>1, <1>2 DEF Delivery
<1>4. /\ chan'[c] = Append(chan[c], D)
      /\ \A d \in Consumers \ {c} : chan'[d] = chan[d]
  BY DEF TypeOK, Send
<1> HIDE DEF D
<1>5. /\ Append(chan[c], D) \in Seq(Delivery)
      /\ Len(Append(chan[c], D)) = Len(chan[c]) + 1
      /\ \A i \in 1..Len(chan[c]) : Append(chan[c], D)[i] = chan[c][i]
      /\ Append(chan[c], D)[Len(chan[c]) + 1] = D
  BY <1>1, <1>3, Appended
<1>6. /\ Len(chan[c]) \in Nat
      /\ DOMAIN chan[c] = 1..Len(chan[c])
      /\ DOMAIN chan'[c] = 1..(Len(chan[c]) + 1)
  BY <1>1, <1>4, <1>5
<1>7. /\ chan'[c][Len(chan[c]) + 1] = D
      /\ \A i \in DOMAIN chan[c] : chan'[c][i] = chan[c][i]
  BY <1>4, <1>5, <1>6
<1> QED
  BY <1>2, <1>3, <1>4, <1>6, <1>7 DEF D

\* Delivering the message that is held keeps the order.
LEMMA OrderSend ==
  ASSUME TypeOK, HoldsMsg, OrderInv, NEW c \in Consumers, Send(c)
  PROVE  OrderInv'
<1> USE DEF OrderInv
<1>1. PICK n \in Msgs : held[c] = n
  BY DEF HoldsMsg, Send
<1>2. /\ Before(n)
      /\ \A d \in Consumers : held[d] = n => d = c
      /\ \A d \in Consumers : \A i \in DOMAIN chan[d] : chan[d][i].msg # n
      /\ \A i \in DOMAIN chan[c] : Home[chan[c][i].msg] = Home[n] =>
           pushed[chan[c][i].msg].no < pushed[n].no
  BY <1>1 DEF HeldOrder
<1>3. /\ held'[c] \notin Msgs
      /\ \A d \in Consumers \ {c} : held'[d] = held[d] /\ pc'[d] = pc[d]
  BY QueueAssumption DEF TypeOK, Send
<1>4. UNCHANGED <<list, serial, pushed>>
  BY DEF Send, redisVars, historyVars
<1>5. \A d \in Consumers \ {c} : chan'[d] = chan[d]
  BY SendChan
<1>6. PICK k \in Nat :
        /\ DOMAIN chan[c] = 1..k
        /\ DOMAIN chan'[c] = 1..(k + 1)
        /\ chan'[c][k + 1].msg = n
        /\ \A i \in DOMAIN chan[c] : chan'[c][i] = chan[c][i]
  BY <1>1, SendChan
<1>7. /\ DOMAIN chan'[c] = DOMAIN chan[c] \cup {k + 1}
      /\ \A i \in DOMAIN chan[c] : i < k + 1 /\ ~(k + 1 < i)
      /\ ~(k + 1 < k + 1)
  BY <1>6
<1>8. \A d \in Consumers : \A i \in DOMAIN chan'[d] :
        \/ i \in DOMAIN chan[d] /\ chan'[d][i].msg = chan[d][i].msg
        \/ d = c /\ i = k + 1 /\ chan'[d][i].msg = n
  BY <1>5, <1>6, <1>7
<1>9. ListOrder'
  BY <1>4 DEF ListOrder
<1>0. \A m : Before(m)' <=> Before(m)
  BY <1>4 DEF Before
<1>10. HeldOrder'
  <2> SUFFICES ASSUME NEW d \in Consumers, held'[d] \in Msgs
               PROVE  /\ pc'[d] \in {"check", "send"}
                      /\ Before(held'[d])
                      /\ \A e \in Consumers : held'[e] = held'[d] => e = d
                      /\ \A e \in Consumers : \A i \in DOMAIN chan'[e] :
                           chan'[e][i].msg # held'[d]
                      /\ \A i \in DOMAIN chan'[d] :
                           Home[chan'[d][i].msg] = Home[held'[d]] =>
                             pushed[chan'[d][i].msg].no < pushed[held'[d]].no
    BY <1>0, <1>4 DEF HeldOrder
  <2>1. d # c /\ held'[d] = held[d] /\ pc'[d] = pc[d] /\ held[d] # n
    BY <1>2, <1>3
  <2>2. /\ pc[d] \in {"check", "send"} /\ Before(held[d])
        /\ \A e \in Consumers : held[e] = held[d] => e = d
        /\ \A e \in Consumers : \A i \in DOMAIN chan[e] : chan[e][i].msg # held[d]
        /\ \A i \in DOMAIN chan[d] : Home[chan[d][i].msg] = Home[held[d]] =>
             pushed[chan[d][i].msg].no < pushed[held[d]].no
    BY <2>1 DEF HeldOrder
  <2>3. \A e \in Consumers : held'[e] = held'[d] => e = d
    BY <1>3, <2>1, <2>2
  <2>4. \A e \in Consumers : \A i \in DOMAIN chan'[e] : chan'[e][i].msg # held'[d]
    BY <1>8, <2>1, <2>2
  <2>5. chan'[d] = chan[d]
    BY <1>5, <2>1
  <2> QED
    BY <2>1, <2>2, <2>3, <2>4, <2>5
<1>11. ChanOrder'
  <2>1. \A d \in Consumers : \A i \in DOMAIN chan'[d] : Before(chan'[d][i].msg)
    BY <1>2, <1>8 DEF ChanOrder
  <2> QED
    BY <1>0, <2>1 DEF ChanOrder
<1>12. InOrder'
  <2> SUFFICES ASSUME NEW d \in Consumers, NEW i \in DOMAIN chan'[d],
                      NEW j \in DOMAIN chan'[d], i < j,
                      Home[chan'[d][i].msg] = Home[chan'[d][j].msg]
               PROVE  pushed[chan'[d][i].msg].no < pushed[chan'[d][j].msg].no
    BY <1>4 DEF InOrder
  <2>1. CASE d # c
    BY <1>5, <2>1 DEF InOrder
  <2>2. CASE d = c
    <3>1. i \in DOMAIN chan[c] /\ chan'[c][i].msg = chan[c][i].msg
      BY <1>6, <1>7, <2>2
    <3>2. CASE j = k + 1
      BY <1>2, <1>6, <2>2, <3>1, <3>2
    <3>3. CASE j \in DOMAIN chan[c]
      BY <1>6, <2>2, <3>1, <3>3 DEF InOrder
    <3> QED
      BY <1>7, <2>2, <3>2, <3>3
  <2> QED
    BY <2>1, <2>2
<1>13. AtMostOnce'
  <2> SUFFICES ASSUME NEW d \in Consumers, NEW e \in Consumers,
                      NEW i \in DOMAIN chan'[d], NEW j \in DOMAIN chan'[e],
                      chan'[d][i].msg = chan'[e][j].msg
               PROVE  d = e /\ i = j
    BY DEF AtMostOnce
  <2>1. CASE chan'[d][i].msg = n
    <3>1. d = c /\ i = k + 1
      BY <1>2, <1>8, <2>1
    <3>2. e = c /\ j = k + 1
      BY <1>2, <1>8, <2>1
    <3> QED
      BY <3>1, <3>2
  <2>2. CASE chan'[d][i].msg # n
    <3>1. i \in DOMAIN chan[d] /\ chan'[d][i].msg = chan[d][i].msg
      BY <1>8, <2>2
    <3>2. j \in DOMAIN chan[e] /\ chan'[e][j].msg = chan[e][j].msg
      BY <1>8, <2>2
    <3>3. chan[d][i].msg = chan[e][j].msg
      BY <3>1, <3>2
    <3>4. AtMostOnce
      OBVIOUS
    <3> QED
      BY <3>1, <3>2, <3>3, <3>4 DEF AtMostOnce
  <2> QED
    BY <2>1, <2>2
<1> QED
  BY <1>9, <1>10, <1>11, <1>12, <1>13

\* The other steps change nothing that the order is about.
LEMMA OrderQuiet ==
  ASSUME TypeOK, OrderInv, UNCHANGED <<list, held, chan, serial, pushed>>,
         \A c \in Consumers : pc[c] \in {"check", "send"} =>
           pc'[c] \in {"check", "send"}
  PROVE  OrderInv'
<1> USE DEF OrderInv
<1>1. ListOrder' /\ InOrder' /\ AtMostOnce'
  BY ListSame, SentSame
<1>2. ChanOrder'
  BY ChanSame
<1>3. HeldOrder'
  BY HeldSame
<1> QED
  BY <1>1, <1>2, <1>3

\* Every step keeps the order.
LEMMA OrderStep ==
  TypeOK /\ HoldsMsg /\ NewUnused /\ OrderInv /\ [Next]_vars => OrderInv'
<1> SUFFICES ASSUME TypeOK, HoldsMsg, NewUnused, OrderInv, [Next]_vars
             PROVE  OrderInv'
  OBVIOUS
<1> USE DEF redisVars, historyVars, loopVars
<1>1. ASSUME NEW p \in Producers, NEW m \in Msgs, NEW t \in Timeouts,
             Register(p, m, t) \/ RegisterLost(p, m, t)
      PROVE  OrderInv'
  <2>1. reg[m] = "new" /\ Script(p, m, t) /\ UNCHANGED <<pc, held, chan>>
    BY <1>1 DEF Register, RegisterLost
  <2> QED
    BY <2>1, OrderScript
<1>2. ASSUME NEW c \in Consumers, Pop(c)
      PROVE  OrderInv'
  <2>1. /\ pc[c] = "pop" /\ pc' = [pc EXCEPT ![c] = "check"]
        /\ UNCHANGED <<chan, serial, pushed>>
    BY <1>2 DEF Pop
  <2>2. PICK i \in DOMAIN Keys[c] :
          /\ FirstNonEmpty(c, i)
          /\ held' = [held EXCEPT ![c] = Oldest(Keys[c][i])]
          /\ RemoveOldest(Keys[c][i])
    BY <1>2 DEF Pop
  <2> QED
    BY <2>1, <2>2, OrderPop
<1>3. ASSUME NEW c \in Consumers, PopLost(c)
      PROVE  OrderInv'
  <2>1. /\ pc[c] = "pop" /\ pc' = [pc EXCEPT ![c] = "failed"]
        /\ UNCHANGED <<held, chan, serial, pushed>>
    BY <1>3 DEF PopLost
  <2>2. PICK i \in DOMAIN Keys[c] : FirstNonEmpty(c, i) /\ RemoveOldest(Keys[c][i])
    BY <1>3 DEF PopLost
  <2> QED
    BY <2>1, <2>2, OrderPop
<1>4. ASSUME NEW c \in Consumers, Check(c)
      PROVE  OrderInv'
  <2>1. CASE PTTL(held[c]) > 0
    BY <1>4, <2>1, OrderQuiet DEF Check, TypeOK
  <2>2. CASE ~(PTTL(held[c]) > 0)
    BY <1>4, <2>2, OrderDrop DEF Check
  <2> QED
    BY <2>1, <2>2
<1>5. ASSUME NEW c \in Consumers, CheckFail(c)
      PROVE  OrderInv'
  BY <1>5, OrderDrop DEF CheckFail
<1>6. ASSUME NEW c \in Consumers, Send(c)
      PROVE  OrderInv'
  BY <1>6, OrderSend
<1>7. ASSUME NEW c \in Consumers, PopFail(c) \/ CloseChan(c) \/ Break(c)
      PROVE  OrderInv'
  BY <1>7, OrderQuiet DEF PopFail, CloseChan, Break, TypeOK
<1>8. ASSUME (\E m \in Msgs : RegisterFail(m)) \/ Tick \/ UNCHANGED vars
      PROVE  OrderInv'
  BY <1>8, OrderQuiet DEF RegisterFail, Tick, vars
<1> QED
  BY <1>1, <1>2, <1>3, <1>4, <1>5, <1>6, <1>7, <1>8 DEF Next, Loop, Fault

\* The order of the queue always holds.
LEMMA QueueOrder == Spec => []OrderInv
<1>1. Init => OrderInv
  BY QueueAssumption
  DEF Init, OrderInv, ListOrder, HeldOrder, ChanOrder, InOrder, AtMostOnce
<1>2. (TypeOK /\ HoldsMsg /\ TTLInv) /\ OrderInv /\ [Next]_vars => OrderInv'
  BY OrderStep DEF TTLInv
<1> QED
  BY <1>1, <1>2, QueueInv, PTL DEF Spec

\* Each consumer hands over the messages of a list in the order in which the
\* brokers pushed them, whatever is trimmed, dropped as expired or lost with
\* a connection in between.
THEOREM QueueInOrder == Spec => []InOrder
<1>1. OrderInv => InOrder
  BY DEF OrderInv
<1> QED
  BY <1>1, QueueOrder, PTL

\* No message is handed over twice, be it by one consumer or by two that pop
\* from the same list.
THEOREM QueueAtMostOnce == Spec => []AtMostOnce
<1>1. OrderInv => AtMostOnce
  BY DEF OrderInv
<1> QED
  BY <1>1, QueueOrder, PTL

-----------------------------------------------------------------------------
(* Where a message is, and how steps move it *)

\* In a list, or taken from it and not delivered yet.
Queued(m) ==
  \/ \E l \in Lists : m \in Range(list[l])
  \/ \E c \in Consumers : held[c] = m

Delivered(m) ==
  \E c \in Consumers : \E i \in DOMAIN chan[c] : chan[c][i].msg = m

\* What is known of a queue in every reachable state.
QueueFacts ==
  TypeOK /\ HoldsMsg /\ TTLInv /\ OrderInv /\ SharedCapRespected

\* It is known.
LEMMA QueueKnown == Spec => []QueueFacts
<1>1. TypeOK /\ HoldsMsg /\ TTLInv /\ OrderInv /\ CapRespected => QueueFacts
  BY SharedCap DEF QueueFacts
<1> QED
  BY <1>1, QueueInv, QueueOrder, QueueCapRespected, PTL

\* A message is in one place: in its list, with one consumer, or delivered.
LEMMA OnePlace ==
  ASSUME QueueFacts, NEW m \in Msgs
  PROVE  /\ Delivered(m) => ~Queued(m)
         /\ reg[m] = "new" => ~Queued(m) /\ ~Delivered(m)
         /\ \A c \in Consumers : held[c] = m =>
              /\ \A l \in Lists : m \notin Range(list[l])
              /\ \A d \in Consumers : held[d] = m => d = c
<1> USE DEF QueueFacts, OrderInv
<1>1. ASSUME Before(m)
      PROVE  \A l \in Lists : m \notin Range(list[l])
  <2>1. pushed[m].no \in Nat
    BY DEF TypeOK
  <2>2. \A i \in DOMAIN list[Home[m]] : list[Home[m]][i] # m
    BY <1>1, <2>1 DEF Before
  <2>3. \A l \in Lists : \A i \in DOMAIN list[l] : list[l][i] = m => l = Home[m]
    BY DEF ListOrder
  <2> QED
    BY <2>2, <2>3 DEF Range
<1>2. ASSUME NEW c \in Consumers, held[c] = m
      PROVE  /\ \A l \in Lists : m \notin Range(list[l])
             /\ \A d \in Consumers : held[d] = m => d = c
             /\ ~Delivered(m)
  BY <1>1, <1>2 DEF HeldOrder, Delivered
<1>3. Delivered(m) => Before(m)
  BY DEF ChanOrder, Delivered
<1>4. reg[m] = "new" => ~Queued(m) /\ ~Delivered(m)
  BY DEF TTLInv, NewUnused, Queued, Delivered
<1> QED
  BY <1>1, <1>2, <1>3, <1>4 DEF Queued

\* Registering a message moves no other one, when the brokers agree on the
\* capacity of the queue.
LEMMA MoveRegister ==
  ASSUME QueueFacts, NEW p \in Producers, NEW m \in Msgs, NEW t \in Timeouts,
         \A q \in Producers : Cap[p] = Cap[q], Script(p, m, t),
         UNCHANGED <<held, chan>>, NEW n \in Msgs
  PROVE  /\ Delivered(n)' <=> Delivered(n)
         /\ n # m => (Queued(n)' <=> Queued(n))
<1> USE DEF QueueFacts
<1>1. \A l \in Lists : Range(list'[l]) \subseteq Range(list[l]) \cup {m}
  BY ScriptList
<1>2. \A l \in Lists : Cap[p] > 0 => Len(list[l]) <= Cap[p]
  BY DEF SharedCapRespected
<1>3. \A l \in Lists : Range(list[l]) \subseteq Range(list'[l])
  BY <1>2, ScriptList
<1>4. Delivered(n)' <=> Delivered(n)
  BY DEF Delivered
<1>5. ASSUME n # m
      PROVE  \A l \in Lists : n \in Range(list'[l]) <=> n \in Range(list[l])
  BY <1>1, <1>3, <1>5
<1>6. ASSUME n # m
      PROVE  Queued(n)' <=> Queued(n)
  BY <1>5, <1>6 DEF Queued, Range
<1> QED
  BY <1>4, <1>6

\* Taking a message from its list moves it to the consumer, or nowhere if
\* the answer is lost.
LEMMA MovePop ==
  ASSUME QueueFacts, NEW c \in Consumers, Pop(c) \/ PopLost(c)
  PROVE  \E m \in Msgs :
           /\ Queued(m) /\ ~Delivered(m) /\ reg[m] # "new"
           /\ Pop(c) => Queued(m)'
           /\ PopLost(c) => ~Queued(m)'
           /\ \A n \in Msgs : Delivered(n)' <=> Delivered(n)
           /\ \A n \in Msgs \ {m} : Queued(n)' <=> Queued(n)
<1> USE DEF QueueFacts
<1>1. PICK i \in DOMAIN Keys[c] : FirstNonEmpty(c, i) /\ RemoveOldest(Keys[c][i])
                                  /\ (Pop(c) => held' = [held EXCEPT ![c] = Oldest(Keys[c][i])])
  BY DEF Pop, PopLost
<1>2. PICK l \in Lists : l = Keys[c][i]
  BY <1>1, PopShape
<1>3. /\ Len(list[l]) \in DOMAIN list[l]
      /\ Oldest(l) = list[l][Len(list[l])]
      /\ \A j \in DOMAIN list'[l] :
           /\ j \in DOMAIN list[l] /\ j < Len(list[l])
           /\ list'[l][j] = list[l][j]
      /\ \A j \in DOMAIN list[l] : j # Len(list[l]) => j \in DOMAIN list'[l]
      /\ \A k \in Lists \ {l} : list'[k] = list[k]
  BY <1>1, <1>2, PopShape
<1>4. PICK o \in Msgs : o = Oldest(l) /\ o \in Range(list[l])
  BY <1>3 DEF TypeOK, Range
<1>5. ListOrder /\ HeldOrder
  BY DEF OrderInv
<1>6. \A j \in DOMAIN list[l] : j < Len(list[l]) => list[l][j] # o
  <2>1. \A n \in Msgs : pushed[n].no \in Nat
    BY DEF TypeOK
  <2> QED
    BY <1>3, <1>4, <1>5, <2>1 DEF ListOrder
<1>7. \A k \in Lists : o \notin Range(list'[k])
  <2>1. o \notin Range(list'[l])
    BY <1>3, <1>6 DEF Range
  <2>2. \A k \in Lists \ {l} : o \notin Range(list[k])
    BY <1>4, <1>5 DEF ListOrder, Range
  <2> QED
    BY <1>3, <2>1, <2>2
<1>8. \A n \in Msgs \ {o} : \A k \in Lists : n \in Range(list'[k]) <=> n \in Range(list[k])
  <2>1. \A n \in Msgs \ {o} : n \in Range(list'[l]) <=> n \in Range(list[l])
    BY <1>3, <1>4 DEF Range
  <2> QED
    BY <1>3, <2>1
<1>9. Queued(o) /\ ~Delivered(o) /\ reg[o] # "new" /\ \A d \in Consumers : held[d] # o
  <2>1. Queued(o)
    BY <1>4 DEF Queued
  <2> QED
    BY <1>4, <2>1, OnePlace
<1>10. \A n \in Msgs : Delivered(n)' <=> Delivered(n)
  BY DEF Delivered, Pop, PopLost
<1>11. CASE Pop(c)
  <2>1. held' = [held EXCEPT ![c] = o] /\ pc[c] = "pop"
    BY <1>1, <1>2, <1>4, <1>11 DEF Pop
  <2>2. /\ held'[c] = o
        /\ \A d \in Consumers \ {c} : held'[d] = held[d]
        /\ held[c] \notin Msgs
    BY <1>5, <2>1 DEF TypeOK, HeldOrder
  <2>3. Queued(o)'
    BY <2>2 DEF Queued
  <2>4. \A n \in Msgs \ {o} : Queued(n)' <=> Queued(n)
    BY <1>8, <2>2 DEF Queued
  <2>5. ~PopLost(c)
    BY <1>11 DEF Pop, PopLost, TypeOK
  <2> QED
    BY <1>9, <1>10, <2>3, <2>4, <2>5
<1>12. CASE PopLost(c)
  <2>1. held' = held /\ pc'[c] = "failed"
    BY <1>12 DEF PopLost, TypeOK
  <2>2. ~Queued(o)'
    BY <1>7, <1>9, <2>1 DEF Queued
  <2>3. \A n \in Msgs \ {o} : Queued(n)' <=> Queued(n)
    BY <1>8, <2>1 DEF Queued
  <2>4. ~Pop(c)
    BY <2>1 DEF Pop, TypeOK
  <2> QED
    BY <1>9, <1>10, <2>2, <2>3, <2>4
<1> QED
  BY <1>11, <1>12

\* Dropping the message that is held moves it nowhere.
LEMMA MoveDrop ==
  ASSUME QueueFacts, NEW c \in Consumers, held[c] \in Msgs,
         held' = [held EXCEPT ![c] = NoMsg], UNCHANGED <<list, chan>>
  PROVE  /\ Queued(held[c]) /\ ~Delivered(held[c]) /\ reg[held[c]] # "new"
         /\ \A m \in Msgs : m = held[c] => ~Queued(m)'
         /\ \A n \in Msgs : Delivered(n)' <=> Delivered(n)
         /\ \A n \in Msgs \ {held[c]} : Queued(n)' <=> Queued(n)
<1> USE DEF QueueFacts
<1>1. PICK m \in Msgs : m = held[c]
  OBVIOUS
<1>2. Queued(m)
  BY <1>1 DEF Queued
<1>3. /\ ~Delivered(m) /\ reg[m] # "new"
      /\ \A l \in Lists : m \notin Range(list[l])
      /\ \A d \in Consumers : held[d] = m => d = c
  BY <1>1, <1>2, OnePlace
<1>4. /\ held'[c] \notin Msgs
      /\ \A d \in Consumers \ {c} : held'[d] = held[d]
  BY QueueAssumption DEF TypeOK
<1>5. ~Queued(m)'
  BY <1>3, <1>4 DEF Queued
<1>6. \A n \in Msgs : Delivered(n)' <=> Delivered(n)
  BY DEF Delivered
<1>7. \A n \in Msgs \ {m} : Queued(n)' <=> Queued(n)
  BY <1>1, <1>4 DEF Queued
<1> QED
  BY <1>1, <1>2, <1>3, <1>5, <1>6, <1>7

\* Sending the message that is held delivers it, and no other one.
LEMMA MoveSend ==
  ASSUME QueueFacts, NEW c \in Consumers, Send(c)
  PROVE  /\ held[c] \in Msgs
         /\ Queued(held[c]) /\ ~Delivered(held[c]) /\ reg[held[c]] # "new"
         /\ \A m \in Msgs : m = held[c] => ~Queued(m)' /\ Delivered(m)'
         /\ \A n \in Msgs \ {held[c]} : /\ Delivered(n)' <=> Delivered(n)
                                        /\ Queued(n)' <=> Queued(n)
<1> USE DEF QueueFacts
<1>1. PICK m \in Msgs : m = held[c]
  BY DEF HoldsMsg, Send
<1>2. Queued(m)
  BY <1>1 DEF Queued
<1>3. /\ ~Delivered(m) /\ reg[m] # "new"
      /\ \A l \in Lists : m \notin Range(list[l])
      /\ \A d \in Consumers : held[d] = m => d = c
  BY <1>1, <1>2, OnePlace
<1>4. /\ held'[c] \notin Msgs /\ list' = list
      /\ \A d \in Consumers \ {c} : held'[d] = held[d] /\ chan'[d] = chan[d]
  BY QueueAssumption DEF TypeOK, Send, redisVars
<1>5. ~Queued(m)'
  BY <1>3, <1>4 DEF Queued
<1>6. PICK k \in Nat :
        /\ DOMAIN chan'[c] = DOMAIN chan[c] \cup {k + 1}
        /\ chan'[c][k + 1].msg = m
        /\ \A i \in DOMAIN chan[c] : chan'[c][i] = chan[c][i]
  <2>1. PICK k \in Nat :
          /\ DOMAIN chan[c] = 1..k
          /\ DOMAIN chan'[c] = 1..(k + 1)
          /\ chan'[c][k + 1].msg = m
          /\ \A i \in DOMAIN chan[c] : chan'[c][i] = chan[c][i]
    BY <1>1, SendChan
  <2>2. 1..(k + 1) = (1..k) \cup {k + 1}
    OBVIOUS
  <2> QED
    BY <2>1, <2>2
<1>7. Delivered(m)'
  BY <1>6 DEF Delivered
<1>8. \A n \in Msgs \ {m} : Delivered(n)' <=> Delivered(n)
  BY <1>4, <1>6 DEF Delivered
<1>9. \A n \in Msgs \ {m} : Queued(n)' <=> Queued(n)
  BY <1>1, <1>4 DEF Queued
<1> QED
  BY <1>1, <1>2, <1>3, <1>5, <1>7, <1>8, <1>9

\* What has been delivered stays delivered.
LEMMA ChanGrows ==
  ASSUME QueueFacts, [Next]_vars, NEW c \in Consumers, NEW i \in DOMAIN chan[c]
  PROVE  i \in DOMAIN chan'[c] /\ chan'[c][i] = chan[c][i]
<1> USE DEF QueueFacts
<1>1. ASSUME NEW d \in Consumers, Send(d)
      PROVE  i \in DOMAIN chan'[c] /\ chan'[c][i] = chan[c][i]
  <2>1. CASE d = c
    <3>1. PICK k \in Nat :
            /\ DOMAIN chan[c] = 1..k
            /\ DOMAIN chan'[c] = 1..(k + 1)
            /\ \A j \in DOMAIN chan[c] : chan'[c][j] = chan[c][j]
      BY <1>1, <2>1, SendChan
    <3> QED
      BY <3>1
  <2>2. CASE d # c
    BY <1>1, <2>2, SendChan
  <2> QED
    BY <2>1, <2>2
<1>2. ASSUME NEW d \in Consumers, Loop(d) \/ Fault(d), ~Send(d)
      PROVE  UNCHANGED chan
  BY <1>2 DEF Loop, Fault, Pop, PopLost, PopFail, CloseChan, Check, CheckFail, Break
<1>3. ASSUME \/ \E p \in Producers, m \in Msgs, t \in Timeouts :
                  Register(p, m, t) \/ RegisterLost(p, m, t)
             \/ \E m \in Msgs : RegisterFail(m)
             \/ Tick \/ UNCHANGED vars
      PROVE  UNCHANGED chan
  BY <1>3 DEF Register, RegisterLost, RegisterFail, Tick, loopVars, vars
<1> QED
  BY <1>1, <1>2, <1>3 DEF Next

\* A step that touches no list, no consumer's message and no channel moves
\* nothing.
LEMMA MoveNothing ==
  ASSUME UNCHANGED <<list, held, chan>>, NEW n
  PROVE  /\ Delivered(n)' <=> Delivered(n)
         /\ Queued(n)' <=> Queued(n)
BY DEF Delivered, Queued

=============================================================================
