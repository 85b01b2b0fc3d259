---------------------------- MODULE PubSubProofs ----------------------------
(***************************************************************************)
(* Proofs about the pub-sub connection, for any channels and patterns, any *)
(* number of messages, callers and readers.                                *)
(***************************************************************************)
EXTENDS PubSub, FiniteSetTheorems, SequenceTheorems, TLAPS

\* A caller between Lock and Unlock holds wmu and has a command to write.
LockInv ==
  \A c \in Callers : pc[c] # "idle" => wmu = c /\ todo[c].name \in Subs

\* The write buffer holds what the holder of wmu has written, and nothing
\* when nobody holds it.
BufInv ==
  link = "up" =>
    /\ (\A c \in Callers : pc[c] \in {"idle", "verb"}) => buf = <<>>
    /\ \A c \in Callers : pc[c] = "name" => Len(buf) = 1 /\ buf[1].sub = todo[c].sub
    /\ \A c \in Callers : pc[c] = "flush" => Len(buf) = 1 /\ buf[1] = todo[c]

\* The goroutine of Events is started with the channel, holds an event only
\* to send it, and leaves an error before it closes the channel.
LoopInv ==
  /\ loop = "off" <=> evch = "none"
  /\ loop = "done" <=> evch = "closed"
  /\ loop = "send" <=> held # <<>>
  /\ loop \in {"failed", "done"} => err # "nil"
  /\ \A r \in Readers : rpc[r] = "ended" => evch = "closed" /\ seen[r] = err

\* What Redis sends is in the order of publication.
OutInv ==
  /\ \A i \in DOMAIN out : ~out[i].ack => out[i].msg \in 1..published
  /\ \A i, j \in DOMAIN out :
       i <= j /\ ~out[i].ack /\ ~out[j].ack => out[i].msg <= out[j].msg

\* The event that is about to be sent comes before what is still to come.
HeldInv ==
  held # <<>> =>
    /\ held[1].msg <= published
    /\ \A i \in DOMAIN out : ~out[i].ack => held[1].msg <= out[i].msg

\* What a reader has received comes before all that.
GotInv ==
  \A r \in Readers : \A k \in DOMAIN got[r] :
    /\ got[r][k].msg <= published
    /\ held # <<>> => got[r][k].msg <= held[1].msg
    /\ \A i \in DOMAIN out : ~out[i].ack => got[r][k].msg <= out[i].msg

OrderInv == OutInv /\ HeldInv /\ GotInv /\ EventsInOrder

CommandInv == LockInv /\ BufInv /\ CommandsWhole /\ SubscriptionInFlight

-----------------------------------------------------------------------------
\* How Append changes a sequence.
LEMMA Appended ==
  ASSUME NEW S, NEW s \in Seq(S), NEW e \in S
  PROVE  /\ Append(s, e) \in Seq(S)
         /\ DOMAIN Append(s, e) = 1..(Len(s) + 1)
         /\ DOMAIN s = 1..Len(s)
         /\ \A i \in DOMAIN s : Append(s, e)[i] = s[i]
         /\ Append(s, e)[Len(s) + 1] = e
  BY AppendProperties

\* How Tail changes a sequence.
LEMMA Tailed ==
  ASSUME NEW S, NEW s \in Seq(S), s # <<>>
  PROVE  /\ Tail(s) \in Seq(S) /\ Head(s) \in S /\ Head(s) = s[1]
         /\ 1 \in DOMAIN s
         /\ DOMAIN Tail(s) = 1..(Len(s) - 1)
         /\ DOMAIN s = 1..Len(s)
         /\ \A i \in DOMAIN Tail(s) : i + 1 \in DOMAIN s /\ Tail(s)[i] = s[i + 1]
  BY HeadTailProperties

\* How a concatenation changes a sequence.
LEMMA Concatenated ==
  ASSUME NEW S, NEW s \in Seq(S), NEW t \in Seq(S)
  PROVE  /\ s \o t \in Seq(S)
         /\ DOMAIN s = 1..Len(s)
         /\ DOMAIN t = 1..Len(t)
         /\ DOMAIN (s \o t) = 1..(Len(s) + Len(t))
         /\ \A i \in DOMAIN s : (s \o t)[i] = s[i]
         /\ \A i \in DOMAIN t : (s \o t)[Len(s) + i] = t[i]
         /\ \A i \in DOMAIN (s \o t) : i \notin DOMAIN s =>
              i - Len(s) \in DOMAIN t /\ (s \o t)[i] = t[i - Len(s)]
  BY ConcatProperties

\* What Broker.Publish adds to the replies of Redis: messages with the number
\* of the publication, or nothing.
LEMMA PublishAppends ==
  ASSUME TypeOK, NEW m \in Pubs, Publish(m)
  PROVE  \E t \in Seq(Replies) :
           /\ out' = out \o t
           /\ \A i \in DOMAIN t : ~t[i].ack /\ t[i].msg = m
<1> DEFINE n == Cardinality(Matching(m))
<1>1. n \in Nat
  <2>1. Matching(m) \subseteq Subs
    BY DEF Matching, TypeOK
  <2>2. IsFiniteSet(Matching(m))
    BY <2>1, PubSubAssumption, FS_Subset
  <2> QED
    BY <2>2, FS_CardinalityType
<1>2. PICK q \in Orders(Matching(m)) :
        out' = IF link = "up" THEN out \o [i \in 1..n |-> Message(m, q[i])]
                              ELSE out
  BY DEF Publish
<1> DEFINE t == [i \in 1..n |-> Message(m, q[i])]
<1>3. \A i \in 1..n : q[i] \in Subs
  BY <1>2 DEF Orders, Matching, TypeOK
<1> HIDE DEF n
<1>4. \A i \in 1..n : Message(m, q[i]) \in Replies
  BY <1>3 DEF Message, Replies, Pubs
<1>5. t \in Seq(Replies) /\ DOMAIN t = 1..n
  BY <1>1, <1>4, IsASeq
<1>6. \A i \in DOMAIN t : ~t[i].ack /\ t[i].msg = m
  BY <1>5 DEF Message
<1>7. CASE link = "up"
  BY <1>2, <1>5, <1>6, <1>7
<1>8. CASE link # "up"
  <2>1. out' = out /\ out \in Seq(Replies)
    BY <1>2, <1>8 DEF TypeOK
  <2>2. out = out \o <<>> /\ <<>> \in Seq(Replies)
    BY <2>1, ConcatEmptySeq
  <2> QED
    BY <2>1, <2>2, \A i \in DOMAIN <<>> : FALSE
<1> QED
  BY <1>7, <1>8

\* What the goroutine of Events makes of a message has the type of an event.
LEMMA PayloadType ==
  ASSUME NEW v \in Replies, v.msg \in Pubs
  PROVE  EvntPayload(v) \in Events
  BY PubSubAssumption DEF EvntPayload, Events, Replies

\* Only messages of the right type are valid.
LEMMA ValidPubs == Valid \subseteq Pubs
  BY PubSubAssumption

\* The type invariant is inductive, relative to what the locks guarantee
\* about the write buffer.
LEMMA TypeStep == TypeOK /\ BufInv /\ LockInv /\ LoopInv /\ [Next]_vars => TypeOK'
<1> SUFFICES ASSUME TypeOK, BufInv, LockInv, LoopInv, [Next]_vars
             PROVE  TypeOK'
  OBVIOUS
<1> USE DEF callVars, redisVars, loopVars, readVars
<1>1. ASSUME NEW c \in Callers, NEW s \in Subs, NEW sub \in BOOLEAN, Lock(c, s, sub)
      PROVE  TypeOK'
  BY <1>1, PubSubAssumption DEF TypeOK, Lock, Commands
<1>2. ASSUME NEW c \in Callers, WriteVerb(c) PROVE TypeOK'
  <2>1. [sub |-> todo[c].sub, name |-> None] \in Commands
    BY DEF TypeOK, Commands
  <2>2. buf' \in Seq(Commands)
    BY <1>2, <2>1, Appended DEF TypeOK, WriteVerb
  <2> QED
    BY <1>2, <2>2 DEF TypeOK, WriteVerb
<1>3. ASSUME NEW c \in Callers, WriteName(c) PROVE TypeOK'
  <2> DEFINE e == [buf[1] EXCEPT !.name = todo[c].name]
  <2>1. Len(buf) = 1 /\ buf \in Seq(Commands) /\ buf[1] \in Commands
    BY <1>3 DEF TypeOK, WriteName, BufInv
  <2>2. e \in Commands
    BY <2>1 DEF TypeOK, Commands
  <2>3. buf' = [buf EXCEPT ![1] = e]
    BY <1>3, <2>1 DEF WriteName
  <2>4. buf' \in Seq(Commands)
    BY <2>1, <2>2, <2>3, ExceptSeq
  <2> QED
    BY <1>3, <2>4 DEF TypeOK, WriteName
<1>4. ASSUME NEW c \in Callers, Flush(c) PROVE TypeOK'
  <2>1. wire' \in Seq(Commands) /\ buf' \in Seq(Commands)
    BY <1>4, Concatenated DEF TypeOK, Flush
  <2>2. todo' \in [Callers -> Commands]
    BY <1>4 DEF TypeOK, Flush, Nothing, Commands
  <2>3. asked' \in [Subs -> BOOLEAN]
    BY <1>4 DEF TypeOK, Flush, Commands
  <2> QED
    BY <1>4, <2>1, <2>2, <2>3 DEF TypeOK, Flush
<1>5. ASSUME NEW c \in Callers, CallFails(c) PROVE TypeOK'
  BY <1>5 DEF TypeOK, CallFails, Nothing, Commands
<1>6. ASSUME Serve PROVE TypeOK'
  <2>1. wire' \in Seq(Commands) /\ Head(wire) \in Commands
    BY <1>6, Tailed DEF TypeOK, Serve
  <2>2. Head(wire).name \in Subs
    BY <1>6, <2>1 DEF Serve, Commands
  <2>3. Ack(Head(wire).name) \in Replies
    BY <2>2, PubSubAssumption DEF Ack, Replies
  <2>4. out' \in Seq(Replies)
    BY <1>6, <2>3, Appended DEF TypeOK, Serve
  <2> QED
    BY <1>6, <2>1, <2>2, <2>4 DEF TypeOK, Serve
<1>7. ASSUME NEW m \in Pubs, Publish(m) PROVE TypeOK'
  <2>1. PICK t \in Seq(Replies) : out' = out \o t
    BY <1>7, PublishAppends
  <2>2. out' \in Seq(Replies)
    BY <2>1, Concatenated DEF TypeOK
  <2> QED
    BY <1>7, <2>2 DEF TypeOK, Publish, Pubs
<1>8. ASSUME Break \/ Close PROVE TypeOK'
  BY <1>8 DEF TypeOK, Break, Close
<1>9. ASSUME ReceiveReply PROVE TypeOK'
  <2>1. out' \in Seq(Replies) /\ Head(out) \in Replies
    BY <1>9, Tailed DEF TypeOK, ReceiveReply
  <2>2. held' \in Seq(Events) /\ Len(held') <= 1
    <3>1. CASE held' = held
      BY <3>1 DEF TypeOK
    <3>2. CASE held' = <<EvntPayload(Head(out))>> /\ Head(out).msg \in Valid
      <4>1. EvntPayload(Head(out)) \in Events
        BY <2>1, <3>2, PayloadType, ValidPubs
      <4> QED
        BY <3>2, <4>1
    <3> QED
      BY <1>9, <3>1, <3>2 DEF ReceiveReply
  <2>3. loop' \in {"off", "receive", "send", "failed", "done"}
    BY <1>9 DEF ReceiveReply, TypeOK
  <2> QED
    BY <1>9, <2>1, <2>2, <2>3 DEF TypeOK, ReceiveReply
<1>10. ASSUME ReceiveError \/ CloseEvents PROVE TypeOK'
  BY <1>10 DEF TypeOK, ReceiveError, ReceivedError, CloseEvents, Errors
<1>11. ASSUME NEW r \in Readers, CallEvents(r) PROVE TypeOK'
  BY <1>11 DEF TypeOK, CallEvents
<1>12. ASSUME NEW r \in Readers, Deliver(r) PROVE TypeOK'
  <2>1. held # <<>> /\ held[1] \in Events
    BY <1>12 DEF TypeOK, Deliver, LoopInv
  <2>2. got' \in [Readers -> Seq(Events)]
    BY <1>12, <2>1, Appended DEF TypeOK, Deliver
  <2> QED
    BY <1>12, <2>2 DEF TypeOK, Deliver
<1>13. ASSUME NEW r \in Readers, RangeEnds(r) PROVE TypeOK'
  BY <1>13 DEF TypeOK, RangeEnds
<1>14. CASE UNCHANGED vars
  BY <1>14 DEF TypeOK, vars
<1> QED
  BY <1>1, <1>2, <1>3, <1>4, <1>5, <1>6, <1>7, <1>8, <1>9, <1>10, <1>11,
     <1>12, <1>13, <1>14 DEF Next, SubUnsub, Loop, Reader


-----------------------------------------------------------------------------
\* The goroutine of Events: its invariant is inductive.
LEMMA LoopStep == TypeOK /\ LoopInv /\ [Next]_vars => LoopInv'
<1> SUFFICES ASSUME TypeOK, LoopInv, [Next]_vars
             PROVE  LoopInv'
  OBVIOUS
<1> USE DEF callVars, redisVars, loopVars, readVars
<1>1. ASSUME UNCHANGED <<loopVars, readVars>> PROVE LoopInv'
  BY <1>1 DEF LoopInv
<1>2. ASSUME NEW c \in Callers, SubUnsub(c) PROVE LoopInv'
  BY <1>1, <1>2 DEF SubUnsub, Lock, WriteVerb, WriteName, Flush, CallFails
<1>3. ASSUME NEW m \in Pubs, Publish(m) PROVE LoopInv'
  BY <1>1, <1>3 DEF Publish
<1>4. ASSUME Serve \/ Break \/ Close PROVE LoopInv'
  BY <1>1, <1>4 DEF Serve, Break, Close
<1>5. ASSUME ReceiveReply PROVE LoopInv'
  <2>1. \/ loop' = "receive" /\ held' = held
        \/ loop' = "send" /\ held' = <<EvntPayload(Head(out))>>
    BY <1>5 DEF ReceiveReply
  <2> QED
    BY <1>5, <2>1 DEF ReceiveReply, LoopInv
<1>6. ASSUME ReceiveError PROVE LoopInv'
  BY <1>6 DEF ReceiveError, ReceivedError, LoopInv, TypeOK
<1>7. ASSUME CloseEvents PROVE LoopInv'
  BY <1>7 DEF CloseEvents, LoopInv
<1>8. ASSUME NEW r \in Readers, CallEvents(r) PROVE LoopInv'
  BY <1>8 DEF CallEvents, LoopInv, TypeOK
<1>9. ASSUME NEW r \in Readers, Deliver(r) PROVE LoopInv'
  BY <1>9 DEF Deliver, LoopInv, TypeOK
<1>10. ASSUME NEW r \in Readers, RangeEnds(r) PROVE LoopInv'
  BY <1>10 DEF RangeEnds, LoopInv, TypeOK
<1>11. CASE UNCHANGED vars
  BY <1>1, <1>11 DEF vars
<1> QED
  BY <1>2, <1>3, <1>4, <1>5, <1>6, <1>7, <1>8, <1>9, <1>10, <1>11
     DEF Next, Loop, Reader

\* The write lock and the buffer it protects: the invariant is inductive.
LEMMA LockStep ==
  TypeOK /\ LockInv /\ BufInv /\ [Next]_vars => LockInv' /\ BufInv'
<1> SUFFICES ASSUME TypeOK, LockInv, BufInv, [Next]_vars
             PROVE  LockInv' /\ BufInv'
  OBVIOUS
<1> USE DEF callVars, redisVars, loopVars, readVars
<1>1. ASSUME UNCHANGED callVars, link' = link \/ link' # "up"
      PROVE  LockInv' /\ BufInv'
  BY <1>1 DEF LockInv, BufInv
<1>2. ASSUME NEW c \in Callers, NEW s \in Subs, NEW sub \in BOOLEAN, Lock(c, s, sub)
      PROVE  LockInv' /\ BufInv'
  <2>1. \A d \in Callers : pc[d] = "idle"
    BY <1>2, PubSubAssumption DEF Lock, LockInv
  <2>2. /\ pc' = [pc EXCEPT ![c] = "verb"] /\ wmu' = c /\ buf' = buf /\ link' = link
        /\ todo' = [todo EXCEPT ![c] = [sub |-> sub, name |-> s]]
    BY <1>2 DEF Lock
  <2>3. pc'[c] = "verb" /\ todo'[c].name = s /\ \A d \in Callers \ {c} : pc'[d] = "idle"
    BY <2>1, <2>2 DEF TypeOK
  <2>4. LockInv'
    BY <2>2, <2>3 DEF LockInv
  <2>5. BufInv'
    BY <2>1, <2>2, <2>3 DEF BufInv
  <2> QED
    BY <2>4, <2>5
<1>3. ASSUME NEW c \in Callers, pc[c] # "idle"
      PROVE  \A d \in Callers \ {c} : pc[d] = "idle"
  BY <1>3 DEF LockInv
<1>4. ASSUME NEW c \in Callers, WriteVerb(c) PROVE LockInv' /\ BufInv'
  <2>1. \A d \in Callers \ {c} : pc[d] = "idle"
    BY <1>3, <1>4 DEF WriteVerb
  <2>2. buf = <<>>
    BY <1>4, <2>1 DEF WriteVerb, BufInv
  <2>3. LockInv'
    BY <1>4, <2>1 DEF WriteVerb, LockInv, TypeOK
  <2>4. buf' = <<[sub |-> todo[c].sub, name |-> None]>>
    BY <1>4, <2>2 DEF WriteVerb
  <2>5. Len(buf') = 1 /\ buf'[1].sub = todo'[c].sub
    <3>1. todo' = todo
      BY <1>4 DEF WriteVerb
    <3>2. Len(buf') = 1 /\ buf'[1] = [sub |-> todo[c].sub, name |-> None]
      BY <2>4
    <3> QED
      BY <3>1, <3>2
  <2>6. pc'[c] = "name" /\ \A d \in Callers \ {c} : pc'[d] = "idle"
    BY <1>4, <2>1 DEF WriteVerb, TypeOK
  <2> QED
    BY <2>3, <2>5, <2>6 DEF BufInv
<1>5. ASSUME NEW c \in Callers, WriteName(c) PROVE LockInv' /\ BufInv'
  <2>1. \A d \in Callers \ {c} : pc[d] = "idle"
    BY <1>3, <1>5 DEF WriteName
  <2>2. /\ Len(buf) = 1 /\ buf[1].sub = todo[c].sub
        /\ buf \in Seq(Commands) /\ buf[1] \in Commands /\ todo[c] \in Commands
    BY <1>5 DEF WriteName, BufInv, TypeOK
  <2>3. LockInv'
    BY <1>5, <2>1 DEF WriteName, LockInv, TypeOK
  <2>4. buf' = [buf EXCEPT ![1] = [buf[1] EXCEPT !.name = todo[c].name]]
    BY <1>5, <2>2 DEF WriteName
  <2>5. [buf[1] EXCEPT !.name = todo[c].name] = todo[c]
    BY <2>2 DEF Commands
  <2>6. Len(buf') = 1 /\ buf'[1] = todo[c]
    BY <2>2, <2>4, <2>5
  <2>7. pc'[c] = "flush" /\ \A d \in Callers \ {c} : pc'[d] = "idle"
    BY <1>5, <2>1 DEF WriteName, TypeOK
  <2>8. todo' = todo
    BY <1>5 DEF WriteName
  <2> QED
    BY <2>3, <2>6, <2>7, <2>8 DEF BufInv
<1>6. ASSUME NEW c \in Callers, Flush(c) \/ CallFails(c) PROVE LockInv' /\ BufInv'
  <2>1. \A d \in Callers \ {c} : pc[d] = "idle"
    BY <1>3, <1>6 DEF Flush, CallFails
  <2>2. \A d \in Callers : pc'[d] = "idle"
    BY <1>6, <2>1 DEF Flush, CallFails, TypeOK
  <2>3. link' = "up" => buf' = <<>>
    BY <1>6 DEF Flush, CallFails
  <2> QED
    BY <2>2, <2>3 DEF LockInv, BufInv
<1>7. ASSUME NEW m \in Pubs, Publish(m) PROVE LockInv' /\ BufInv'
  BY <1>1, <1>7 DEF Publish
<1>8. ASSUME Serve \/ Break \/ Close PROVE LockInv' /\ BufInv'
  BY <1>1, <1>8 DEF Serve, Break, Close
<1>9. ASSUME Loop PROVE LockInv' /\ BufInv'
  BY <1>1, <1>9 DEF Loop, ReceiveReply, ReceiveError, CloseEvents
<1>10. ASSUME NEW r \in Readers, Reader(r) PROVE LockInv' /\ BufInv'
  BY <1>1, <1>10 DEF Reader, CallEvents, Deliver, RangeEnds
<1>11. CASE UNCHANGED vars
  BY <1>1, <1>11 DEF vars
<1> QED
  BY <1>2, <1>4, <1>5, <1>6, <1>7, <1>8, <1>9, <1>10, <1>11 DEF Next, SubUnsub


-----------------------------------------------------------------------------
\* The commands on their way to Redis: whole, and the last one of a name is
\* what was asked for.
LEMMA CommandStep ==
  TypeOK /\ CommandInv /\ [Next]_vars => CommandsWhole' /\ SubscriptionInFlight'
<1> SUFFICES ASSUME TypeOK, CommandInv, [Next]_vars
             PROVE  CommandsWhole' /\ SubscriptionInFlight'
  OBVIOUS
<1> USE DEF callVars, redisVars, loopVars, readVars
<1>0. wire \in Seq(Commands) /\ DOMAIN wire = 1..Len(wire) /\ Len(wire) \in Nat
  BY DEF TypeOK
<1>1. ASSUME UNCHANGED <<wire, subs, asked>>, link' = link \/ link' # "up"
      PROVE  CommandsWhole' /\ SubscriptionInFlight'
  BY <1>1 DEF CommandInv, CommandsWhole, SubscriptionInFlight
<1>2. ASSUME NEW c \in Callers, Flush(c)
      PROVE  CommandsWhole' /\ SubscriptionInFlight'
  <2> DEFINE n == todo[c].name
             L == Len(wire)
  <2>1. n \in Subs /\ n # None
    BY <1>2, PubSubAssumption DEF Flush, CommandInv, LockInv
  <2>2. buf \in Seq(Commands) /\ Len(buf) = 1 /\ buf[1] = todo[c]
    BY <1>2 DEF Flush, CommandInv, BufInv, TypeOK
  <2>3. /\ DOMAIN wire' = 1..(L + 1)
        /\ \A i \in 1..L : wire'[i] = wire[i]
        /\ wire'[L + 1] = todo[c]
    <3>1. wire' = wire \o buf
      BY <1>2 DEF Flush
    <3>2. /\ DOMAIN buf = 1..Len(buf)
          /\ DOMAIN (wire \o buf) = 1..(Len(wire) + Len(buf))
          /\ \A i \in DOMAIN wire : (wire \o buf)[i] = wire[i]
          /\ \A i \in DOMAIN buf : (wire \o buf)[Len(wire) + i] = buf[i]
      BY <1>0, <2>2, Concatenated, SMTT(30)
    <3>3. 1 \in DOMAIN buf
      BY <2>2, <3>2
    <3> QED
      BY <1>0, <2>2, <3>1, <3>2, <3>3
  <2>4. CommandsWhole'
    BY <1>0, <2>1, <2>3 DEF CommandInv, CommandsWhole
  <2>5. /\ subs' = subs /\ link' = link /\ link = "up"
        /\ asked' = [asked EXCEPT ![n] = todo[c].sub]
    BY <1>2 DEF Flush
  <2>6. ASSUME NEW s \in Subs
        PROVE  \/ /\ \A i \in DOMAIN wire' : wire'[i].name # s
                  /\ asked'[s] <=> s \in subs'
               \/ \E i \in DOMAIN wire' :
                    /\ wire'[i].name = s
                    /\ wire'[i].sub = asked'[s]
                    /\ \A j \in DOMAIN wire' : j > i => wire'[j].name # s
    <3> HIDE DEF n, L
    <3>0. L \in Nat
      BY <1>0 DEF L
    <3>1. CASE s = n
      <4>1. wire'[L + 1].name = s /\ wire'[L + 1].sub = asked'[s]
        BY <2>1, <2>3, <2>5, <3>1 DEF n, TypeOK
      <4> QED
        BY <2>3, <3>0, <4>1
    <3>2. CASE s # n
      <4>1. asked'[s] = asked[s]
        BY <2>5, <3>2 DEF TypeOK
      <4>2. wire'[L + 1].name # s
        BY <2>3, <3>2 DEF n
      <4>3. CASE (\A i \in DOMAIN wire : wire[i].name # s) /\ (asked[s] <=> s \in subs)
        BY <1>0, <2>3, <2>5, <3>0, <4>1, <4>2, <4>3 DEF L
      <4>4. CASE \E i \in DOMAIN wire :
                    /\ wire[i].name = s
                    /\ wire[i].sub = asked[s]
                    /\ \A j \in DOMAIN wire : j > i => wire[j].name # s
        BY <1>0, <2>3, <3>0, <4>1, <4>2, <4>4 DEF L
      <4> QED
        BY <2>5, <4>3, <4>4 DEF CommandInv, SubscriptionInFlight
    <3> QED
      BY <3>1, <3>2
  <2> QED
    BY <2>4, <2>6 DEF SubscriptionInFlight
<1>3. ASSUME Serve
      PROVE  CommandsWhole' /\ SubscriptionInFlight'
  <2> DEFINE h == Head(wire)
             L == Len(wire)
  <2>1. /\ DOMAIN wire' = 1..(L - 1) /\ h = wire[1] /\ 1 \in DOMAIN wire
        /\ \A i \in 1..(L - 1) : i + 1 \in DOMAIN wire /\ wire'[i] = wire[i + 1]
    BY <1>0, <1>3, Tailed DEF Serve
  <2>2. CommandsWhole'
    BY <2>1 DEF CommandInv, CommandsWhole
  <2>3. /\ link = "up" /\ asked' = asked
        /\ subs' = IF h.sub THEN subs \cup {h.name} ELSE subs \ {h.name}
    BY <1>3 DEF Serve
  <2>4. ASSUME NEW s \in Subs
        PROVE  \/ /\ \A i \in DOMAIN wire' : wire'[i].name # s
                  /\ asked'[s] <=> s \in subs'
               \/ \E i \in DOMAIN wire' :
                    /\ wire'[i].name = s
                    /\ wire'[i].sub = asked'[s]
                    /\ \A j \in DOMAIN wire' : j > i => wire'[j].name # s
    <3> HIDE DEF h, L
    <3>0. L \in Nat /\ DOMAIN wire = 1..L
      BY <1>0 DEF L
    <3>1. CASE (\A i \in DOMAIN wire : wire[i].name # s) /\ (asked[s] <=> s \in subs)
      <4>1. h.name # s
        BY <2>1, <3>1
      <4> QED
        BY <2>1, <2>3, <3>1, <4>1
    <3>2. CASE \E i \in DOMAIN wire :
                  /\ wire[i].name = s
                  /\ wire[i].sub = asked[s]
                  /\ \A j \in DOMAIN wire : j > i => wire[j].name # s
      <4>1. PICK i \in DOMAIN wire :
              /\ wire[i].name = s
              /\ wire[i].sub = asked[s]
              /\ \A j \in DOMAIN wire : j > i => wire[j].name # s
        BY <3>2
      <4>2. CASE i = 1
        <5>1. \A j \in DOMAIN wire' : wire'[j].name # s
          BY <2>1, <3>0, <4>1, <4>2
        <5>2. asked'[s] <=> s \in subs'
          BY <2>1, <2>3, <4>1, <4>2 DEF TypeOK
        <5> QED
          BY <5>1, <5>2
      <4>3. CASE i # 1
        <5>1. i - 1 \in DOMAIN wire' /\ wire'[i - 1] = wire[i]
          BY <2>1, <3>0, <4>3
        <5>2. ASSUME NEW j \in DOMAIN wire', j > i - 1
              PROVE  wire'[j].name # s
          <6>1. /\ j + 1 \in DOMAIN wire /\ j + 1 > i
                /\ wire'[j] = wire[j + 1]
            BY <2>1, <3>0, <5>2
          <6> QED
            BY <4>1, <6>1
        <5> QED
          BY <2>3, <4>1, <5>1, <5>2
      <4> QED
        BY <4>2, <4>3
    <3> QED
      BY <2>3, <3>1, <3>2 DEF CommandInv, SubscriptionInFlight
  <2> QED
    BY <2>2, <2>4 DEF SubscriptionInFlight
<1>4. ASSUME NEW c \in Callers, SubUnsub(c), ~Flush(c)
      PROVE  CommandsWhole' /\ SubscriptionInFlight'
  BY <1>1, <1>4 DEF SubUnsub, Lock, WriteVerb, WriteName, CallFails
<1>5. ASSUME NEW m \in Pubs, Publish(m)
      PROVE  CommandsWhole' /\ SubscriptionInFlight'
  BY <1>1, <1>5 DEF Publish
<1>6. ASSUME Break \/ Close \/ Loop
      PROVE  CommandsWhole' /\ SubscriptionInFlight'
  BY <1>1, <1>6 DEF Break, Close, Loop, ReceiveReply, ReceiveError, CloseEvents
<1>7. ASSUME NEW r \in Readers, Reader(r)
      PROVE  CommandsWhole' /\ SubscriptionInFlight'
  BY <1>1, <1>7 DEF Reader, CallEvents, Deliver, RangeEnds
<1>8. CASE UNCHANGED vars
  BY <1>1, <1>8 DEF vars
<1> QED
  BY <1>2, <1>3, <1>4, <1>5, <1>6, <1>7, <1>8 DEF Next


-----------------------------------------------------------------------------
\* The order of events: the invariant is inductive.
LEMMA OrderStep ==
  TypeOK /\ TypeOK' /\ LoopInv /\ OrderInv /\ [Next]_vars => OrderInv'
<1> SUFFICES ASSUME TypeOK, TypeOK', LoopInv, OrderInv, [Next]_vars
             PROVE  OrderInv'
  OBVIOUS
<1> USE DEF callVars, redisVars, loopVars, readVars
<1>0. /\ out \in Seq(Replies) /\ DOMAIN out = 1..Len(out) /\ Len(out) \in Nat
      /\ published \in Nat
      /\ \A i \in DOMAIN out : out[i].msg \in Nat
      /\ held # <<>> => held[1].msg \in Nat
      /\ \A r \in Readers : \A k \in DOMAIN got[r] : got[r][k].msg \in Nat
  <2>1. out \in Seq(Replies) /\ published \in Nat /\ NPubs \in Nat
    BY PubSubAssumption DEF TypeOK
  <2>2. DOMAIN out = 1..Len(out) /\ Len(out) \in Nat
    BY <2>1
  <2>3. \A i \in DOMAIN out : out[i] \in Replies
    BY <2>1, <2>2
  <2>4. \A i \in DOMAIN out : out[i].msg \in Nat
    BY <2>1, <2>3 DEF Replies
  <2>5. \A e \in Events : e.msg \in Nat
    BY <2>1 DEF Events, Pubs
  <2>6. held # <<>> => held[1] \in Events
    BY DEF TypeOK
  <2>7. \A r \in Readers : \A k \in DOMAIN got[r] : got[r][k] \in Events
    BY DEF TypeOK
  <2> QED
    BY <2>1, <2>2, <2>4, <2>5, <2>6, <2>7
<1>1. ASSUME UNCHANGED <<out, held, got, published>>
      PROVE  OrderInv'
  BY <1>1 DEF OrderInv, OutInv, HeldInv, GotInv, EventsInOrder
<1>2. ASSUME Serve PROVE OrderInv'
  <2>1. UNCHANGED <<held, got, published>>
    BY <1>2 DEF Serve
  <2>2. Ack(Head(wire).name) \in Replies /\ Ack(Head(wire).name).ack
    <3>1. Head(wire) \in Commands /\ Head(wire).name # None
      BY <1>2, Tailed DEF Serve, TypeOK
    <3> QED
      BY <3>1, PubSubAssumption DEF Ack, Replies, Commands
  <2>3. /\ DOMAIN out' = 1..(Len(out) + 1)
        /\ \A i \in DOMAIN out : out'[i] = out[i]
        /\ out'[Len(out) + 1].ack
    <3>1. out' = Append(out, Ack(Head(wire).name))
      BY <1>2 DEF Serve
    <3>2. /\ DOMAIN out' = 1..(Len(out) + 1)
          /\ \A i \in DOMAIN out : out'[i] = out[i]
          /\ out'[Len(out) + 1] = Ack(Head(wire).name)
      BY <1>0, <2>2, <3>1, Appended, SMTT(30)
    <3> QED
      BY <2>2, <3>2
  <2>4. \A i \in DOMAIN out' : ~out'[i].ack => i \in DOMAIN out /\ out'[i] = out[i]
    BY <1>0, <2>3
  <2>5. OutInv'
    BY <2>1, <2>4 DEF OrderInv, OutInv
  <2>6. HeldInv' /\ GotInv' /\ EventsInOrder'
    BY <2>1, <2>4 DEF OrderInv, HeldInv, GotInv, EventsInOrder
  <2> QED
    BY <2>5, <2>6 DEF OrderInv
<1>3. ASSUME NEW m \in Pubs, Publish(m) PROVE OrderInv'
  <2>1. UNCHANGED <<held, got>> /\ published' = m /\ m = published + 1
    BY <1>3 DEF Publish
  <2>2. PICK t \in Seq(Replies) :
          out' = out \o t /\ \A i \in DOMAIN t : ~t[i].ack /\ t[i].msg = m
    BY <1>3, PublishAppends
  <2>3. /\ DOMAIN out' = 1..(Len(out) + Len(t)) /\ Len(t) \in Nat
        /\ \A i \in DOMAIN out : out'[i] = out[i]
        /\ \A i \in DOMAIN out' : i \notin DOMAIN out => out'[i].msg = m
    <3>1. /\ DOMAIN t = 1..Len(t)
          /\ DOMAIN out' = 1..(Len(out) + Len(t))
          /\ \A i \in DOMAIN out : out'[i] = out[i]
          /\ \A i \in DOMAIN out' : i \notin DOMAIN out =>
               i - Len(out) \in DOMAIN t /\ out'[i] = t[i - Len(out)]
      BY <1>0, <2>2, Concatenated, SMTT(30)
    <3>2. Len(t) \in Nat
      BY <2>2
    <3>3. \A i \in DOMAIN out' : i \notin DOMAIN out => out'[i].msg = m
      BY <2>2, <3>1
    <3> QED
      BY <3>1, <3>2, <3>3
  <2>4. \A i \in DOMAIN out' : i \in DOMAIN out \/ (i > Len(out) /\ out'[i].msg = m)
    BY <1>0, <2>3
  <2>5. OutInv'
    <3>1. \A i \in DOMAIN out' : ~out'[i].ack => out'[i].msg \in 1..m
      BY <1>0, <2>1, <2>3, <2>4 DEF OrderInv, OutInv
    <3>2. ASSUME NEW i \in DOMAIN out', NEW j \in DOMAIN out',
                 i <= j, ~out'[i].ack, ~out'[j].ack
          PROVE  out'[i].msg <= out'[j].msg
      <4>1. CASE j \in DOMAIN out
        <5>1. i \in DOMAIN out
          BY <1>0, <2>3, <3>2, <4>1
        <5> QED
          BY <2>3, <3>2, <4>1, <5>1 DEF OrderInv, OutInv
      <4>2. CASE j \notin DOMAIN out
        <5>1. out'[j].msg = m
          BY <2>4, <4>2
        <5> QED
          BY <3>1, <3>2, <5>1
      <4> QED
        BY <4>1, <4>2
    <3> QED
      BY <2>1, <3>1, <3>2 DEF OutInv
  <2>6. HeldInv'
    BY <1>0, <2>1, <2>3, <2>4 DEF OrderInv, HeldInv
  <2>7. GotInv'
    BY <1>0, <2>1, <2>3, <2>4 DEF OrderInv, GotInv
  <2>8. EventsInOrder'
    BY <2>1 DEF OrderInv, EventsInOrder
  <2> QED
    BY <2>5, <2>6, <2>7, <2>8 DEF OrderInv
<1>4. ASSUME ReceiveReply PROVE OrderInv'
  <2>1. /\ DOMAIN out' = 1..(Len(out) - 1) /\ Head(out) = out[1] /\ 1 \in DOMAIN out
        /\ \A i \in DOMAIN out' : i + 1 \in DOMAIN out /\ out'[i] = out[i + 1]
    BY <1>0, <1>4, Tailed DEF ReceiveReply
  <2>2. UNCHANGED <<got, published>> /\ held = <<>>
    BY <1>4 DEF ReceiveReply, LoopInv
  <2>3. OutInv'
    BY <1>0, <2>1, <2>2 DEF OrderInv, OutInv
  <2>4. EventsInOrder'
    BY <2>2 DEF OrderInv, EventsInOrder
  <2>5. CASE held' = held
    BY <2>1, <2>2, <2>3, <2>4, <2>5 DEF OrderInv, HeldInv, GotInv
  <2>6. CASE held' = <<EvntPayload(out[1])>> /\ ~out[1].ack
    <3>1. held'[1].msg = out[1].msg
      BY <2>6 DEF EvntPayload
    <3>2. HeldInv'
      <4>1. out[1].msg <= published
        BY <1>0, <2>1, <2>6 DEF OrderInv, OutInv
      <4>2. \A i \in DOMAIN out' : ~out'[i].ack => out[1].msg <= out'[i].msg
        BY <1>0, <2>1, <2>6 DEF OrderInv, OutInv
      <4> QED
        BY <2>2, <3>1, <4>1, <4>2 DEF HeldInv
    <3>3. GotInv'
      BY <2>1, <2>2, <2>6, <3>1 DEF OrderInv, GotInv
    <3> QED
      BY <2>3, <2>4, <3>2, <3>3 DEF OrderInv
  <2> QED
    BY <1>4, <2>1, <2>5, <2>6 DEF ReceiveReply
<1>5. ASSUME NEW r \in Readers, Deliver(r) PROVE OrderInv'
  <2>1. UNCHANGED <<out, published>> /\ held' = <<>> /\ held # <<>>
    BY <1>5 DEF Deliver, LoopInv
  <2>2. held[1] \in Events
    BY <2>1 DEF TypeOK
  <2>3. got' = [got EXCEPT ![r] = Append(got[r], held[1])]
    BY <1>5 DEF Deliver
  <2>4. /\ DOMAIN got'[r] = 1..(Len(got[r]) + 1) /\ DOMAIN got[r] = 1..Len(got[r])
        /\ Len(got[r]) \in Nat
        /\ \A i \in DOMAIN got[r] : got'[r][i] = got[r][i]
        /\ got'[r][Len(got[r]) + 1] = held[1]
    <3>1. got[r] \in Seq(Events)
      BY DEF TypeOK
    <3>2. got'[r] = Append(got[r], held[1])
      BY <2>3 DEF TypeOK
    <3>3. Len(got[r]) \in Nat
      BY <3>1
    <3> QED
      BY <2>2, <3>1, <3>2, <3>3, Appended, SMTT(30)
  <2>5. \A q \in Readers \ {r} : got'[q] = got[q]
    BY <2>3 DEF TypeOK
  <2>6. OutInv' /\ HeldInv'
    BY <2>1 DEF OrderInv, OutInv, HeldInv
  <2>7. GotInv'
    <3>1. ASSUME NEW q \in Readers, NEW k \in DOMAIN got'[q]
          PROVE  /\ got'[q][k].msg <= published
                 /\ \A i \in DOMAIN out : ~out[i].ack => got'[q][k].msg <= out[i].msg
      <4>1. CASE q # r \/ k \in DOMAIN got[r]
        BY <2>4, <2>5, <4>1 DEF OrderInv, GotInv
      <4>2. CASE q = r /\ k \notin DOMAIN got[r]
        <5>1. got'[q][k] = held[1]
          BY <2>4, <4>2
        <5> QED
          BY <2>1, <5>1 DEF OrderInv, HeldInv
      <4> QED
        BY <4>1, <4>2
    <3> QED
      BY <2>1, <3>1 DEF GotInv
  <2>8. EventsInOrder'
    <3>1. ASSUME NEW q \in Readers, NEW i \in DOMAIN got'[q], NEW j \in DOMAIN got'[q],
                 i <= j
          PROVE  got'[q][i].msg <= got'[q][j].msg
      <4>1. CASE q # r \/ j \in DOMAIN got[r]
        <5>1. CASE q # r
          BY <2>5, <3>1, <5>1 DEF OrderInv, EventsInOrder
        <5>2. CASE q = r /\ j \in DOMAIN got[r]
          <6>1. i \in DOMAIN got[r]
            BY <2>4, <3>1, <5>2
          <6> QED
            BY <2>4, <3>1, <5>2, <6>1 DEF OrderInv, EventsInOrder
        <5> QED
          BY <4>1, <5>1, <5>2
      <4>2. CASE q = r /\ j \notin DOMAIN got[r]
        <5>1. got'[q][j] = held[1]
          BY <2>4, <4>2
        <5>2. CASE i \in DOMAIN got[r]
          BY <2>1, <2>4, <4>2, <5>1, <5>2 DEF OrderInv, GotInv
        <5>3. CASE i \notin DOMAIN got[r]
          <6>1. got'[q][i] = held[1]
            BY <2>4, <4>2, <5>3
          <6> QED
            BY <1>0, <2>1, <5>1, <6>1, SMTT(40)
        <5> QED
          BY <5>2, <5>3
      <4> QED
        BY <4>1, <4>2
    <3> QED
      BY <3>1 DEF EventsInOrder
  <2> QED
    BY <2>6, <2>7, <2>8 DEF OrderInv
<1>6. ASSUME NEW c \in Callers, SubUnsub(c) PROVE OrderInv'
  BY <1>1, <1>6 DEF SubUnsub, Lock, WriteVerb, WriteName, Flush, CallFails
<1>7. ASSUME Break \/ Close \/ ReceiveError \/ CloseEvents PROVE OrderInv'
  BY <1>1, <1>7 DEF Break, Close, ReceiveError, CloseEvents
<1>8. ASSUME NEW r \in Readers, CallEvents(r) \/ RangeEnds(r) PROVE OrderInv'
  BY <1>1, <1>8 DEF CallEvents, RangeEnds
<1>9. CASE UNCHANGED vars
  BY <1>1, <1>9 DEF vars
<1> QED
  BY <1>2, <1>3, <1>4, <1>5, <1>6, <1>7, <1>8, <1>9 DEF Next, Loop, Reader


-----------------------------------------------------------------------------
Inv == TypeOK /\ LoopInv /\ CommandInv /\ OrderInv

\* The invariant holds at first.
LEMMA InvInit == Init => Inv
<1> SUFFICES ASSUME Init PROVE Inv
  OBVIOUS
<1>1. TypeOK
  BY PubSubAssumption DEF Init, TypeOK, Nothing, Commands, Errors
<1>2. LoopInv
  BY DEF Init, LoopInv
<1>3. LockInv /\ BufInv
  BY DEF Init, LockInv, BufInv
<1>4. CommandsWhole /\ SubscriptionInFlight
  <2>1. wire = <<>> /\ subs = {} /\ asked = [s \in Subs |-> FALSE]
    BY DEF Init
  <2>2. \A i \in DOMAIN wire : FALSE
    BY <2>1
  <2>3. \A s \in Subs : asked[s] <=> s \in subs
    BY <2>1
  <2> QED
    BY <2>2, <2>3 DEF CommandsWhole, SubscriptionInFlight
<1>5. OrderInv
  BY DEF Init, OrderInv, OutInv, HeldInv, GotInv, EventsInOrder
<1> QED
  BY <1>1, <1>2, <1>3, <1>4, <1>5 DEF Inv, CommandInv

\* Every step preserves it.
LEMMA InvStep == Inv /\ [Next]_vars => Inv'
<1> SUFFICES ASSUME Inv, [Next]_vars PROVE Inv'
  OBVIOUS
<1>1. TypeOK'
  BY TypeStep DEF Inv, CommandInv
<1>2. LoopInv'
  BY LoopStep DEF Inv
<1>3. CommandInv'
  BY LockStep, CommandStep DEF Inv, CommandInv
<1>4. OrderInv'
  BY <1>1, OrderStep DEF Inv
<1> QED
  BY <1>1, <1>2, <1>3, <1>4 DEF Inv

\* The inductive invariant holds of every behaviour of the connection.
THEOREM Invariance == Spec => []Inv
  BY InvInit, InvStep, PTL DEF Spec

\* The state of the pub-sub connection has its type.
THEOREM TypeSafety == Spec => []TypeOK
<1>1. Inv => TypeOK
  BY DEF Inv
<1> QED
  BY Invariance, <1>1, PTL

\* wmu keeps the commands that concurrent calls of Subscribe and Unsubscribe
\* write to Redis whole.
THEOREM WholeCommands == Spec => []CommandsWhole
<1>1. Inv => CommandsWhole
  BY DEF Inv, CommandInv
<1> QED
  BY Invariance, <1>1, PTL

\* The last Subscribe or Unsubscribe that returned for a name is on its way
\* to Redis or in effect.
THEOREM LastCommandCounts == Spec => []SubscriptionInFlight
<1>1. Inv => SubscriptionInFlight
  BY DEF Inv, CommandInv
<1> QED
  BY Invariance, <1>1, PTL

\* Every reader of Events receives events in the order of publication.
THEOREM OrderedEvents == Spec => []EventsInOrder
<1>1. Inv => EventsInOrder
  BY DEF Inv, OrderInv
<1> QED
  BY Invariance, <1>1, PTL

\* The channel of Events ends only with an error, and EventsErr gives every
\* reader that same error, also on a connection that is still up
\* (pubsub.go:97-104 and 127-133).
THEOREM ReasonedEnd == Spec => []EndHasReason
<1>1. Inv => EndHasReason
  BY DEF Inv, LoopInv, EndHasReason
<1> QED
  BY Invariance, <1>1, PTL

\* Once closed, the channel of Events is never opened or used again.
THEOREM ClosedStays == Spec => ClosedForGood
<1> DEFINE A == evch = "closed" =>
                  evch' = "closed" /\ err' = err /\ got' = got /\ loop' = "done"
<1>1. ASSUME Inv, [Next]_vars PROVE [A]_vars
  <2> SUFFICES ASSUME evch = "closed" PROVE A
    OBVIOUS
  <2> USE DEF callVars, redisVars, loopVars, readVars
  <2>1. loop = "done"
    BY <1>1 DEF Inv, LoopInv
  <2>2. ASSUME UNCHANGED <<loopVars, got>> PROVE A
    BY <2>1, <2>2
  <2>3. ASSUME NEW c \in Callers, SubUnsub(c) PROVE A
    BY <2>2, <2>3 DEF SubUnsub, Lock, WriteVerb, WriteName, Flush, CallFails
  <2>4. ASSUME NEW m \in Pubs, Publish(m) PROVE A
    BY <2>2, <2>4 DEF Publish
  <2>5. ASSUME Serve \/ Break \/ Close PROVE A
    BY <2>2, <2>5 DEF Serve, Break, Close
  <2>6. ~Loop
    BY <2>1 DEF Loop, ReceiveReply, ReceiveError, CloseEvents
  <2>7. ASSUME NEW r \in Readers, Reader(r) PROVE A
    BY <2>1, <2>2, <2>7 DEF Reader, CallEvents, Deliver, RangeEnds
  <2>8. CASE UNCHANGED vars
    BY <2>2, <2>8 DEF vars
  <2> QED
    BY <1>1, <2>3, <2>4, <2>5, <2>6, <2>7, <2>8 DEF Next
<1> QED
  BY Invariance, <1>1, PTL DEF Spec, ClosedForGood

=============================================================================
