----------------------------- MODULE RedisQueue -----------------------------
(***************************************************************************)
(* The queues of the Redis broker (juggler/broker/redisbroker): one Redis  *)
(* list per URI for calls, or per connection UUID for results, and one key *)
(* per message whose time to live is the time left to handle the message.  *)
(* Calls and results share this code: broker.go registers a message        *)
(* (registerCallOrRes and its Lua script), calls.go and results.go run the *)
(* same loop, which pops a message, reads and deletes its key and hands    *)
(* the message over on an unbuffered channel unless it has expired.        *)
(*                                                                         *)
(* Time is counted in ticks, Resolution of which make one millisecond, the *)
(* unit of the time to live in Redis.                                      *)
(***************************************************************************)
EXTENDS Integers, Sequences, Functions

CONSTANTS
  Lists,       \* the URIs, or the connection UUIDs
  Msgs,        \* message UUIDs
  Home,        \* Home[m]: the list of message m
  Producers,   \* the Broker values that register messages
  Cap,         \* Cap[p]: CallCap or ResultCap of p, no limit unless positive
  Consumers,   \* the callsConn or resultsConn values
  Keys,        \* Keys[c]: the lists c pops from, in the order of its BRPOP
  Timeouts,    \* timeouts given to Call or Result, in ticks
  Resolution,  \* ticks per millisecond
  DefaultMs,   \* broker.DefaultCallTimeout, in milliseconds
  MaxTime,     \* bound on the clock
  NoMsg        \* no message

ASSUME QueueAssumption ==
  /\ Home \in [Msgs -> Lists]
  /\ Cap \in [Producers -> Int]
  /\ Keys \in [Consumers -> Seq(Lists)]
  /\ Timeouts \subseteq Int
  /\ Resolution \in Nat \ {0}
  /\ DefaultMs \in Nat \ {0}
  /\ MaxTime \in Nat
  /\ NoMsg \notin Msgs

VARIABLES
  now,       \* the clock, in ticks
  list,      \* the Redis lists, newest message first
  expires,   \* Redis time at which the key of a message expires, 0: no key
  reg,       \* what Call or Result returned for each message
  link,      \* the Redis connection of each consumer
  pc,        \* the loop of each consumer
  held,      \* the message each consumer holds
  read,      \* TTLAfterRead of a message being sent, and when it was right
  chan,      \* the messages received from the channel of each consumer
  serial,    \* history: number of messages pushed
  pushed     \* history: rank, time and time to live of each pushed message

redisVars == <<list, expires>>
loopVars == <<link, pc, held, read, chan>>
historyVars == <<serial, pushed>>
vars == <<now, list, expires, reg, link, pc, held, read, chan, serial,
          pushed>>

\* A message received from a channel, as the receiver sees it.
Delivery == [msg : Msgs, at : Nat, ttl : Nat]

TypeOK ==
  /\ now \in 0..MaxTime
  /\ list \in [Lists -> Seq(Msgs)]
  /\ expires \in [Msgs -> Nat]
  /\ reg \in [Msgs -> {"new", "ok", "err"}]
  /\ link \in [Consumers -> {"up", "down"}]
  /\ pc \in [Consumers -> {"pop", "check", "send", "failed", "closed"}]
  /\ held \in [Consumers -> Msgs \cup {NoMsg}]
  /\ read \in [Consumers -> [at : Nat, ttl : Nat]]
  /\ chan \in [Consumers -> Seq(Delivery)]
  /\ serial \in Nat
  /\ pushed \in [Msgs -> [no : Nat, at : Nat, ms : Nat]]

Init ==
  /\ now = 0
  /\ list = [l \in Lists |-> <<>>]
  /\ expires = [m \in Msgs |-> 0]
  /\ reg = [m \in Msgs |-> "new"]
  /\ link = [c \in Consumers |-> "up"]
  /\ pc = [c \in Consumers |-> "pop"]
  /\ held = [c \in Consumers |-> NoMsg]
  /\ read = [c \in Consumers |-> [at |-> 0, ttl |-> 0]]
  /\ chan = [c \in Consumers |-> <<>>]
  /\ serial = 0
  /\ pushed = [m \in Msgs |-> [no |-> 0, at |-> 0, ms |-> 0]]

-----------------------------------------------------------------------------
(***************************************************************************)
(* Registration: Broker.Call and Broker.Result                             *)
(***************************************************************************)

\* The millisecond clock of Redis.
RedisMs == now \div Resolution

\* int(timeout / time.Millisecond): division of integers truncates toward 0.
Truncate(t) == IF t >= 0 THEN t \div Resolution ELSE -((-t) \div Resolution)

TimeoutMs(t) == IF Truncate(t) = 0 THEN DefaultMs ELSE Truncate(t)

\* Mutant: LTRIM 0 (limit - 1), which drops the oldest messages.
TrimOldest(s, limit) == SubSeq(s, 1, limit)

\* LTRIM s diff (limit + diff), where diff = Len(s) - limit.
Trim(s, limit) == SubSeq(s, Len(s) - limit + 1, Len(s))

Exceeds(p, s) == Len(s) > Cap[p] /\ Cap[p] > 0

\* Mutant: RPUSH instead of LPUSH.
ScriptRPush(p, m, t) ==
  LET l == Home[m]
      s == list[l] \o <<m>>
  IN  /\ TimeoutMs(t) > 0
      /\ expires' = [expires EXCEPT ![m] = RedisMs + TimeoutMs(t)]
      /\ list' = [list EXCEPT ![l] =
                    IF Exceeds(p, s) THEN Trim(s, Cap[p]) ELSE s]
      /\ serial' = serial + 1
      /\ pushed' = [pushed EXCEPT ![m] =
                      [no |-> serial + 1, at |-> now, ms |-> TimeoutMs(t)]]

\* The effect of callOrResScript: SET the key, LPUSH the message, and LTRIM
\* the list if it has become too long.
Script(p, m, t) ==
  LET l == Home[m]
      s == <<m>> \o list[l]
  IN  /\ TimeoutMs(t) > 0
      /\ expires' = [expires EXCEPT ![m] = RedisMs + TimeoutMs(t)]
      /\ list' = [list EXCEPT ![l] =
                    IF Exceeds(p, s) THEN Trim(s, Cap[p]) ELSE s]
      /\ serial' = serial + 1
      /\ pushed' = [pushed EXCEPT ![m] =
                      [no |-> serial + 1, at |-> now, ms |-> TimeoutMs(t)]]

\* The script answers with the length of the list or with an error.
Register(p, m, t) ==
  /\ reg[m] = "new"
  /\ Script(p, m, t)
  /\ reg' = [reg EXCEPT ![m] =
               IF Exceeds(p, <<m>> \o list[Home[m]]) THEN "err" ELSE "ok"]
  /\ UNCHANGED <<now, loopVars>>

\* The script ran but its answer was lost: the caller sees an error.
RegisterLost(p, m, t) ==
  /\ reg[m] = "new"
  /\ Script(p, m, t)
  /\ reg' = [reg EXCEPT ![m] = "err"]
  /\ UNCHANGED <<now, loopVars>>

\* The payload cannot be marshaled, no connection to Redis, or SET rejects a
\* time to live that is not positive, which aborts the script.
RegisterFail(m) ==
  /\ reg[m] = "new"
  /\ reg' = [reg EXCEPT ![m] = "err"]
  /\ UNCHANGED <<now, redisVars, loopVars, historyVars>>

-----------------------------------------------------------------------------
(***************************************************************************)
(* The loop started by the first call to Calls or Results                  *)
(***************************************************************************)

\* Mutant: only the first key is passed to BRPOP.
FirstKeyOnly(c, i) == i = 1 /\ list[Keys[c][1]] # <<>>

\* BRPOP takes the oldest message of the first list that is not empty.
FirstNonEmpty(c, i) ==
  /\ i \in DOMAIN Keys[c]
  /\ list[Keys[c][i]] # <<>>
  /\ \A j \in 1..(i - 1) : list[Keys[c][j]] = <<>>

Oldest(l) == list[l][Len(list[l])]

RemoveOldest(l) ==
  list' = [list EXCEPT ![l] = SubSeq(@, 1, Len(@) - 1)]

Pop(c) ==
  /\ pc[c] = "pop"
  /\ link[c] = "up"
  /\ \E i \in DOMAIN Keys[c] :
       /\ FirstNonEmpty(c, i)
       /\ held' = [held EXCEPT ![c] = Oldest(Keys[c][i])]
       /\ RemoveOldest(Keys[c][i])
  /\ pc' = [pc EXCEPT ![c] = "check"]
  /\ UNCHANGED <<now, expires, reg, link, read, chan, historyVars>>

\* Redis popped the message and the connection broke before the answer.
PopLost(c) ==
  /\ pc[c] = "pop"
  /\ link[c] = "up"
  /\ \E i \in DOMAIN Keys[c] :
       /\ FirstNonEmpty(c, i)
       /\ RemoveOldest(Keys[c][i])
  /\ link' = [link EXCEPT ![c] = "down"]
  /\ pc' = [pc EXCEPT ![c] = "failed"]
  /\ UNCHANGED <<now, expires, reg, held, read, chan, historyVars>>

\* Mutant: the loop goes on after every error, not only after a timeout.
PopFailContinue(c) ==
  /\ pc[c] = "pop"
  /\ UNCHANGED vars

\* BRPOP fails for another reason than its timeout: the error is recorded
\* and the loop ends.  (On a timeout the loop tries again.)
PopFail(c) ==
  /\ pc[c] = "pop"
  /\ pc' = [pc EXCEPT ![c] = "failed"]
  /\ UNCHANGED <<now, redisVars, reg, link, held, read, chan, historyVars>>

\* The deferred close of the channel.
CloseChan(c) ==
  /\ pc[c] = "failed"
  /\ pc' = [pc EXCEPT ![c] = "closed"]
  /\ UNCHANGED <<now, redisVars, reg, link, held, read, chan, historyVars>>

\* Mutant: GET instead of PTTL, the value of the key being the timeout.
GetTimeout(m) == IF expires[m] > RedisMs THEN pushed[m].ms ELSE 0

\* PTTL: what is left of the time to live, 0 standing for all the answers
\* that are not positive (expired, no key).
PTTL(m) == IF expires[m] > RedisMs THEN expires[m] - RedisMs ELSE 0

\* delAndPTTLScript, then the test that drops an expired message.
Check(c) ==
  /\ pc[c] = "check"
  /\ link[c] = "up"
  /\ expires' = [expires EXCEPT ![held[c]] = 0]
  /\ IF PTTL(held[c]) > 0
       THEN /\ pc' = [pc EXCEPT ![c] = "send"]
            /\ read' = [read EXCEPT ![c] =
                          [at |-> now, ttl |-> PTTL(held[c])]]
            /\ UNCHANGED held
       ELSE /\ pc' = [pc EXCEPT ![c] = "pop"]
            /\ held' = [held EXCEPT ![c] = NoMsg]
            /\ UNCHANGED read
  /\ UNCHANGED <<now, list, reg, link, chan, historyVars>>

\* The script fails, possibly after Redis ran it: the message is dropped and
\* the loop goes on.
CheckFail(c) ==
  /\ pc[c] = "check"
  /\ \/ UNCHANGED expires
     \/ link[c] = "up" /\ expires' = [expires EXCEPT ![held[c]] = 0]
  /\ \E s \in {link[c], "down"} : link' = [link EXCEPT ![c] = s]
  /\ pc' = [pc EXCEPT ![c] = "pop"]
  /\ held' = [held EXCEPT ![c] = NoMsg]
  /\ UNCHANGED <<now, list, reg, read, chan, historyVars>>

\* Mutant: the message is kept and sent again.
SendAgain(c) ==
  /\ pc[c] = "send"
  /\ chan' = [chan EXCEPT ![c] =
                Append(@, [msg |-> held[c], at |-> read[c].at,
                           ttl |-> read[c].ttl])]
  /\ Len(chan[c]) < 2
  /\ UNCHANGED <<now, redisVars, reg, link, pc, held, read, historyVars>>

\* Someone receives from the channel.
Send(c) ==
  /\ pc[c] = "send"
  /\ pc' = [pc EXCEPT ![c] = "pop"]
  /\ chan' = [chan EXCEPT ![c] =
                Append(@, [msg |-> held[c], at |-> read[c].at,
                           ttl |-> read[c].ttl])]
  /\ held' = [held EXCEPT ![c] = NoMsg]
  /\ read' = [read EXCEPT ![c] = [at |-> 0, ttl |-> 0]]
  /\ UNCHANGED <<now, redisVars, reg, link, historyVars>>

\* The owner closes the connection, or it breaks.
Break(c) ==
  /\ link[c] = "up"
  /\ link' = [link EXCEPT ![c] = "down"]
  /\ UNCHANGED <<now, redisVars, reg, pc, held, read, chan, historyVars>>

Tick ==
  /\ now < MaxTime
  /\ now' = now + 1
  /\ UNCHANGED <<redisVars, reg, loopVars, historyVars>>

-----------------------------------------------------------------------------
Loop(c) == Pop(c) \/ Check(c) \/ Send(c) \/ CloseChan(c)

Fault(c) == PopLost(c) \/ PopFail(c) \/ CheckFail(c) \/ Break(c)

Next ==
  \/ \E p \in Producers, m \in Msgs, t \in Timeouts :
       Register(p, m, t) \/ RegisterLost(p, m, t)
  \/ \E m \in Msgs : RegisterFail(m)
  \/ \E c \in Consumers : Loop(c) \/ Fault(c)
  \/ Tick

Spec == Init /\ [][Next]_vars

(***************************************************************************)
(* The loop goroutine runs, its receivers keep receiving (the loops over   *)
(* the channel in conn.go and callee.go never leave before it is closed),  *)
(* and an operation on a connection that is down fails.                    *)
(***************************************************************************)
Fairness ==
  \A c \in Consumers :
    /\ WF_vars(Loop(c))
    /\ WF_vars(link[c] = "down" /\ (PopFail(c) \/ CheckFail(c)))

FairSpec == Spec /\ Fairness

-----------------------------------------------------------------------------
(***************************************************************************)
(* Properties                                                              *)
(***************************************************************************)
InList(m) == m \in Range(list[Home[m]])

\* A list never holds more messages than the largest capacity of the brokers
\* that push to it, if they all have one (broker/redisbroker/broker.go:64-72).
CapRespected ==
  (\A p \in Producers : Cap[p] > 0) =>
    \A l \in Lists : list[l] # <<>> =>
      \E p \in Producers : Len(list[l]) <= Cap[p]

\* Registering a message never removes another one from the list, as long as
\* all brokers have the same capacity: a message leaves its list only because
\* a consumer pops it.  A message for which Call returned nil is therefore
\* not lost when a later Call finds the queue full.
OnlyPoppedLeave ==
  [][(\A p, q \in Producers : Cap[p] = Cap[q]) =>
       \A m \in Msgs : InList(m) /\ ~InList(m)' =>
         \E c \in Consumers : pc[c] = "pop" /\ pc'[c] # "pop"]_vars

\* No message is delivered twice, by one consumer or by two that share a list.
AtMostOnce ==
  \A c, d \in Consumers : \A i \in DOMAIN chan[c] : \A j \in DOMAIN chan[d] :
    chan[c][i].msg = chan[d][j].msg => c = d /\ i = j

\* A consumer delivers the messages of a list in the order they were pushed.
InOrder ==
  \A c \in Consumers : \A i, j \in DOMAIN chan[c] :
    /\ i < j
    /\ Home[chan[c][i].msg] = Home[chan[c][j].msg]
    => pushed[chan[c][i].msg].no < pushed[chan[c][j].msg].no

WithinTimeout(m, at, ttl) ==
  /\ ttl > 0
  /\ at + ttl * Resolution < pushed[m].at + (pushed[m].ms + 1) * Resolution

\* The time left that a receiver is told (TTLAfterRead) is positive and, from
\* the moment Redis computed it, ends less than a millisecond after the
\* timeout of the registration: waiting in the queue never extends it.
TTLWithinTimeout ==
  \A c \in Consumers : \A i \in DOMAIN chan[c] :
    WithinTimeout(chan[c][i].msg, chan[c][i].at, chan[c][i].ttl)

\* A consumer that runs pops every message that waits in a list of its, once
\* the lists before that one in its BRPOP stay empty: there is a moment when
\* the message is gone, the consumer has stopped, or an earlier list has a
\* message, and another one as long as the message waits.  For the first list
\* this is delivery without a condition.  Sustained load on an earlier URI
\* does starve the later ones (calls.go:57-75, BRPOP takes the keys in order).
EventuallyPopped ==
  \A m \in Msgs : \A c \in Consumers : \A i \in DOMAIN Keys[c] :
    InList(m) /\ Keys[c][i] = Home[m] ~>
      \/ ~InList(m)
      \/ pc[c] = "closed"
      \/ \E j \in 1..(i - 1) : list[Keys[c][j]] # <<>>

\* "The returned channel is closed when the connection is closed, or when an
\* error occurs" (broker/broker.go:54-55, 76-77).
ClosedWhenDown ==
  \A c \in Consumers : link[c] = "down" ~> pc[c] = "closed"

=============================================================================
