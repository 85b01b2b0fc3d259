------------------------------- MODULE PubSub -------------------------------
(***************************************************************************)
(* The pub-sub connection of the Redis broker (redisbroker/pubsub.go) with *)
(* Broker.Publish, the goroutines that read its events (the pubSub loop of *)
(* a juggler connection) and the ones that subscribe and unsubscribe.      *)
(*                                                                         *)
(* Redis and the redigo connection are external: a command is buffered,    *)
(* then flushed to the wire, and Redis serves the wire in order; a         *)
(* published message is sent to the connection once for each of its        *)
(* subscriptions that matches the channel.  The connection may break,      *)
(* anyone may close it, and Redis may answer with an error, at any time.   *)
(***************************************************************************)
EXTENDS Integers, Sequences, FiniteSets

CONSTANTS
  Channels,  \* the names of channels
  Patterns,  \* the patterns of channel names
  Covers,    \* Covers[p] is the set of channels that pattern p matches
  NPubs,     \* how many messages are published
  Target,    \* Target[m] is the channel that m is published to
  Valid,     \* the messages that json.Unmarshal accepts
  Callers,   \* the goroutines that call Subscribe and Unsubscribe
  MaxCalls,  \* how many such calls are made
  Readers,   \* the goroutines that range over Events
  None

Subs == Channels \cup Patterns

\* The messages, in the order of their publication.
Pubs == 1..NPubs

ASSUME PubSubAssumption ==
  /\ Channels \cap Patterns = {}
  /\ Covers \in [Patterns -> SUBSET Channels]
  /\ NPubs \in Nat
  /\ Target \in [Pubs -> Channels]
  /\ Valid \subseteq Pubs
  /\ MaxCalls \in Nat
  /\ IsFiniteSet(Subs)
  /\ None \notin Subs \cup Callers

VARIABLES
  wmu,       \* the goroutine that holds wmu, None if it is free
  pc,        \* where each caller is
  todo,      \* the command of each caller
  calls,     \* how many calls were made
  buf,       \* the commands in the write buffer of the connection
  wire,      \* the commands that Redis has not served yet
  subs,      \* the subscriptions of the connection, as Redis sees them
  out,       \* what Redis has sent and Receive has not returned yet
  link,      \* the Redis connection
  evch,      \* the channel of events
  loop,      \* the goroutine that Events starts
  held,      \* the event it is about to send on evch
  err,       \* the field err
  rpc,       \* where each reader is
  got,       \* the events that each reader has received
  seen,      \* what EventsErr returned to each reader
  published, \* how many messages have been published
  asked      \* the last flushed command of each subscription: subscribe?

callVars == <<wmu, pc, todo, calls, buf>>
redisVars == <<wire, subs, out, link>>
loopVars == <<evch, loop, held, err>>
readVars == <<rpc, got, seen>>
vars == <<callVars, redisVars, loopVars, readVars, published, asked>>

Commands == [sub : BOOLEAN, name : Subs \cup {None}]
Replies == [ack : BOOLEAN, name : Subs, msg : 0..NPubs]
Events == [msg : Pubs, channel : Channels, pattern : Patterns \cup {None}]
Errors == {"nil", "broken", "closed", "reply"}

\* The state of the connection has its type.
TypeOK ==
  /\ wmu \in Callers \cup {None}
  /\ pc \in [Callers -> {"idle", "verb", "name", "flush"}]
  /\ todo \in [Callers -> Commands]
  /\ calls \in 0..MaxCalls
  /\ buf \in Seq(Commands) /\ wire \in Seq(Commands)
  /\ subs \subseteq Subs
  /\ out \in Seq(Replies)
  /\ link \in {"up", "broken", "closed"}
  /\ evch \in {"none", "open", "closed"}
  /\ loop \in {"off", "receive", "send", "failed", "done"}
  /\ held \in Seq(Events) /\ Len(held) <= 1
  /\ err \in Errors
  /\ rpc \in [Readers -> {"start", "range", "ended"}]
  /\ got \in [Readers -> Seq(Events)]
  /\ seen \in [Readers -> Errors]
  /\ published \in 0..NPubs
  /\ asked \in [Subs -> BOOLEAN]

Nothing == [sub |-> FALSE, name |-> None]

Init ==
  /\ wmu = None
  /\ pc = [c \in Callers |-> "idle"]
  /\ todo = [c \in Callers |-> Nothing]
  /\ calls = 0
  /\ buf = <<>> /\ wire = <<>> /\ subs = {} /\ out = <<>>
  /\ link = "up"
  /\ evch = "none" /\ loop = "off" /\ held = <<>> /\ err = "nil"
  /\ rpc = [r \in Readers |-> "start"]
  /\ got = [r \in Readers |-> <<>>]
  /\ seen = [r \in Readers |-> "nil"]
  /\ published = 0
  /\ asked = [s \in Subs |-> FALSE]

-----------------------------------------------------------------------------
(* Subscribe and Unsubscribe                                               *)

\* subUnsub chooses the command and takes the write lock.
Lock(c, s, sub) ==
  /\ pc[c] = "idle" /\ calls < MaxCalls
  /\ wmu = None
  /\ wmu' = c
  /\ calls' = calls + 1
  /\ todo' = [todo EXCEPT ![c] = [sub |-> sub, name |-> s]]
  /\ pc' = [pc EXCEPT ![c] = "verb"]
  /\ UNCHANGED <<buf, redisVars, loopVars, readVars, published, asked>>

\* redigo's Send writes the name of the command to its buffer, ...
WriteVerb(c) ==
  /\ pc[c] = "verb" /\ link = "up"
  /\ buf' = Append(buf, [sub |-> todo[c].sub, name |-> None])
  /\ pc' = [pc EXCEPT ![c] = "name"]
  /\ UNCHANGED <<wmu, todo, calls, redisVars, loopVars, readVars, published,
                 asked>>

\* ... then the argument, which belongs to the last command of the buffer.
WriteName(c) ==
  /\ pc[c] = "name" /\ link = "up"
  /\ buf' = [buf EXCEPT ![Len(buf)].name = todo[c].name]
  /\ pc' = [pc EXCEPT ![c] = "flush"]
  /\ UNCHANGED <<wmu, todo, calls, redisVars, loopVars, readVars, published,
                 asked>>

\* Mutant: the command stays in the buffer (Send without Flush).
FlushNothing(c) ==
  /\ pc[c] = "flush" /\ link = "up"
  /\ asked' = [asked EXCEPT ![todo[c].name] = todo[c].sub]
  /\ wmu' = None
  /\ pc' = [pc EXCEPT ![c] = "idle"]
  /\ todo' = [todo EXCEPT ![c] = Nothing]
  /\ UNCHANGED <<buf, wire, calls, subs, out, link, loopVars, readVars,
                 published>>

\* The command is flushed to Redis, the lock is released and the call
\* returns: nobody waits for the confirmation of Redis.
Flush(c) ==
  /\ pc[c] = "flush" /\ link = "up"
  /\ wire' = wire \o buf
  /\ buf' = <<>>
  /\ asked' = [asked EXCEPT ![todo[c].name] = todo[c].sub]
  /\ wmu' = None
  /\ pc' = [pc EXCEPT ![c] = "idle"]
  /\ todo' = [todo EXCEPT ![c] = Nothing]
  /\ UNCHANGED <<calls, subs, out, link, loopVars, readVars, published>>

\* The command fails on a connection that is down, and so does the call.
CallFails(c) ==
  /\ pc[c] # "idle" /\ link # "up"
  /\ wmu' = None
  /\ pc' = [pc EXCEPT ![c] = "idle"]
  /\ todo' = [todo EXCEPT ![c] = Nothing]
  /\ UNCHANGED <<calls, buf, redisVars, loopVars, readVars, published,
                 asked>>

-----------------------------------------------------------------------------
(* Redis                                                                   *)

Ack(s) == [ack |-> TRUE, name |-> s, msg |-> 0]
Message(m, s) == [ack |-> FALSE, name |-> s, msg |-> m]

\* Redis serves a command and confirms it.
Serve ==
  /\ link = "up" /\ wire # <<>>
  /\ Head(wire).name # None
  /\ wire' = Tail(wire)
  /\ subs' = IF Head(wire).sub THEN subs \cup {Head(wire).name}
                               ELSE subs \ {Head(wire).name}
  /\ out' = Append(out, Ack(Head(wire).name))
  /\ UNCHANGED <<callVars, link, loopVars, readVars, published, asked>>

Matching(m) ==
  {s \in subs : s = Target[m] \/ (s \in Patterns /\ Target[m] \in Covers[s])}

\* The orders in which Redis may go through a set of subscriptions.
Orders(S) ==
  {q \in [1..Cardinality(S) -> S] :
     \A i, j \in 1..Cardinality(S) : q[i] = q[j] => i = j}

\* Broker.Publish on a connection of the pool: Redis sends the message to
\* every subscription that matches its channel.
Publish(m) ==
  /\ m = published + 1
  /\ published' = m
  /\ \E q \in Orders(Matching(m)) :
       out' = IF link = "up"
              THEN out \o [i \in 1..Cardinality(Matching(m)) |->
                             Message(m, q[i])]
              ELSE out
  /\ UNCHANGED <<callVars, wire, subs, link, loopVars, readVars, asked>>

\* The Redis connection breaks.
Break ==
  /\ link = "up"
  /\ link' = "broken"
  /\ UNCHANGED <<callVars, wire, subs, out, loopVars, readVars, published,
                 asked>>

\* pubSubConn.Close, by any goroutine and under no lock.
Close ==
  /\ link # "closed"
  /\ link' = "closed"
  /\ UNCHANGED <<callVars, wire, subs, out, loopVars, readVars, published,
                 asked>>

-----------------------------------------------------------------------------
(* The goroutine of Events                                                 *)

\* newEvntPayload.
EvntPayload(v) ==
  [msg     |-> v.msg,
   channel |-> Target[v.msg],
   pattern |-> IF v.name \in Patterns THEN v.name ELSE None]

\* Mutant: a message that fails to unmarshal ends the loop like an error,
\* but leaves none.
ReceiveReplyReturns ==
  /\ loop = "receive" /\ out # <<>>
  /\ out' = Tail(out)
  /\ LET v == Head(out) IN
       \/ /\ v.ack
          /\ UNCHANGED <<loop, held>>
       \/ /\ ~v.ack /\ v.msg \notin Valid
          /\ loop' = "failed"
          /\ UNCHANGED held
       \/ /\ ~v.ack /\ v.msg \in Valid
          /\ held' = <<EvntPayload(v)>>
          /\ loop' = "send"
  /\ UNCHANGED <<callVars, wire, subs, link, evch, err, readVars, published,
                 asked>>

\* Mutant: messages wait on a stack.
ReceiveReplyNewest ==
  /\ loop = "receive" /\ out # <<>>
  /\ out' = SubSeq(out, 1, Len(out) - 1)
  /\ LET v == out[Len(out)] IN
       \/ /\ v.ack \/ v.msg \notin Valid
          /\ UNCHANGED <<loop, held>>
       \/ /\ ~v.ack /\ v.msg \in Valid
          /\ held' = <<EvntPayload(v)>>
          /\ loop' = "send"
  /\ UNCHANGED <<callVars, wire, subs, link, evch, err, readVars, published,
                 asked>>

\* Mutant: there is no case for redis.PMessage.
ReceiveReplyNoPattern ==
  /\ loop = "receive" /\ out # <<>>
  /\ out' = Tail(out)
  /\ LET v == Head(out) IN
       \/ /\ v.ack \/ v.msg \notin Valid \/ v.name \in Patterns
          /\ UNCHANGED <<loop, held>>
       \/ /\ ~v.ack /\ v.msg \in Valid /\ v.name \notin Patterns
          /\ held' = <<EvntPayload(v)>>
          /\ loop' = "send"
  /\ UNCHANGED <<callVars, wire, subs, link, evch, err, readVars, published,
                 asked>>

\* Receive returns what Redis has sent: a confirmation is ignored, a message
\* that fails to unmarshal is logged and skipped, another one is sent on
\* evch.  The redigo connection may return what it has read even after it
\* went down.
ReceiveReply ==
  /\ loop = "receive" /\ out # <<>>
  /\ out' = Tail(out)
  /\ LET v == Head(out) IN
       \/ /\ v.ack
          /\ UNCHANGED <<loop, held>>
       \/ /\ ~v.ack /\ v.msg \notin Valid
          /\ UNCHANGED <<loop, held>>
       \/ /\ ~v.ack /\ v.msg \in Valid
          /\ held' = <<EvntPayload(v)>>
          /\ loop' = "send"
  /\ UNCHANGED <<callVars, wire, subs, link, evch, err, readVars, published,
                 asked>>

\* What Receive returns for an error: that of a connection that is down, or,
\* on one that is up, an error that Redis replied or a reply that redigo does
\* not understand.
ReceivedError == IF link = "up" THEN "reply" ELSE link

\* Mutant: an error is taken for a reply to skip.
ReceiveErrorContinues ==
  /\ loop = "receive"
  /\ err' = ReceivedError
  /\ UNCHANGED <<callVars, redisVars, evch, loop, held, readVars, published,
                 asked>>

\* Receive returns an error, whatever its cause: it is stored and ends the
\* loop.
ReceiveError ==
  /\ loop = "receive"
  /\ err' = ReceivedError
  /\ loop' = "failed"
  /\ UNCHANGED <<callVars, redisVars, evch, held, readVars, published, asked>>

\* The deferred close(c.evch).
CloseEvents ==
  /\ loop = "failed"
  /\ evch' = "closed"
  /\ loop' = "done"
  /\ UNCHANGED <<callVars, redisVars, held, err, readVars, published, asked>>

-----------------------------------------------------------------------------
(* The readers                                                             *)

\* The first call of Events makes the channel and starts the goroutine, the
\* others return the same channel.
CallEvents(r) ==
  /\ rpc[r] = "start"
  /\ rpc' = [rpc EXCEPT ![r] = "range"]
  /\ \/ /\ evch = "none"
        /\ evch' = "open"
        /\ loop' = "receive"
     \/ /\ evch # "none"
        /\ UNCHANGED <<evch, loop>>
  /\ UNCHANGED <<callVars, redisVars, held, err, got, seen, published, asked>>

\* The goroutine and a reader meet on the unbuffered channel.
Deliver(r) ==
  /\ rpc[r] = "range" /\ loop = "send"
  /\ got' = [got EXCEPT ![r] = Append(@, held[1])]
  /\ held' = <<>>
  /\ loop' = "receive"
  /\ UNCHANGED <<callVars, redisVars, evch, err, rpc, seen, published, asked>>

\* The channel is closed: the reader asks for the error and closes the
\* connection.
RangeEnds(r) ==
  /\ rpc[r] = "range" /\ evch = "closed"
  /\ rpc' = [rpc EXCEPT ![r] = "ended"]
  /\ seen' = [seen EXCEPT ![r] = err]
  /\ link' = "closed"
  /\ UNCHANGED <<callVars, wire, subs, out, loopVars, got, published, asked>>

-----------------------------------------------------------------------------
SubUnsub(c) ==
  \/ \E s \in Subs, sub \in BOOLEAN : Lock(c, s, sub)
  \/ WriteVerb(c) \/ WriteName(c) \/ Flush(c) \/ CallFails(c)

Loop == ReceiveReply \/ ReceiveError \/ CloseEvents

Reader(r) == CallEvents(r) \/ Deliver(r) \/ RangeEnds(r)

Next ==
  \/ \E c \in Callers : SubUnsub(c)
  \/ Serve
  \/ \E m \in Pubs : Publish(m)
  \/ Break
  \/ Close
  \/ Loop
  \/ \E r \in Readers : Reader(r)

Spec == Init /\ [][Next]_vars

\* The goroutine of Events is runnable whenever Receive has something to
\* return, a message or the error of a connection that is down, and every
\* reader is started by ServeConn and goes on to range over the channel.
\* Nothing makes anyone subscribe, publish or close, nor Redis reply with an
\* error.
FairSpec ==
  /\ Spec
  /\ WF_vars(ReceiveReply \/ (link # "up" /\ ReceiveError) \/ CloseEvents)
  /\ \A r \in Readers : WF_vars(Reader(r))

-----------------------------------------------------------------------------
\* wmu keeps the commands of two goroutines apart: what is flushed to Redis
\* are whole commands, each with its own argument.
CommandsWhole ==
  \A i \in DOMAIN wire : wire[i].name # None

\* Subscribe and Unsubscribe return before Redis has confirmed anything, but
\* nothing is lost or reordered in between: as long as the connection is up,
\* the last command that was flushed for a channel or pattern is either
\* still on its way, behind all the others for that name, or in effect.
SubscriptionInFlight ==
  link = "up" => \A s \in Subs :
    \/ /\ \A i \in DOMAIN wire : wire[i].name # s
       /\ asked[s] <=> s \in subs
    \/ \E i \in DOMAIN wire :
         /\ wire[i].name = s
         /\ wire[i].sub = asked[s]
         /\ \A j \in DOMAIN wire : j > i => wire[j].name # s

\* A reader receives events in the order of their publication, however many
\* readers share the channel.
EventsInOrder ==
  \A r \in Readers : \A i, j \in DOMAIN got[r] :
    i <= j => got[r][i].msg <= got[r][j].msg

\* The channel is closed "when the connection is closed, or when an error is
\* received" (broker.go:106-107), and never without a reason: every reader
\* that has seen its end gets from EventsErr the one error that caused it,
\* although another reader may have closed the connection since.
EndHasReason ==
  /\ evch = "closed" => err # "nil"
  /\ \A r \in Readers : rpc[r] = "ended" => seen[r] = err /\ seen[r] # "nil"

\* A channel that is closed stays closed, with the error that was the cause:
\* nothing is received from it afterwards and Events does not start again.
ClosedForGood ==
  [][evch = "closed" =>
       /\ evch' = "closed" /\ err' = err /\ got' = got
       /\ loop' = "done"]_vars

\* An event that Redis has sent to the connection is received by a reader,
\* unless the connection goes down or Receive returns an error.
EventDelivered ==
  \A m \in Valid : \A s \in Subs :
    (\E i \in DOMAIN out : out[i] = Message(m, s))
      ~> \/ link # "up" \/ err # "nil"
         \/ \E r \in Readers : \E i \in DOMAIN got[r] :
              got[r][i] = EvntPayload(Message(m, s))

\* When the connection goes down, for whatever reason, or Receive returns an
\* error, the goroutine of Events ends and so do all its readers, also when
\* an event was about to be sent.
StreamEnds ==
  link # "up" \/ err # "nil" ~>
    loop = "done" /\ \A r \in Readers : rpc[r] = "ended"

=============================================================================
