-------------------------------- MODULE Conn --------------------------------
(***************************************************************************)
(* A connection of the juggler server (juggler/conn.go, handler.go and     *)
(* server.go): ServeConn and the three goroutines it starts, which read    *)
(* requests (receive), call results (results) and events (pubSub), process *)
(* them with ProcessMsg and write to the one websocket connection under    *)
(* the write lock.  Any of them, or the application, may close the         *)
(* connection.                                                             *)
(*                                                                         *)
(* The broker, the websocket library and the client are the environment.   *)
(* A message is reduced to whether it is the ERR that replaces an oversized *)
(* one.                                                                    *)
(***************************************************************************)
EXTENDS Naturals, Sequences, FiniteSets

CONSTANTS
  App,           \* goroutines of the application that use the Conn
  MaxMsgs,       \* messages that each goroutine gets to handle
  LockTimeout,   \* whether Server.AcquireWriteLockTimeout is set
  WriteTimeout,  \* whether Server.WriteTimeout is set
  WriteLimit,    \* whether Server.WriteLimit is set
  Recover,       \* whether Server.Handler is wrapped by PanicRecover
  Upgraded       \* whether ServeConn is called by the handler of Upgrade

Streams == {"results", "pubSub"}
Loops == Streams \cup {"receive"}
Threads == Loops \cup App

ASSUME ConnAssumption ==
  /\ App \cap Loops = {}
  /\ MaxMsgs \in Nat
  /\ {LockTimeout, WriteTimeout, WriteLimit} \subseteq BOOLEAN
  /\ {Recover, Upgraded} \subseteq BOOLEAN

VARIABLES
  serve,     \* the progress of ServeConn
  states,    \* the calls of Server.ConnState
  broker,    \* the broker connections: resc and psc
  ready,     \* whether the broker has a message to hand over
  ws,        \* the websocket connection
  peer,      \* the client's end of it
  wsErr,     \* whether a write failed: the websocket library remembers it
  wmu,       \* number of values in the channel that is the write lock
  once,      \* closeOnce: "new", the steps of the function, "done"
  closeErr,  \* CloseErr: the goroutine and the reason of the first Close
  kill,      \* how many times the channel kill was closed
  pc,        \* what each goroutine does
  cur,       \* the message that each goroutine writes
  why,       \* the reason for which each goroutine calls Close
  left       \* messages left for each goroutine (bound)

connVars == <<once, closeErr, kill>>
netVars == <<ws, peer, wsErr>>
threadVars == <<pc, cur, why, left>>
vars == <<serve, states, broker, ready, ws, peer, wsErr, wmu,
          once, closeErr, kill, pc, cur, why, left>>

\* A message to write, and the ERR of code 599 that replaces one.
MsgTypes == {"msg", "notice"}
Reasons == {"stream", "read", "lock", "panic", "app"}

TypeOK ==
  /\ serve \in {"start", "results", "pubSub", "serving", "returned"}
  /\ states \in Seq({"Connected", "Closing"})
  /\ broker \in [Streams -> {"none", "open", "broken", "closed"}]
  /\ ready \in [Streams -> BOOLEAN]
  /\ ws \in {"open", "closed"}
  /\ peer \in {"up", "gone"}
  /\ wsErr \in BOOLEAN
  /\ wmu \in {0, 1}
  /\ once \in {"new", "psc", "resc", "kill", "done"}
  /\ closeErr \in {<<>>} \cup (Threads \X Reasons)
  /\ kill \in Nat
  /\ pc \in [Threads -> {"none", "next", "process", "send", "lock", "writer",
                         "write", "release", "close", "closing", "ended"}]
  /\ cur \in [Threads -> MsgTypes \cup {"none"}]
  /\ why \in [Threads -> Reasons \cup {"none"}]
  /\ left \in [Threads -> 0..MaxMsgs]

\* newConn, before ServeConn has asked for the broker connections.
Init ==
  /\ serve = "start"
  /\ states = <<>>
  /\ broker = [s \in Streams |-> "none"]
  /\ ready = [s \in Streams |-> FALSE]
  /\ ws = "open"
  /\ peer = "up"
  /\ wsErr = FALSE
  /\ wmu = 1
  /\ once = "new"
  /\ closeErr = <<>>
  /\ kill = 0
  /\ pc = [t \in Threads |-> "none"]
  /\ cur = [t \in Threads |-> "none"]
  /\ why = [t \in Threads |-> "none"]
  /\ left = [t \in Threads |-> MaxMsgs]

Go(t, from, to) ==
  /\ pc[t] = from
  /\ pc' = [pc EXCEPT ![t] = to]

\* Goroutine t calls Close for reason r.
CallClose(t, from, r) ==
  /\ Go(t, from, "close")
  /\ why' = [why EXCEPT ![t] = r]

-----------------------------------------------------------------------------
(***************************************************************************)
(* ServeConn, and the deferred close of the websocket in Upgrade           *)
(***************************************************************************)
serveRest == <<ready, netVars, wmu, connVars>>

\* CallerBroker.Results, then PubSubBroker.PubSub.
ServeOpen(s, from) ==
  /\ serve = from
  /\ serve' = s
  /\ broker' = [broker EXCEPT ![s] = "open"]
  /\ UNCHANGED <<states, threadVars, serveRest>>

\* One of them fails: ServeConn returns.
ServeFail ==
  /\ serve \in {"start", "results"}
  /\ serve' = "returned"
  /\ UNCHANGED <<states, broker, threadVars, serveRest>>

\* The callback for Connected, then the goroutines are started.
ServeStart ==
  /\ serve = "pubSub"
  /\ serve' = "serving"
  /\ states' = Append(states, "Connected")
  /\ pc' = [t \in Threads |-> "next"]
  /\ UNCHANGED <<broker, cur, why, left, serveRest>>

\* <-kill, then the deferred callback for Closing.
ServeReturn ==
  /\ serve = "serving"
  /\ kill > 0
  /\ serve' = "returned"
  /\ states' = Append(states, "Closing")
  /\ UNCHANGED <<broker, threadVars, serveRest>>

\* The owner of the websocket connection closes it: Upgrade always does.
CloseWS ==
  /\ serve = "returned"
  /\ ws = "open"
  /\ ws' = "closed"
  /\ UNCHANGED <<serve, states, broker, ready, peer, wsErr, wmu,
                 connVars, threadVars>>

-----------------------------------------------------------------------------
(***************************************************************************)
(* The loops results and pubSub                                            *)
(***************************************************************************)

\* The goroutine that Results or Events has started reads a message from the
\* broker and blocks until it is received.
BrokerRead(s) ==
  /\ pc[s] # "none"
  /\ broker[s] = "open"
  /\ ~ready[s]
  /\ left[s] > 0
  /\ ready' = [ready EXCEPT ![s] = TRUE]
  /\ left' = [left EXCEPT ![s] = @ - 1]
  /\ UNCHANGED <<serve, states, broker, netVars, wmu, connVars, pc, cur, why>>

BrokerBreak(s) ==
  /\ broker[s] = "open"
  /\ broker' = [broker EXCEPT ![s] = "broken"]
  /\ UNCHANGED <<serve, states, ready, netVars, wmu, connVars, threadVars>>

\* for res := range ch { c.Send(...) }
StreamMsg(s) ==
  /\ ready[s]
  /\ Go(s, "next", "send")
  /\ ready' = [ready EXCEPT ![s] = FALSE]
  /\ cur' = [cur EXCEPT ![s] = "msg"]
  /\ UNCHANGED <<serve, states, broker, netVars, wmu, connVars, why, left>>

\* Mutant: the goroutine returns without closing the connection.
StreamEndSilent(s) ==
  /\ broker[s] \in {"broken", "closed"}
  /\ ~ready[s]
  /\ Go(s, "next", "ended")
  /\ UNCHANGED <<serve, states, broker, ready, netVars, wmu, connVars, cur,
                 why, left>>

\* The channel is closed: the goroutine closes the connection.
StreamEnd(s) ==
  /\ broker[s] \in {"broken", "closed"}
  /\ ~ready[s]
  /\ CallClose(s, "next", "stream")
  /\ UNCHANGED <<serve, states, broker, ready, netVars, wmu, connVars, cur,
                 left>>

-----------------------------------------------------------------------------
(***************************************************************************)
(* The loop receive                                                        *)
(***************************************************************************)
Receive ==
  /\ ws = "open"
  /\ left["receive"] > 0
  /\ Go("receive", "next", "process")
  /\ left' = [left EXCEPT !["receive"] = @ - 1]
  /\ UNCHANGED <<serve, states, broker, ready, netVars, wmu, connVars, cur,
                 why>>

\* NextReader fails, the message is not a text message or not a request.
ReceiveFail ==
  /\ CallClose("receive", "next", "read")
  /\ UNCHANGED <<serve, states, broker, ready, netVars, wmu, connVars, cur,
                 left>>

\* ProcessMsg for a request: whether or not the broker accepts it, a response
\* (an OK or an ERR) is sent.
Process ==
  /\ Go("receive", "process", "send")
  /\ cur' = [cur EXCEPT !["receive"] = "msg"]
  /\ UNCHANGED <<serve, states, broker, ready, netVars, wmu, connVars, why,
                 left>>

\* A handler panics and PanicRecover closes the connection.
Panic(t) ==
  /\ Recover
  /\ \/ CallClose(t, "process", "panic")
     \/ CallClose(t, "send", "panic")
  /\ cur' = [cur EXCEPT ![t] = "none"]
  /\ UNCHANGED <<serve, states, broker, ready, netVars, wmu, connVars, left>>

-----------------------------------------------------------------------------
(***************************************************************************)
(* doWrite and writeMsg: json.Encoder calls Write once                     *)
(***************************************************************************)
writeRest == <<serve, states, broker, ready, ws, peer, connVars, left>>

\* The message exceeds the limit and an ERR of code 599 is sent instead.
Exceeded(t) ==
  /\ WriteLimit
  /\ pc[t] = "send"
  /\ cur[t] # "notice"
  /\ cur' = [cur EXCEPT ![t] = "notice"]
  /\ UNCHANGED <<writeRest, wsErr, wmu, pc, why>>

\* The ERR, which repeats the URI or channel of the request, exceeds it too.
ExceededAgain(t) ==
  /\ WriteLimit
  /\ cur[t] = "notice"
  /\ Go(t, "send", "next")
  /\ cur' = [cur EXCEPT ![t] = "none"]
  /\ UNCHANGED <<writeRest, wsErr, wmu, why>>

\* The first Write of the exclusiveWriter waits for the lock.
Write(t) ==
  /\ Go(t, "send", "lock")
  /\ UNCHANGED <<writeRest, wsErr, wmu, cur, why>>

\* Mutant: Write does not wait for the lock.
LockNoWait(t) ==
  /\ Go(t, "lock", "writer")
  /\ wmu' = 0
  /\ UNCHANGED <<writeRest, wsErr, cur, why>>

Lock(t) ==
  /\ wmu = 1
  /\ Go(t, "lock", "writer")
  /\ wmu' = 0
  /\ UNCHANGED <<writeRest, wsErr, cur, why>>

\* Mutant: the timeout is looked at only once the lock is free.
LockExpireLate(t) ==
  /\ LockTimeout
  /\ wmu = 1
  /\ CallClose(t, "lock", "lock")
  /\ cur' = [cur EXCEPT ![t] = "none"]
  /\ UNCHANGED <<writeRest, wsErr, wmu>>

\* ErrWriteLockTimeout: nothing is written and the connection is closed.
LockExpire(t) ==
  /\ LockTimeout
  /\ CallClose(t, "lock", "lock")
  /\ cur' = [cur EXCEPT ![t] = "none"]
  /\ UNCHANGED <<writeRest, wsErr, wmu>>

\* NextWriter fails after a failed write.
NextWriter(t) ==
  /\ Go(t, "writer", IF wsErr THEN "release" ELSE "write")
  /\ UNCHANGED <<writeRest, wsErr, wmu, cur, why>>

WriteOK(t) ==
  /\ ws = "open"
  /\ peer = "up"
  /\ Go(t, "write", "release")
  /\ UNCHANGED <<writeRest, wsErr, wmu, cur, why>>

\* The write deadline passes, or the connection is no longer there.
WriteFail(t) ==
  /\ WriteTimeout \/ ws = "closed" \/ peer = "gone"
  /\ Go(t, "write", "release")
  /\ wsErr' = TRUE
  /\ UNCHANGED <<writeRest, wmu, cur, why>>

\* exclusiveWriter.Close gives the lock back; other errors than the timeout
\* of the lock are only logged.
Release(t) ==
  /\ wmu = 0
  /\ Go(t, "release", "next")
  /\ wmu' = 1
  /\ cur' = [cur EXCEPT ![t] = "none"]
  /\ UNCHANGED <<writeRest, wsErr, why>>

-----------------------------------------------------------------------------
(***************************************************************************)
(* Conn.Close: sync.Once runs the function once, and makes the other       *)
(* callers wait until it is done                                           *)
(***************************************************************************)
closeRest == <<serve, states, ready, netVars, wmu, cur, left>>

CloseBegin(t) ==
  /\ once = "new"
  /\ Go(t, "close", "closing")
  /\ once' = "psc"
  /\ closeErr' = <<t, why[t]>>
  /\ UNCHANGED <<broker, kill, why, closeRest>>

\* Mutant: only psc is closed.
CloseBrokerOne(t, s, from, to) ==
  /\ pc[t] = "closing"
  /\ once = from
  /\ once' = to
  /\ broker' = [broker EXCEPT !["pubSub"] = "closed"]
  /\ UNCHANGED <<closeErr, kill, pc, why, closeRest>>

\* psc.Close and resc.Close.
CloseBroker(t, s, from, to) ==
  /\ pc[t] = "closing"
  /\ once = from
  /\ once' = to
  /\ broker' = [broker EXCEPT ![s] = "closed"]
  /\ UNCHANGED <<closeErr, kill, pc, why, closeRest>>

CloseKill(t) ==
  /\ once = "kill"
  /\ Go(t, "closing", "close")
  /\ once' = "done"
  /\ kill' = kill + 1
  /\ UNCHANGED <<broker, closeErr, why, closeRest>>

\* Close returns: the loop is over, or goes on with the next message.
AfterClose(t) ==
  IF why[t] \in {"stream", "read", "app"} THEN "ended" ELSE "next"

\* Mutant: the other callers return at once.
CloseReturnEarly(t) ==
  /\ once # "new"
  /\ Go(t, "close", AfterClose(t))
  /\ why' = [why EXCEPT ![t] = "none"]
  /\ UNCHANGED <<broker, connVars, closeRest>>

CloseReturn(t) ==
  /\ once = "done"
  /\ Go(t, "close", AfterClose(t))
  /\ why' = [why EXCEPT ![t] = "none"]
  /\ UNCHANGED <<broker, connVars, closeRest>>

-----------------------------------------------------------------------------
(***************************************************************************)
(* The application and the client                                          *)
(***************************************************************************)
AppSend(t) ==
  /\ left[t] > 0
  /\ Go(t, "next", "send")
  /\ left' = [left EXCEPT ![t] = @ - 1]
  /\ cur' = [cur EXCEPT ![t] = "msg"]
  /\ UNCHANGED <<serve, states, broker, ready, netVars, wmu, connVars, why>>

AppClose(t) ==
  /\ CallClose(t, "next", "app")
  /\ UNCHANGED <<serve, states, broker, ready, netVars, wmu, connVars, cur,
                 left>>

PeerGone ==
  /\ peer = "up"
  /\ peer' = "gone"
  /\ UNCHANGED <<serve, states, broker, ready, ws, wsErr, wmu,
                 connVars, threadVars>>

-----------------------------------------------------------------------------
ServeStep ==
  \/ ServeOpen("results", "start")
  \/ ServeOpen("pubSub", "results")
  \/ ServeStart
  \/ ServeReturn

Closing(t) ==
  \/ CloseBegin(t)
  \/ CloseBroker(t, "pubSub", "psc", "resc")
  \/ CloseBroker(t, "results", "resc", "kill")
  \/ CloseKill(t)
  \/ CloseReturn(t)

Writing(t) ==
  \/ Write(t) \/ Lock(t) \/ LockExpire(t)
  \/ NextWriter(t) \/ WriteFail(t) \/ Release(t)

Looping(t) ==
  \/ t \in Streams /\ (StreamMsg(t) \/ StreamEnd(t))
  \/ t = "receive" /\ Process
  \/ t = "receive" /\ (ws = "closed" \/ peer = "gone") /\ ReceiveFail

\* What a goroutine does by itself, and what depends on its environment.
Step(t) == Closing(t) \/ Writing(t) \/ Looping(t)

Env(t) ==
  \/ WriteOK(t) \/ Exceeded(t) \/ ExceededAgain(t) \/ Panic(t)
  \/ t \in Streams /\ (BrokerRead(t) \/ BrokerBreak(t))
  \/ t = "receive" /\ (Receive \/ ReceiveFail)
  \/ t \in App /\ (AppSend(t) \/ AppClose(t))

Next ==
  \/ ServeStep \/ ServeFail \/ CloseWS \/ PeerGone
  \/ \E t \in Threads : Step(t) \/ Env(t)

Spec == Init /\ [][Next]_vars

(***************************************************************************)
(* Goroutines are scheduled; a read from, or a write to, a connection that *)
(* is closed or gone returns; timeouts that are set expire; Upgrade closes *)
(* the websocket connection when ServeConn returns.                        *)
(***************************************************************************)
Fairness ==
  /\ WF_vars(ServeStep)
  /\ Upgraded => WF_vars(CloseWS)
  /\ \A t \in Threads : WF_vars(Step(t))

FairSpec == Spec /\ Fairness

-----------------------------------------------------------------------------
(***************************************************************************)
(* Properties                                                              *)
(***************************************************************************)

\* Only one goroutine at a time is between NextWriter and the Close of the
\* writer, so messages are not mixed; and giving the lock back never blocks.
OneWriter ==
  /\ \A t, u \in Threads :
       pc[t] \in {"writer", "write"} /\ pc[u] \in {"writer", "write"} => t = u
  /\ \A t \in Threads : pc[t] = "release" => wmu = 0

\* "only the first call will set the CloseErr field" (conn.go:106-107).
FirstCloseErr == [][closeErr # <<>> => closeErr' = closeErr]_vars

\* The kill channel is closed once, after CloseErr is set and both broker
\* connections are closed; and Close returns to no caller before that.
CloseComplete ==
  /\ kill <= 1
  /\ kill = 1 =>
       closeErr # <<>> /\ \A s \in Streams : broker[s] = "closed"
  /\ \A t \in Threads : pc[t] = "ended" => kill = 1

\* ConnState is called for Connected before any message is handled, and for
\* Closing once, when CloseErr may be read.
StatesInOrder ==
  /\ states \in {<<>>, <<"Connected">>, <<"Connected", "Closing">>}
  /\ (\E t \in Threads : pc[t] # "none") => states # <<>>
  /\ Len(states) = 2 => kill = 1

\* Once the connection is closed, the goroutines end and the websocket is
\* closed, even if the client does not read and no write timeout is set.
ClosedEnds ==
  kill = 1 ~> ws = "closed" /\ \A t \in Loops : pc[t] = "ended"

\* The loss of a broker connection closes the connection (conn.go:225-227
\* and 244-246), unless the loop is blocked for ever by a client that does
\* not read.
BrokerLossCloses ==
  \A s \in Streams :
    broker[s] = "broken" /\ pc[s] # "none" ~> kill = 1 \/ [](pc[s] = "write")

\* With AcquireWriteLockTimeout, no goroutine waits for the lock forever,
\* although the one that holds it may be blocked forever.
LockWaitEnds ==
  \A t \in Threads : pc[t] = "lock" ~> pc[t] # "lock"

\* "NextReader returns with an error once a connection is closed, so this
\* loop doesn't need to check the c.kill channel" (conn.go:260-261).
ReceiveEnds == kill = 1 ~> pc["receive"] = "ended"

=============================================================================
