------------------------------- MODULE Client -------------------------------
(***************************************************************************)
(* The juggler client (juggler/client/client.go): the goroutine that calls *)
(* Client.Call, the handleMessages read loop, one handleExpiredCall        *)
(* goroutine per call, and Client.Close.  They share the map of pending    *)
(* calls (Client.results, guarded by Client.mu), the stop channel and the  *)
(* websocket connection.  The server is modelled by what ProcessMsg and    *)
(* doWrite (juggler/handler.go) may send for a request: its replies and    *)
(* the results come from two goroutines, so they are in no fixed order.    *)
(*                                                                         *)
(* Timeouts are untimed: a timer may fire at any moment after it started.  *)
(***************************************************************************)
EXTENDS Naturals, Sequences

CONSTANTS
  Calls,    \* UUIDs of the CALL messages the application makes
  Others,   \* UUIDs of its SUB, UNSB and PUB messages
  MaxEvents \* bound on the events that the server sends

ASSUME RequestsAssumption == Calls \cap Others = {}

VARIABLES
  callPC,   \* progress of Client.Call for each call
  results,  \* the map Client.results: calls waiting for a RES or an EXP
  timer,    \* the handleExpiredCall goroutine of each call
  request,  \* Client.Sub, Unsb or Pub of each other request
  reader,   \* the handleMessages goroutine; stop is closed when it stops
  closer,   \* Client.Close
  conn,     \* the websocket connection
  inbox,    \* messages on their way from the server, oldest first
  reply,    \* what the server's receive goroutine owes for each request
  outcome,  \* what the server's results goroutine owes for each call
  events,   \* number of EVNT messages that the server has sent
  dispatched, \* number of goroutines started to call the Handler, by request
              \* and type of message
  handled   \* number of those in which the Handler has run

handlerVars == <<dispatched, handled>>
clientVars == <<callPC, results, timer, request, reader, closer, handlerVars>>
serverVars == <<reply, outcome, events>>
vars == <<callPC, results, timer, request, reader, closer, conn, inbox, reply,
          outcome, events, dispatched, handled>>

Requests == Calls \cup Others

\* The messages a Handler is invoked with.  ERR with ForType CALL is the
\* only ERR for a call, so the type of the origin is that of the request.
\* An EVNT is counted for the request that subscribed to it.
MsgTypes == {"OK", "ERR", "RES", "EVNT", "EXP"}

\* A response on the wire; BAD stands for one UnmarshalResponse rejects.
Responses == [type : {"OK", "ERR", "RES", "EVNT", "BAD"}, for : Requests]

Stopped == reader = "stopped"

TypeOK ==
  /\ callPC \in [Calls -> {"idle", "written", "added", "returned", "failed"}]
  /\ results \in SUBSET Calls
  /\ timer \in [Calls -> {"none", "waiting", "fired", "done"}]
  /\ request \in [Others -> {"idle", "returned", "failed"}]
  /\ reader \in {"reading", "stopped"}
  /\ closer \in {"idle", "waiting", "returned"}
  /\ conn \in {"open", "down"}
  /\ inbox \in Seq(Responses)
  /\ reply \in [Requests -> {"none", "owed", "OK", "ERR", "sent"}]
  /\ outcome \in [Calls -> {"none", "owed", "sent"}]
  /\ events \in Nat
  /\ dispatched \in [Requests -> [MsgTypes -> Nat]]
  /\ handled \in [Requests -> [MsgTypes -> Nat]]

\* NewClient starts the read loop on an open connection.
Init ==
  /\ callPC = [c \in Calls |-> "idle"]
  /\ results = {}
  /\ timer = [c \in Calls |-> "none"]
  /\ request = [o \in Others |-> "idle"]
  /\ reader = "reading"
  /\ closer = "idle"
  /\ conn = "open"
  /\ inbox = <<>>
  /\ reply = [r \in Requests |-> "none"]
  /\ outcome = [c \in Calls |-> "none"]
  /\ events = 0
  /\ dispatched = [r \in Requests |-> [t \in MsgTypes |-> 0]]
  /\ handled = [r \in Requests |-> [t \in MsgTypes |-> 0]]

\* go c.handler.Handle(...): the goroutine is started, and runs later.
Notify(r, t) == dispatched' = [dispatched EXCEPT ![r][t] = @ + 1]

\* deletePending, under Client.mu; it returns whether c was pending.
DeletePending(c) == results' = results \ {c}

-----------------------------------------------------------------------------
(***************************************************************************)
(* Client.Call: write, then addPending, then start the expiration timer.   *)
(***************************************************************************)

\* A write on a connection that is down may still be buffered and succeed;
\* the request then reaches nobody.
DeliverRequest(r) ==
  reply' = [reply EXCEPT ![r] = IF conn = "open" THEN "owed" ELSE @]

CallWrite(c) ==
  /\ callPC[c] = "idle"
  /\ callPC' = [callPC EXCEPT ![c] = "written"]
  /\ DeliverRequest(c)
  /\ UNCHANGED <<results, timer, request, reader, closer, conn, inbox,
                 outcome, events, handlerVars>>

\* NewCall cannot marshal the arguments, or WriteJSON fails.
CallFail(c) ==
  /\ callPC[c] = "idle"
  /\ callPC' = [callPC EXCEPT ![c] = "failed"]
  /\ UNCHANGED <<results, timer, request, reader, closer, conn, inbox,
                 serverVars, handlerVars>>

AddPending(c) ==
  /\ callPC[c] = "written"
  /\ callPC' = [callPC EXCEPT ![c] = "added"]
  /\ results' = results \cup {c}
  /\ UNCHANGED <<timer, request, reader, closer, conn, inbox, serverVars,
                 handlerVars>>

StartTimer(c) ==
  /\ callPC[c] = "added"
  /\ callPC' = [callPC EXCEPT ![c] = "returned"]
  /\ timer' = [timer EXCEPT ![c] = "waiting"]
  /\ UNCHANGED <<results, request, reader, closer, conn, inbox, serverVars,
                 handlerVars>>

-----------------------------------------------------------------------------
(***************************************************************************)
(* handleExpiredCall: a select on the stop channel and the timeout, then   *)
(* deletePending.  Both cases of the select may be ready; Go picks any.    *)
(***************************************************************************)
TimerStop(c) ==
  /\ timer[c] = "waiting"
  /\ Stopped
  /\ timer' = [timer EXCEPT ![c] = "done"]
  /\ UNCHANGED <<callPC, results, request, reader, closer, conn, inbox,
                 serverVars, handlerVars>>

TimerFire(c) ==
  /\ timer[c] = "waiting"
  /\ timer' = [timer EXCEPT ![c] = "fired"]
  /\ UNCHANGED <<callPC, results, request, reader, closer, conn, inbox,
                 serverVars, handlerVars>>

\* Mutant: the EXP is raised without asking deletePending.
TimerExpireAlways(c) ==
  /\ timer[c] = "fired"
  /\ timer' = [timer EXCEPT ![c] = "done"]
  /\ DeletePending(c)
  /\ Notify(c, "EXP")
  /\ UNCHANGED <<callPC, request, reader, closer, conn, inbox, serverVars,
                 handled>>

\* Mutant: the pending call is deleted and no EXP is raised.
TimerExpireSilent(c) ==
  /\ timer[c] = "fired"
  /\ timer' = [timer EXCEPT ![c] = "done"]
  /\ DeletePending(c)
  /\ UNCHANGED <<callPC, request, reader, closer, conn, inbox, serverVars,
                 handlerVars>>

TimerExpire(c) ==
  /\ timer[c] = "fired"
  /\ timer' = [timer EXCEPT ![c] = "done"]
  /\ DeletePending(c)
  /\ IF c \in results THEN Notify(c, "EXP") ELSE UNCHANGED dispatched
  /\ UNCHANGED <<callPC, request, reader, closer, conn, inbox, serverVars,
                 handled>>

-----------------------------------------------------------------------------
\* Client.Sub, Client.Unsb and Client.Pub only write their message.
Request(o) ==
  /\ request[o] = "idle"
  /\ \/ /\ request' = [request EXCEPT ![o] = "returned"]
        /\ DeliverRequest(o)
     \/ /\ request' = [request EXCEPT ![o] = "failed"]
        /\ UNCHANGED reply
  /\ UNCHANGED <<callPC, results, timer, reader, closer, conn, inbox,
                 outcome, events, handlerVars>>

-----------------------------------------------------------------------------
(***************************************************************************)
(* handleMessages: one iteration of the read loop per message.             *)
(***************************************************************************)
Receive(t) ==
  /\ reader = "reading"
  /\ inbox # <<>>
  /\ Head(inbox).type = t
  /\ inbox' = Tail(inbox)
  /\ UNCHANGED <<callPC, timer, request, reader, closer, conn, serverVars,
                 handled>>

\* A result for a call that is no longer, or not yet, pending is dropped.
ReceiveRes ==
  /\ Receive("RES")
  /\ LET c == Head(inbox).for IN
       /\ DeletePending(c)
       /\ IF c \in results THEN Notify(c, "RES") ELSE UNCHANGED dispatched

ReceiveErr ==
  /\ Receive("ERR")
  /\ LET r == Head(inbox).for IN
       /\ IF r \in Calls THEN DeletePending(r) ELSE UNCHANGED results
       /\ Notify(r, "ERR")

ReceiveOther(t) ==
  /\ Receive(t)
  /\ Notify(Head(inbox).for, t)
  /\ UNCHANGED results

ReceiveOK == ReceiveOther("OK")

ReceiveEvnt == ReceiveOther("EVNT")

SkipInvalid ==
  /\ Receive("BAD")
  /\ UNCHANGED <<results, dispatched>>

\* NextReader fails: the deferred function closes stop and calls wg.Done.
StopReading ==
  /\ reader = "reading"
  /\ reader' = "stopped"
  /\ UNCHANGED <<callPC, results, timer, request, closer, conn, inbox,
                 serverVars, handlerVars>>

-----------------------------------------------------------------------------
(***************************************************************************)
(* Client.Close: close the connection, then wait for the read loop.        *)
(***************************************************************************)
\* Mutant: Close waits for the read loop without closing the connection.
CloseWaitOnly ==
  /\ closer = "idle"
  /\ closer' = "waiting"
  /\ UNCHANGED <<callPC, results, timer, request, reader, conn, inbox,
                 serverVars, handlerVars>>

Close ==
  /\ closer = "idle"
  /\ closer' = "waiting"
  /\ conn' = "down"
  /\ UNCHANGED <<callPC, results, timer, request, reader, inbox, serverVars,
                 handlerVars>>

\* Mutant: Close returns without wg.Wait.
CloseReturnEarly ==
  /\ closer = "waiting"
  /\ closer' = "returned"
  /\ UNCHANGED <<callPC, results, timer, request, reader, conn, inbox,
                 serverVars, handlerVars>>

CloseReturn ==
  /\ closer = "waiting"
  /\ Stopped
  /\ closer' = "returned"
  /\ UNCHANGED <<callPC, results, timer, request, reader, conn, inbox,
                 serverVars, handlerVars>>

-----------------------------------------------------------------------------
\* A goroutine that Notify has started calls the Handler, which returns.
\* Nothing waits for these goroutines, Close neither.
Handle(r, t) ==
  /\ handled[r][t] < dispatched[r][t]
  /\ handled' = [handled EXCEPT ![r][t] = @ + 1]
  /\ UNCHANGED <<callPC, results, timer, request, reader, closer, conn, inbox,
                 serverVars, dispatched>>

-----------------------------------------------------------------------------
(***************************************************************************)
(* The server, as seen by the client.                                      *)
(***************************************************************************)

\* ProcessMsg on a CALL: CallerBroker.Call registers the call or fails.  It
\* may also fail after the call was registered, when the broker's answer is
\* lost.  Once registered, a result may come from the results goroutine,
\* before or after the reply.
ServerCall(c) ==
  /\ reply[c] = "owed"
  /\ \/ /\ reply' = [reply EXCEPT ![c] = "OK"]
        /\ outcome' = [outcome EXCEPT ![c] = "owed"]
     \/ /\ reply' = [reply EXCEPT ![c] = "ERR"]
        /\ \E o \in {"none", "owed"} : outcome' = [outcome EXCEPT ![c] = o]
  /\ UNCHANGED <<clientVars, conn, inbox, events>>

\* ProcessMsg on a SUB, UNSB or PUB.
ServerOther(o) ==
  /\ reply[o] = "owed"
  /\ \E t \in {"OK", "ERR"} : reply' = [reply EXCEPT ![o] = t]
  /\ UNCHANGED <<clientVars, conn, inbox, outcome, events>>

\* The OK or ERR for a request.  A server with a handler of its own may send
\* something this client cannot decode.
ServerReply(r) ==
  /\ reply[r] \in {"OK", "ERR"}
  /\ conn = "open"
  /\ reply' = [reply EXCEPT ![r] = "sent"]
  /\ \E t \in {reply[r], "BAD"} :
       inbox' = Append(inbox, [type |-> t, for |-> r])
  /\ UNCHANGED <<clientVars, conn, outcome, events>>

\* The results goroutine sends a RES, or the ERR that doWrite sends in its
\* place when the RES exceeds Server.WriteLimit.
ServerResult(c) ==
  /\ outcome[c] = "owed"
  /\ conn = "open"
  /\ outcome' = [outcome EXCEPT ![c] = "sent"]
  /\ \E t \in {"RES", "ERR"} :
       inbox' = Append(inbox, [type |-> t, for |-> c])
  /\ UNCHANGED <<clientVars, conn, reply, events>>

\* The pubSub goroutine sends an event for a subscription, possibly before
\* the OK for the SUB, or after the OK for an UNSB.
ServerEvent(o) ==
  /\ reply[o] # "none"
  /\ events < MaxEvents
  /\ conn = "open"
  /\ events' = events + 1
  /\ inbox' = Append(inbox, [type |-> "EVNT", for |-> o])
  /\ UNCHANGED <<clientVars, conn, reply, outcome>>

\* The server or the network drops the connection.
Disconnect ==
  /\ conn = "open"
  /\ conn' = "down"
  /\ UNCHANGED <<clientVars, inbox, serverVars>>

-----------------------------------------------------------------------------
CallStep(c) == CallWrite(c) \/ CallFail(c) \/ AddPending(c) \/ StartTimer(c)

TimerStep(c) == TimerStop(c) \/ TimerFire(c) \/ TimerExpire(c)

ReadStep ==
  ReceiveRes \/ ReceiveErr \/ ReceiveOK \/ ReceiveEvnt \/ SkipInvalid

Server ==
  \/ \E c \in Calls : ServerCall(c) \/ ServerResult(c)
  \/ \E o \in Others : ServerOther(o) \/ ServerEvent(o)
  \/ \E r \in Requests : ServerReply(r)
  \/ Disconnect

Next ==
  \/ \E c \in Calls : CallStep(c) \/ TimerStep(c)
  \/ \E o \in Others : Request(o)
  \/ ReadStep
  \/ StopReading
  \/ Close
  \/ CloseReturn
  \/ \E r \in Requests, t \in MsgTypes : Handle(r, t)
  \/ Server

Spec == Init /\ [][Next]_vars

(***************************************************************************)
(* The Go scheduler runs every goroutine that is not blocked: a started    *)
(* Call goes on, timers fire, the read loop takes what is in the inbox and *)
(* notices a connection that is down, and the goroutines that call the     *)
(* Handler run.  Nothing is assumed of the server.                         *)
(***************************************************************************)
Fairness ==
  /\ \A c \in Calls : /\ WF_vars(AddPending(c) \/ StartTimer(c))
                      /\ WF_vars(TimerStep(c))
  /\ WF_vars(ReadStep)
  /\ WF_vars(conn = "down" /\ StopReading)
  /\ WF_vars(CloseReturn)
  /\ \A r \in Requests, t \in MsgTypes : WF_vars(Handle(r, t))

FairSpec == Spec /\ Fairness

-----------------------------------------------------------------------------
(***************************************************************************)
(* Properties                                                              *)
(***************************************************************************)

\* A call never generates both a RES and an EXP, nor the same one twice,
\* whatever the order of the reader and of the timer (client.go:8-12): the
\* Handler is not even started for the second one.
NeverBoth ==
  \A c \in Calls : dispatched[c]["RES"] + dispatched[c]["EXP"] <= 1

\* Every entry of the results map will be removed: while the client is
\* running, the goroutine that expires the entry is there, or Call is about
\* to start it.
PendingHasTimer ==
  \A c \in results :
    callPC[c] = "added" \/ timer[c] \in {"waiting", "fired"} \/ Stopped

\* "Close closes the connection. No more messages will be received"
\* (client.go:122).  Once Close has returned nothing that the server sent is
\* taken for the Handler any more, an event as little as a reply: the Handler
\* may still run, as nothing waits for its goroutines, but only for what had
\* been read before Close returned.
NoDispatchAfterClose ==
  [][closer = "returned" =>
       \A r \in Requests : \A t \in MsgTypes \ {"EXP"} :
         /\ dispatched'[r][t] = dispatched[r][t]
         /\ handled'[r][t] <= dispatched[r][t]]_vars

\* A call that was sent is never forgotten: the Handler runs for its RES, an
\* EXP or an ERR, unless the read loop stopped.
CallIsSettled ==
  \A c \in Calls :
    callPC[c] = "returned" ~>
      \/ \E t \in {"RES", "EXP", "ERR"} : handled[c][t] > 0
      \/ Stopped

\* Close does not hang, and after it the goroutines of the client end: those
\* of the timers, and those that call the Handler.
CloseEnds ==
  closer = "waiting" ~>
    /\ closer = "returned"
    /\ \A c \in Calls : timer[c] \in {"none", "done"}
    /\ handled = dispatched

\* The package documentation (client.go:9-12): a call for which the server
\* returned OK generates a RES or an EXP, never none of them.
OKCallGetsResOrExp ==
  \A c \in Calls :
    handled[c]["OK"] > 0 ~>
      handled[c]["RES"] + handled[c]["EXP"] > 0 \/ Stopped

\* The comment on the ERR case of the read loop (client.go:96), "won't get
\* any result for this call (unless already expired)": a call that failed
\* generates neither a RES nor an EXP afterwards.
ErrIsFinal ==
  [][\A c \in Calls :
       dispatched[c]["ERR"] > 0 =>
         /\ dispatched'[c]["RES"] = dispatched[c]["RES"]
         /\ dispatched'[c]["EXP"] = dispatched[c]["EXP"]]_vars

=============================================================================
