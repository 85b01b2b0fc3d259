---------------------------- MODULE ClientProofs ----------------------------
(***************************************************************************)
(* Proofs about the juggler client, for any set of calls and of other      *)
(* requests and any behaviour of the server, and about juggler-load, which *)
(* runs it.                                                                *)
(***************************************************************************)
EXTENDS Load, FiniteSetTheorems, TLAPS

USE DEF handlerVars, clientVars, serverVars

\* The number of final messages (RES or EXP) of a call for the Handler.
Finals(c) == dispatched[c]["RES"] + dispatched[c]["EXP"]

\* Before AddPending, and while it is pending, a call has no final message.
\* The three conjuncts are the inductive strengthening of NeverBoth.
OutcomeInv ==
  \A c \in Calls :
    /\ callPC[c] \in {"idle", "written", "failed"} =>
         c \notin results /\ Finals(c) = 0
    /\ c \in results => Finals(c) = 0
    /\ Finals(c) <= 1

\* A timer goroutine exists from the moment Call returns, and ends only
\* after deletePending or after stop is closed.
TimerInv ==
  \A c \in Calls :
    /\ callPC[c] # "returned" => timer[c] = "none"
    /\ callPC[c] = "returned" => timer[c] # "none"
    /\ callPC[c] \in {"idle", "written", "failed"} => c \notin results
    /\ timer[c] = "done" => c \notin results \/ Stopped

-----------------------------------------------------------------------------
\* Starting a goroutine for message t of request r adds one to that counter
\* and touches no other.
LEMMA NotifyCounts ==
  ASSUME TypeOK, NEW r \in Requests, NEW t \in MsgTypes, Notify(r, t)
  PROVE  /\ dispatched' \in [Requests -> [MsgTypes -> Nat]]
         /\ dispatched'[r][t] = dispatched[r][t] + 1
         /\ \A s \in Requests : \A u \in MsgTypes :
              s # r \/ u # t => dispatched'[s][u] = dispatched[s][u]
  BY DEF Notify, TypeOK

\* The Handler runs once for message t of request r.
LEMMA HandleCounts ==
  ASSUME TypeOK, NEW r \in Requests, NEW t \in MsgTypes, Handle(r, t)
  PROVE  /\ handled' \in [Requests -> [MsgTypes -> Nat]]
         /\ handled'[r][t] = handled[r][t] + 1
         /\ \A s \in Requests : \A u \in MsgTypes :
              s # r \/ u # t => handled'[s][u] = handled[s][u]
  BY DEF Handle, TypeOK

\* The read loop takes a well-formed response for a known request.
LEMMA ReceiveTakes ==
  ASSUME TypeOK, NEW t, Receive(t)
  PROVE  /\ Head(inbox).for \in Requests
         /\ inbox' \in Seq(Responses)
<1>1. inbox \in Seq(Responses) /\ inbox # <<>>
  BY DEF Receive, TypeOK
<1>2. Head(inbox) \in Responses
  BY <1>1
<1>3. QED BY <1>1, <1>2 DEF Receive, Responses

\* Every variable of the client keeps its type in every reachable state
\* (client.go as a whole).
THEOREM TypeCorrect == Spec => []TypeOK
<1> USE DEF Requests, MsgTypes
<1>1. Init => TypeOK
  BY DEF Init, TypeOK
<1>2. TypeOK /\ [Next]_vars => TypeOK'
  <2> SUFFICES ASSUME TypeOK, [Next]_vars PROVE TypeOK'
    OBVIOUS
  <2>1. ASSUME NEW c \in Calls, CallStep(c) PROVE TypeOK'
    BY <2>1 DEF TypeOK, CallStep, CallWrite, CallFail, AddPending,
                StartTimer, DeliverRequest
  <2>2. ASSUME NEW c \in Calls, TimerStep(c) PROVE TypeOK'
    <3>1. CASE TimerStop(c) \/ TimerFire(c)
      BY <3>1 DEF TypeOK, TimerStop, TimerFire
    <3>2. CASE TimerExpire(c)
      <4>1. dispatched' \in [Requests -> [MsgTypes -> Nat]]
        BY <3>2, NotifyCounts DEF TimerExpire, TypeOK
      <4>2. QED BY <3>2, <4>1 DEF TypeOK, TimerExpire, DeletePending
    <3>3. QED BY <2>2, <3>1, <3>2 DEF TimerStep
  <2>3. ASSUME NEW o \in Others, Request(o) PROVE TypeOK'
    BY <2>3 DEF TypeOK, Request, DeliverRequest
  <2>4. CASE ReadStep
    <3>1. CASE ReceiveRes
      <4>1. Receive("RES")
        BY <3>1 DEF ReceiveRes
      <4>2. dispatched' \in [Requests -> [MsgTypes -> Nat]]
        BY <3>1, <4>1, ReceiveTakes, NotifyCounts DEF ReceiveRes, TypeOK
      <4>3. QED
        BY <3>1, <4>1, <4>2, ReceiveTakes
        DEF ReceiveRes, Receive, DeletePending, TypeOK
    <3>2. CASE ReceiveErr
      <4>1. Receive("ERR")
        BY <3>2 DEF ReceiveErr
      <4>2. dispatched' \in [Requests -> [MsgTypes -> Nat]]
        BY <3>2, <4>1, ReceiveTakes, NotifyCounts DEF ReceiveErr
      <4>3. QED
        BY <3>2, <4>1, <4>2, ReceiveTakes
        DEF ReceiveErr, Receive, DeletePending, TypeOK
    <3>3. CASE ReceiveOK
      <4>1. Receive("OK")
        BY <3>3 DEF ReceiveOK, ReceiveOther
      <4>2. dispatched' \in [Requests -> [MsgTypes -> Nat]]
        BY <3>3, <4>1, ReceiveTakes, NotifyCounts DEF ReceiveOK, ReceiveOther
      <4>3. QED
        BY <3>3, <4>1, <4>2, ReceiveTakes
        DEF ReceiveOK, ReceiveOther, Receive, TypeOK
    <3>4. CASE SkipInvalid
      BY <3>4, ReceiveTakes DEF SkipInvalid, Receive, TypeOK
    <3>5. CASE ReceiveEvnt
      <4>1. Receive("EVNT")
        BY <3>5 DEF ReceiveEvnt, ReceiveOther
      <4>2. dispatched' \in [Requests -> [MsgTypes -> Nat]]
        BY <3>5, <4>1, ReceiveTakes, NotifyCounts DEF ReceiveEvnt, ReceiveOther
      <4>3. QED
        BY <3>5, <4>1, <4>2, ReceiveTakes
        DEF ReceiveEvnt, ReceiveOther, Receive, TypeOK
    <3>6. QED BY <2>4, <3>1, <3>2, <3>3, <3>4, <3>5 DEF ReadStep
  <2>5. CASE StopReading \/ Close \/ CloseReturn
    BY <2>5 DEF TypeOK, StopReading, Close, CloseReturn
  <2>6. CASE Server
    <3> DEFINE ServerType ==
          /\ conn \in {"open", "down"}
          /\ inbox \in Seq(Responses)
          /\ reply \in [Requests -> {"none", "owed", "OK", "ERR", "sent"}]
          /\ outcome \in [Calls -> {"none", "owed", "sent"}]
          /\ events \in Nat
    <3>0. ASSUME UNCHANGED clientVars, ServerType' PROVE TypeOK'
      BY <3>0 DEF TypeOK
    <3>1. ASSUME NEW c \in Calls, ServerCall(c) PROVE TypeOK'
      <4>1. PICK o \in {"owed", "none"} :
              outcome' = [outcome EXCEPT ![c] = o]
        BY <3>1 DEF ServerCall
      <4>2. PICK t \in {"OK", "ERR"} : reply' = [reply EXCEPT ![c] = t]
        BY <3>1 DEF ServerCall
      <4>3. QED BY <3>1, <4>1, <4>2 DEF TypeOK, ServerCall
    <3>2. ASSUME NEW c \in Calls, ServerResult(c) PROVE TypeOK'
      <4>1. ServerType'
        BY <3>2 DEF TypeOK, ServerResult, Responses
      <4>2. QED BY <3>2, <3>0, <4>1 DEF ServerResult
    <3>3. ASSUME NEW o \in Others, ServerOther(o) PROVE TypeOK'
      <4>1. ServerType'
        BY <3>3 DEF TypeOK, ServerOther
      <4>2. QED BY <3>3, <3>0, <4>1 DEF ServerOther
    <3>4. ASSUME NEW r \in Requests, ServerReply(r) PROVE TypeOK'
      <4>1. ServerType'
        BY <3>4 DEF TypeOK, ServerReply, Responses
      <4>2. QED BY <3>4, <3>0, <4>1 DEF ServerReply
    <3>5. CASE Disconnect
      BY <3>5 DEF TypeOK, Disconnect
    <3>6. ASSUME NEW o \in Others, ServerEvent(o) PROVE TypeOK'
      <4>1. ServerType'
        BY <3>6 DEF TypeOK, ServerEvent, Responses
      <4>2. QED BY <3>6, <3>0, <4>1 DEF ServerEvent
    <3>7. QED BY <2>6, <3>1, <3>2, <3>3, <3>4, <3>5, <3>6 DEF Server
  <2>7. CASE UNCHANGED vars
    BY <2>7 DEF TypeOK, vars
  <2>8. ASSUME NEW r \in Requests, NEW t \in MsgTypes, Handle(r, t)
        PROVE  TypeOK'
    BY <2>8, HandleCounts DEF TypeOK, Handle
  <2>9. QED BY <2>1, <2>2, <2>3, <2>4, <2>5, <2>6, <2>7, <2>8 DEF Next
<1>3. QED BY <1>1, <1>2, PTL DEF Spec

-----------------------------------------------------------------------------
\* A Handler invocation adds one to the final messages of a call exactly when
\* it is a RES or an EXP for that call.
LEMMA NotifyFinals ==
  ASSUME TypeOK, NEW r \in Requests, NEW t \in MsgTypes, Notify(r, t),
         NEW c \in Calls
  PROVE  /\ Finals(c) \in Nat
         /\ r = c /\ t \in {"RES", "EXP"} => Finals(c)' = Finals(c) + 1
         /\ r # c \/ t \in {"OK", "ERR", "EVNT"} => Finals(c)' = Finals(c)
<1>1. c \in Requests /\ "RES" \in MsgTypes /\ "EXP" \in MsgTypes
  BY DEF Requests, MsgTypes
<1>2. dispatched[c]["RES"] \in Nat /\ dispatched[c]["EXP"] \in Nat
  BY <1>1 DEF TypeOK
<1>3. Finals(c)' = dispatched'[c]["RES"] + dispatched'[c]["EXP"]
  BY DEF Finals
<1>4. CASE r # c \/ t \in {"OK", "ERR", "EVNT"}
  <2>1. /\ dispatched'[c]["RES"] = dispatched[c]["RES"]
        /\ dispatched'[c]["EXP"] = dispatched[c]["EXP"]
    BY <1>1, <1>4, NotifyCounts
  <2>2. QED BY <1>2, <1>3, <1>4, <2>1 DEF Finals
<1>5. CASE r = c /\ t = "RES"
  <2>1. /\ dispatched'[c]["RES"] = dispatched[c]["RES"] + 1
        /\ dispatched'[c]["EXP"] = dispatched[c]["EXP"]
    BY <1>1, <1>5, NotifyCounts
  <2>2. QED BY <1>2, <1>3, <1>5, <2>1 DEF Finals
<1>6. CASE r = c /\ t = "EXP"
  <2>1. /\ dispatched'[c]["EXP"] = dispatched[c]["EXP"] + 1
        /\ dispatched'[c]["RES"] = dispatched[c]["RES"]
    BY <1>1, <1>6, NotifyCounts
  <2>2. QED BY <1>2, <1>3, <1>6, <2>1 DEF Finals
<1>7. QED BY <1>4, <1>5, <1>6 DEF MsgTypes

\* What a step of the client or of the server may do to the RES and EXP
\* counters of a call: nothing, or one more final message for a call that
\* was pending and no longer is.
LEMMA FinalStep ==
  ASSUME TypeOK, Next, NEW c \in Calls
  PROVE  \/ Finals(c)' = Finals(c)
         \/ Finals(c)' = Finals(c) + 1 /\ c \in results /\ c \notin results'
<1> DEFINE Goal ==
      \/ Finals(c)' = Finals(c)
      \/ Finals(c)' = Finals(c) + 1 /\ c \in results /\ c \notin results'
<1>1. \/ UNCHANGED dispatched
      \/ \E d \in Calls : TimerExpire(d)
      \/ ReadStep
  BY DEF Next, CallStep, CallWrite, CallFail, AddPending, StartTimer,
         TimerStep, TimerStop, TimerFire, Request, StopReading, Close,
         CloseReturn, Handle, Server, ServerCall, ServerResult, ServerOther,
         ServerEvent, ServerReply, Disconnect
<1>2. CASE UNCHANGED dispatched
  BY <1>2 DEF Finals
<1>3. ASSUME NEW d \in Calls, TimerExpire(d) PROVE Goal
  <2>1. CASE d \in results
    <3>1. Notify(d, "EXP") /\ DeletePending(d)
      BY <1>3, <2>1 DEF TimerExpire
    <3>2. QED BY <2>1, <3>1, NotifyFinals DEF DeletePending, Requests, MsgTypes
  <2>2. CASE d \notin results
    BY <1>3, <2>2 DEF TimerExpire, Finals
  <2>3. QED BY <2>1, <2>2
<1>4. CASE ReadStep
  <2> DEFINE r == Head(inbox).for
  <2>1. CASE ReceiveRes
    <3>1. r \in Requests
      BY <2>1, ReceiveTakes DEF ReceiveRes
    <3>2. CASE r \in results
      <4>1. Notify(r, "RES") /\ DeletePending(r)
        BY <2>1, <3>2 DEF ReceiveRes
      <4>2. QED BY <3>1, <3>2, <4>1, NotifyFinals DEF DeletePending, MsgTypes
    <3>3. CASE r \notin results
      BY <2>1, <3>3 DEF ReceiveRes, Finals
    <3>4. QED BY <3>2, <3>3
  <2>2. CASE ReceiveErr
    <3>1. r \in Requests /\ Notify(r, "ERR")
      BY <2>2, ReceiveTakes DEF ReceiveErr
    <3>2. QED BY <3>1, NotifyFinals DEF MsgTypes
  <2>3. CASE ReceiveOK
    <3>1. r \in Requests /\ Notify(r, "OK")
      BY <2>3, ReceiveTakes DEF ReceiveOK, ReceiveOther
    <3>2. QED BY <3>1, NotifyFinals DEF MsgTypes
  <2>4. CASE SkipInvalid
    BY <2>4 DEF SkipInvalid, Finals
  <2>5. CASE ReceiveEvnt
    <3>1. r \in Requests /\ Notify(r, "EVNT")
      BY <2>5, ReceiveTakes DEF ReceiveEvnt, ReceiveOther
    <3>2. QED BY <3>1, NotifyFinals DEF MsgTypes
  <2>6. QED BY <1>4, <2>1, <2>2, <2>3, <2>4, <2>5 DEF ReadStep
<1>5. QED BY <1>1, <1>2, <1>3, <1>4

\* Only AddPending adds a call to the results map, right after its write;
\* and callPC never goes back.
LEMMA PendingStep ==
  ASSUME TypeOK, Next, NEW c \in Calls
  PROVE  \/ /\ callPC[c] = "written"
            /\ callPC'[c] = "added"
            /\ Finals(c)' = Finals(c)
            /\ timer' = timer
         \/ /\ c \in results' => c \in results
            /\ callPC'[c] \in {"idle", "written", "failed"} =>
                 callPC[c] \in {"idle", "written", "failed"}
<1> USE DEF TypeOK
<1> DEFINE Goal ==
      \/ /\ callPC[c] = "written"
         /\ callPC'[c] = "added"
         /\ Finals(c)' = Finals(c)
         /\ timer' = timer
      \/ /\ c \in results' => c \in results
         /\ callPC'[c] \in {"idle", "written", "failed"} =>
              callPC[c] \in {"idle", "written", "failed"}
<1>1. ASSUME NEW d \in Calls, CallStep(d) PROVE Goal
  BY <1>1 DEF CallStep, CallWrite, CallFail, AddPending, StartTimer, Finals
<1>2. ASSUME NEW d \in Calls, TimerStep(d) PROVE Goal
  BY <1>2 DEF TimerStep, TimerStop, TimerFire, TimerExpire, DeletePending
<1>3. ASSUME NEW o \in Others, Request(o) PROVE Goal
  BY <1>3 DEF Request
<1>4. CASE ReadStep
  BY <1>4 DEF ReadStep, ReceiveRes, ReceiveErr, ReceiveOK, ReceiveEvnt,
              ReceiveOther, SkipInvalid, Receive, DeletePending
<1>5. CASE StopReading \/ Close \/ CloseReturn
  BY <1>5 DEF StopReading, Close, CloseReturn
<1>6. CASE Server
  BY <1>6 DEF Server, ServerCall, ServerResult, ServerOther, ServerEvent,
              ServerReply, Disconnect
<1>7. ASSUME NEW r \in Requests, NEW t \in MsgTypes, Handle(r, t) PROVE Goal
  BY <1>7 DEF Handle
<1>8. QED BY <1>1, <1>2, <1>3, <1>4, <1>5, <1>6, <1>7 DEF Next

\* A call generates at most one of RES and EXP, at most once, whatever the
\* interleaving of Call, the read loop and the timers, and even if the server
\* answers a call several times (client.go:86-99 and 168-202).
THEOREM ClientNeverBoth == Spec => []NeverBoth
<1>1. Init => OutcomeInv
  <2> SUFFICES ASSUME Init, NEW c \in Calls PROVE OutcomeInv!(c)
    BY DEF OutcomeInv
  <2>1. dispatched[c]["RES"] = 0 /\ dispatched[c]["EXP"] = 0
    BY DEF Init, Requests, MsgTypes
  <2>2. QED BY <2>1 DEF Init, Finals
<1>2. TypeOK /\ OutcomeInv /\ [Next]_vars => OutcomeInv'
  <2> SUFFICES ASSUME TypeOK, OutcomeInv, [Next]_vars, NEW c \in Calls
               PROVE OutcomeInv!(c)'
    BY DEF OutcomeInv
  <2>1. Finals(c) \in Nat
    BY DEF TypeOK, Finals, Requests, MsgTypes
  <2>2. CASE Next
    BY <2>1, <2>2, FinalStep, PendingStep DEF OutcomeInv
  <2>3. CASE UNCHANGED vars
    BY <2>3 DEF vars, OutcomeInv, Finals
  <2>4. QED BY <2>2, <2>3
<1>3. OutcomeInv => NeverBoth
  BY DEF OutcomeInv, NeverBoth, Finals
<1>4. QED BY <1>1, <1>2, <1>3, TypeCorrect, PTL DEF Spec

\* No entry of the results map is left without the goroutine that will remove
\* it, as long as the read loop runs (client.go:157-185).
THEOREM ClientPendingHasTimer == Spec => []PendingHasTimer
<1>1. Init => TimerInv
  BY DEF Init, TimerInv
<1>2. TypeOK /\ TimerInv /\ [Next]_vars => TimerInv'
  <2> SUFFICES ASSUME TypeOK, TimerInv, [Next]_vars, NEW c \in Calls
               PROVE TimerInv!(c)'
    BY DEF TimerInv
  <2> USE DEF TypeOK, TimerInv, Stopped
  <2>1. ASSUME NEW d \in Calls, CallStep(d) PROVE TimerInv!(c)'
    BY <2>1 DEF CallStep, CallWrite, CallFail, AddPending, StartTimer
  <2>2. ASSUME NEW d \in Calls, TimerStep(d) PROVE TimerInv!(c)'
    BY <2>2 DEF TimerStep, TimerStop, TimerFire, TimerExpire, DeletePending
  <2>3. ASSUME NEW o \in Others, Request(o) PROVE TimerInv!(c)'
    BY <2>3 DEF Request
  <2>4. CASE ReadStep
    <3>1. UNCHANGED <<callPC, timer, reader>> /\ results' \subseteq results
      BY <2>4 DEF ReadStep, ReceiveRes, ReceiveErr, ReceiveOK, ReceiveEvnt,
                  ReceiveOther, SkipInvalid, Receive, DeletePending
    <3>2. QED BY <3>1
  <2>5. CASE StopReading \/ Close \/ CloseReturn
    BY <2>5 DEF StopReading, Close, CloseReturn
  <2>6. CASE Server
    BY <2>6 DEF Server, ServerCall, ServerResult, ServerOther, ServerEvent,
                ServerReply, Disconnect
  <2>7. CASE UNCHANGED vars
    BY <2>7 DEF vars
  <2>8. ASSUME NEW r \in Requests, NEW t \in MsgTypes, Handle(r, t)
        PROVE  TimerInv!(c)'
    BY <2>8 DEF Handle
  <2>9. QED BY <2>1, <2>2, <2>3, <2>4, <2>5, <2>6, <2>7, <2>8 DEF Next
<1>3. TypeOK /\ TimerInv => PendingHasTimer
  BY DEF TypeOK, TimerInv, PendingHasTimer
<1>4. QED BY <1>1, <1>2, <1>3, TypeCorrect, PTL DEF Spec

-----------------------------------------------------------------------------
\* The Handler runs only in the goroutines that were started for it.
HandledInv ==
  \A r \in Requests : \A t \in MsgTypes : handled[r][t] <= dispatched[r][t]

\* A step runs the Handler once, or not at all.
LEMMA HandledStep ==
  [Next]_vars =>
    UNCHANGED handled \/ \E r \in Requests, t \in MsgTypes : Handle(r, t)
BY DEF Next, CallStep, CallWrite, CallFail, AddPending, StartTimer, TimerStep,
       TimerStop, TimerFire, TimerExpire, Request, ReadStep, ReceiveRes,
       ReceiveErr, ReceiveOK, ReceiveEvnt, ReceiveOther, SkipInvalid, Receive,
       StopReading, Close, CloseReturn, Server, ServerCall, ServerResult,
       ServerOther, ServerEvent, ServerReply, Disconnect, vars

\* No step takes back a goroutine that was started for the Handler.
LEMMA DispatchedGrows ==
  ASSUME TypeOK, [Next]_vars, NEW c \in Requests, NEW t \in MsgTypes
  PROVE  dispatched'[c][t] \in Nat /\ dispatched[c][t] <= dispatched'[c][t]
<1>1. /\ dispatched[c][t] \in Nat
      /\ {"RES", "ERR", "OK", "EVNT", "EXP"} \subseteq MsgTypes
  BY DEF TypeOK, Requests, MsgTypes
<1>2. ASSUME NEW r \in Requests, NEW u \in MsgTypes, Notify(r, u)
      PROVE  dispatched'[c][t] \in Nat /\ dispatched[c][t] <= dispatched'[c][t]
  <2>1. dispatched'[c][t] \in {dispatched[c][t], dispatched[c][t] + 1}
    BY <1>1, <1>2, NotifyCounts
  <2> QED
    BY <1>1, <2>1
<1>3. CASE ReadStep
  <2>1. PICK k \in {"RES", "ERR", "OK", "EVNT", "BAD"} : Receive(k)
    BY <1>3 DEF ReadStep, ReceiveRes, ReceiveErr, ReceiveOK, ReceiveEvnt,
                ReceiveOther, SkipInvalid
  <2>2. Head(inbox).for \in Requests
    BY <2>1, ReceiveTakes
  <2>3. \/ UNCHANGED dispatched
        \/ \E u \in MsgTypes : Notify(Head(inbox).for, u)
    BY <1>1, <1>3 DEF ReadStep, ReceiveRes, ReceiveErr, ReceiveOK, ReceiveEvnt,
                      ReceiveOther, SkipInvalid
  <2> QED
    BY <1>1, <1>2, <2>2, <2>3
<1>4. ASSUME NEW d \in Calls, TimerStep(d)
      PROVE  dispatched'[c][t] \in Nat /\ dispatched[c][t] <= dispatched'[c][t]
  <2>1. UNCHANGED dispatched \/ Notify(d, "EXP")
    BY <1>4 DEF TimerStep, TimerStop, TimerFire, TimerExpire
  <2> QED
    BY <1>1, <1>2, <2>1 DEF Requests
<1>5. ASSUME \/ \E d \in Calls : CallStep(d)
             \/ \E o \in Others : Request(o)
             \/ \E r \in Requests, u \in MsgTypes : Handle(r, u)
             \/ StopReading \/ Close \/ CloseReturn \/ Server \/ UNCHANGED vars
      PROVE  UNCHANGED dispatched
  BY <1>5 DEF CallStep, CallWrite, CallFail, AddPending, StartTimer, Request,
              Handle, StopReading, Close, CloseReturn, Server, ServerCall,
              ServerOther, ServerEvent, ServerReply, ServerResult, Disconnect,
              vars
<1>6. CASE UNCHANGED dispatched
  BY <1>1, <1>6
<1> QED
  BY <1>3, <1>4, <1>5, <1>6 DEF Next

\* The Handler does not run more often than the read loop and the timers
\* started it (client.go:101 and 183).
THEOREM ClientHandlesDispatched == Spec => []HandledInv
<1>1. Init => HandledInv
  BY DEF Init, HandledInv
<1>2. TypeOK /\ HandledInv /\ [Next]_vars => HandledInv'
  <2> SUFFICES ASSUME TypeOK, HandledInv, [Next]_vars,
                      NEW r \in Requests, NEW t \in MsgTypes
               PROVE  handled'[r][t] <= dispatched'[r][t]
    BY DEF HandledInv
  <2>1. /\ handled[r][t] \in Nat /\ dispatched[r][t] \in Nat
        /\ handled[r][t] <= dispatched[r][t]
    BY DEF TypeOK, HandledInv
  <2>2. dispatched'[r][t] \in Nat /\ dispatched[r][t] <= dispatched'[r][t]
    BY DispatchedGrows
  <2>3. CASE handled'[r][t] = handled[r][t]
    BY <2>1, <2>2, <2>3
  <2>4. ASSUME NEW s \in Requests, NEW u \in MsgTypes, Handle(s, u),
               handled'[r][t] # handled[r][t]
        PROVE  handled'[r][t] <= dispatched'[r][t]
    <3>1. s = r /\ u = t
      BY <2>4, HandleCounts
    <3>2. handled[r][t] < dispatched[r][t] /\ UNCHANGED dispatched
      BY <2>4, <3>1 DEF Handle
    <3>3. handled'[r][t] = handled[r][t] + 1
      BY <2>4, <3>1, HandleCounts
    <3> QED
      BY <2>1, <3>2, <3>3
  <2> QED
    BY <2>3, <2>4, HandledStep
<1> QED
  BY <1>1, <1>2, TypeCorrect, PTL DEF Spec

-----------------------------------------------------------------------------
\* Close returns only after the read loop has stopped.
ClosedInv == closer = "returned" => Stopped

\* Once Close has returned, nothing that the server sent is taken for the
\* Handler any more: it only runs for what had been read before
\* (client.go:122-127).
THEOREM ClientNoDispatchAfterClose == Spec => NoDispatchAfterClose
<1> DEFINE Quiet ==
      closer = "returned" =>
        \A r \in Requests : \A t \in MsgTypes \ {"EXP"} :
          /\ dispatched'[r][t] = dispatched[r][t]
          /\ handled'[r][t] <= dispatched[r][t]
<1>1. Init => ClosedInv
  BY DEF Init, ClosedInv
<1>2. ClosedInv /\ [Next]_vars => ClosedInv'
  BY DEF ClosedInv, Stopped, Next, CallStep, CallWrite, CallFail, AddPending,
         StartTimer, TimerStep, TimerStop, TimerFire, TimerExpire, Request,
         ReadStep, ReceiveRes, ReceiveErr, ReceiveOK, ReceiveEvnt,
         ReceiveOther, SkipInvalid, Receive, StopReading, Close, CloseReturn,
         Handle, Server, ServerCall, ServerResult, ServerOther, ServerEvent,
         ServerReply, Disconnect, vars
<1>3. TypeOK /\ ClosedInv /\ HandledInv' /\ [Next]_vars => [Quiet]_vars
  <2> SUFFICES ASSUME TypeOK, ClosedInv, HandledInv', Next,
                      closer = "returned",
                      NEW r \in Requests, NEW t \in MsgTypes \ {"EXP"}
               PROVE  /\ dispatched'[r][t] = dispatched[r][t]
                      /\ handled'[r][t] <= dispatched[r][t]
    OBVIOUS
  <2>1. reader # "reading"
    BY DEF ClosedInv, Stopped
  <2>2. UNCHANGED dispatched \/ \E d \in Calls : TimerExpire(d)
    BY <2>1 DEF Next, CallStep, CallWrite, CallFail, AddPending, StartTimer,
         TimerStep, TimerStop, TimerFire, Request, ReadStep, ReceiveRes,
         ReceiveErr, ReceiveOK, ReceiveEvnt, ReceiveOther, SkipInvalid,
         Receive, StopReading, Close, CloseReturn, Handle, Server, ServerCall,
         ServerResult, ServerOther, ServerEvent, ServerReply, Disconnect
  <2>3. ASSUME NEW d \in Calls, TimerExpire(d)
        PROVE  dispatched'[r][t] = dispatched[r][t]
    <3>1. UNCHANGED dispatched \/ Notify(d, "EXP")
      BY <2>3 DEF TimerExpire
    <3>2. QED BY <3>1, NotifyCounts DEF Requests, MsgTypes
  <2>4. dispatched'[r][t] = dispatched[r][t]
    BY <2>2, <2>3
  <2>5. handled'[r][t] <= dispatched'[r][t]
    BY DEF HandledInv
  <2>6. QED BY <2>4, <2>5
<1>4. QED
  BY <1>1, <1>2, <1>3, TypeCorrect, ClientHandlesDispatched, PTL
  DEF Spec, NoDispatchAfterClose

-----------------------------------------------------------------------------
(* juggler-load: the WaitGroup counts the calls that were not answered yet *)

\* Nothing is known of a call before it is made: no reply is owed or on its
\* way, no timer runs and the Handler was not invoked.
Unused(c) ==
  /\ reply[c] = "none" /\ outcome[c] = "none" /\ timer[c] = "none"
  /\ \A i \in DOMAIN inbox : inbox[i].for # c
  /\ \A t \in MsgTypes : dispatched[c][t] = 0

IdleUnused == \A c \in Calls : callPC[c] = "idle" => Unused(c)

\* What juggler-load does is something that the client allows.
LEMMA ClientStep == [LoadNext]_allVars => [Next]_vars
<1> SUFFICES ASSUME [LoadNext]_allVars
             PROVE  Next \/ UNCHANGED vars
  OBVIOUS
<1>1. ASSUME NEW c \in Calls, LoadCall(c) \/ LoadCallFails(c)
      PROVE  Next
  BY <1>1 DEF LoadCall, LoadCallFails, Next, CallStep
<1>2. CASE LoadStop \/ LoadClose \/ LoadEnd
  BY <1>2 DEF LoadStop, LoadClose, LoadEnd, Next
<1>3. ASSUME NEW c \in Calls, NEW t \in AnswerTypes, LoadHandle(c, t)
      PROVE  Next
  BY <1>3 DEF LoadHandle, AnswerTypes, Next, Requests
<1>4. CASE ClientGoroutines
  BY <1>4 DEF ClientGoroutines, Next, CallStep
<1>5. CASE UNCHANGED allVars
  BY <1>5 DEF allVars
<1> QED
  BY <1>1, <1>2, <1>3, <1>4, <1>5 DEF LoadNext, RunClient

\* The client inside juggler-load is the client of the module Client: all
\* that is proved of the one holds of the other.
THEOREM LoadUsesClient == LoadSpec => Spec
<1>1. LoadInit => Init
  BY DEF LoadInit
<1> QED
  BY <1>1, ClientStep, PTL DEF LoadSpec, Spec

-----------------------------------------------------------------------------
(* Calls that were not made *)

\* Taking a message from the inbox brings in nothing for a call.
LEMMA InboxTail ==
  ASSUME TypeOK, NEW t, Receive(t), NEW c,
         \A i \in DOMAIN inbox : inbox[i].for # c
  PROVE  /\ Head(inbox).for # c
         /\ \A i \in DOMAIN inbox' : inbox'[i].for # c
<1>1. inbox \in Seq(Responses) /\ inbox # <<>> /\ inbox' = Tail(inbox)
  BY DEF Receive, TypeOK
<1>2. 1 \in DOMAIN inbox /\ Head(inbox) = inbox[1]
  BY <1>1
<1>3. \A i \in DOMAIN Tail(inbox) : i + 1 \in DOMAIN inbox /\ Tail(inbox)[i] = inbox[i + 1]
  BY <1>1
<1> QED
  BY <1>1, <1>2, <1>3

\* Putting a message into the inbox brings in nothing for another request.
LEMMA InboxAppend ==
  ASSUME TypeOK, NEW m \in Responses, inbox' = Append(inbox, m),
         NEW c, m.for # c, \A i \in DOMAIN inbox : inbox[i].for # c
  PROVE  \A i \in DOMAIN inbox' : inbox'[i].for # c
<1>1. inbox \in Seq(Responses)
  BY DEF TypeOK
<1>2. /\ DOMAIN inbox = 1..Len(inbox)
      /\ DOMAIN inbox' = 1..(Len(inbox) + 1)
      /\ inbox'[Len(inbox) + 1] = m
      /\ \A i \in 1..Len(inbox) : inbox'[i] = inbox[i]
  BY <1>1
<1> QED
  BY <1>1, <1>2

\* A step leaves a call alone that is not made.
LEMMA IdleStep ==
  TypeOK /\ IdleUnused /\ [Next]_vars => IdleUnused'
<1> SUFFICES ASSUME TypeOK, IdleUnused, [Next]_vars, NEW c \in Calls,
                    callPC'[c] = "idle"
             PROVE  Unused(c)'
  BY DEF IdleUnused
<1> USE DEF Requests
<1>1. c \in Requests /\ callPC[c] = "idle" => Unused(c)
  BY DEF IdleUnused
<1>2. ASSUME NEW d \in Calls, CallStep(d)
      PROVE  Unused(c)'
  <2>1. callPC[c] = "idle" /\ (CallWrite(d) => d # c) /\ (StartTimer(d) => d # c)
    BY <1>2 DEF CallStep, CallWrite, CallFail, AddPending, StartTimer, TypeOK
  <2>2. UNCHANGED <<outcome, inbox, dispatched>> /\ reply'[c] = reply[c] /\ timer'[c] = timer[c]
    BY <1>2, <2>1 DEF CallStep, CallWrite, CallFail, AddPending, StartTimer,
                      DeliverRequest, TypeOK
  <2> QED
    BY <1>1, <2>1, <2>2 DEF Unused
<1>3. ASSUME NEW d \in Calls, TimerStep(d)
      PROVE  Unused(c)'
  <2>1. UNCHANGED <<callPC, reply, outcome, inbox>>
    BY <1>3 DEF TimerStep, TimerStop, TimerFire, TimerExpire
  <2>2. Unused(c)
    BY <1>1, <2>1
  <2>3. d # c
    BY <1>3, <2>2 DEF TimerStep, TimerStop, TimerFire, TimerExpire, Unused
  <2>4. timer'[c] = timer[c]
    BY <1>3, <2>3 DEF TimerStep, TimerStop, TimerFire, TimerExpire, TypeOK
  <2>5. \A t \in MsgTypes : dispatched'[c][t] = dispatched[c][t]
    <3>1. "EXP" \in MsgTypes
      BY DEF MsgTypes
    <3>2. UNCHANGED dispatched \/ Notify(d, "EXP")
      BY <1>3 DEF TimerStep, TimerStop, TimerFire, TimerExpire
    <3> QED
      BY <1>1, <2>3, <3>1, <3>2, NotifyCounts DEF Requests
  <2> QED
    BY <2>1, <2>2, <2>4, <2>5 DEF Unused
<1>4. ASSUME NEW o \in Others, Request(o)
      PROVE  Unused(c)'
  <2>1. o # c
    BY RequestsAssumption
  <2> QED
    BY <1>1, <1>4, <2>1 DEF Request, DeliverRequest, TypeOK, Unused
<1>5. CASE ReadStep
  <2>1. PICK t \in {"RES", "ERR", "OK", "EVNT", "BAD"} : Receive(t)
    BY <1>5 DEF ReadStep, ReceiveRes, ReceiveErr, ReceiveOK, ReceiveEvnt,
                ReceiveOther, SkipInvalid
  <2>2. UNCHANGED <<callPC, reply, outcome, timer>>
    BY <2>1 DEF Receive
  <2>3. Unused(c)
    BY <1>1, <2>2
  <2>4. Head(inbox).for # c /\ \A i \in DOMAIN inbox' : inbox'[i].for # c
    BY <2>1, <2>3, InboxTail DEF Unused
  <2>5. \A u \in MsgTypes : dispatched'[c][u] = dispatched[c][u]
    <3>1. {"RES", "ERR", "OK", "EVNT"} \subseteq MsgTypes
      BY DEF MsgTypes
    <3>2. Head(inbox).for \in Requests
      BY <2>1, ReceiveTakes
    <3>3. \/ UNCHANGED dispatched
          \/ \E u \in MsgTypes : Notify(Head(inbox).for, u)
      BY <1>5, <3>1 DEF ReadStep, ReceiveRes, ReceiveErr, ReceiveOK,
                        ReceiveEvnt, ReceiveOther, SkipInvalid
    <3> QED
      BY <1>1, <2>4, <3>2, <3>3, NotifyCounts
  <2> QED
    BY <2>2, <2>3, <2>4, <2>5 DEF Unused
<1>6. CASE StopReading \/ Close \/ CloseReturn \/ Disconnect \/ UNCHANGED vars
  BY <1>1, <1>6 DEF StopReading, Close, CloseReturn, Disconnect, vars, Unused
<1>7. ASSUME NEW d \in Calls, ServerCall(d)
      PROVE  Unused(c)'
  <2>1. UNCHANGED <<callPC, timer, inbox, dispatched>>
    BY <1>7 DEF ServerCall
  <2>2. Unused(c) /\ d # c
    BY <1>1, <1>7, <2>1 DEF ServerCall, Unused
  <2>3. reply'[c] = reply[c] /\ outcome'[c] = outcome[c]
    BY <1>7, <2>2 DEF ServerCall, TypeOK
  <2> QED
    BY <2>1, <2>2, <2>3 DEF Unused
<1>8. ASSUME NEW o \in Others, ServerOther(o)
      PROVE  Unused(c)'
  <2>1. o # c
    BY RequestsAssumption
  <2> QED
    BY <1>1, <1>8, <2>1 DEF ServerOther, TypeOK, Unused
<1>9. ASSUME NEW r \in Requests, ServerReply(r)
      PROVE  Unused(c)'
  <2>1. UNCHANGED <<callPC, timer, outcome, dispatched>>
    BY <1>9 DEF ServerReply
  <2>2. Unused(c) /\ r # c
    BY <1>1, <1>9, <2>1 DEF ServerReply, Unused
  <2>3. reply'[c] = reply[c]
    BY <1>9, <2>2 DEF ServerReply, TypeOK
  <2>4. PICK t \in {"OK", "ERR", "BAD"} : inbox' = Append(inbox, [type |-> t, for |-> r])
    BY <1>9 DEF ServerReply
  <2>5. [type |-> t, for |-> r] \in Responses /\ [type |-> t, for |-> r].for # c
    BY <2>2 DEF Responses
  <2>6. \A i \in DOMAIN inbox' : inbox'[i].for # c
    BY <2>2, <2>4, <2>5, InboxAppend DEF Unused
  <2> QED
    BY <2>1, <2>2, <2>3, <2>6 DEF Unused
<1>10. ASSUME NEW d \in Calls, ServerResult(d)
       PROVE  Unused(c)'
  <2>1. UNCHANGED <<callPC, timer, reply, dispatched>>
    BY <1>10 DEF ServerResult
  <2>2. Unused(c) /\ d # c
    BY <1>1, <1>10, <2>1 DEF ServerResult, Unused
  <2>3. outcome'[c] = outcome[c]
    BY <1>10, <2>2 DEF ServerResult, TypeOK
  <2>4. PICK t \in {"RES", "ERR"} : inbox' = Append(inbox, [type |-> t, for |-> d])
    BY <1>10 DEF ServerResult
  <2>5. [type |-> t, for |-> d] \in Responses /\ [type |-> t, for |-> d].for # c
    BY <2>2 DEF Responses
  <2>6. \A i \in DOMAIN inbox' : inbox'[i].for # c
    BY <2>2, <2>4, <2>5, InboxAppend DEF Unused
  <2> QED
    BY <2>1, <2>2, <2>3, <2>6 DEF Unused
<1>11. ASSUME NEW o \in Others, ServerEvent(o)
       PROVE  Unused(c)'
  <2>1. UNCHANGED <<callPC, timer, reply, outcome, dispatched>> /\ o # c
    BY <1>11, RequestsAssumption DEF ServerEvent
  <2>2. Unused(c)
    BY <1>1, <2>1
  <2>3. /\ [type |-> "EVNT", for |-> o] \in Responses
        /\ [type |-> "EVNT", for |-> o].for # c
    BY <2>1 DEF Responses
  <2>4. inbox' = Append(inbox, [type |-> "EVNT", for |-> o])
    BY <1>11 DEF ServerEvent
  <2>5. \A i \in DOMAIN inbox' : inbox'[i].for # c
    BY <2>2, <2>3, <2>4, InboxAppend DEF Unused
  <2> QED
    BY <2>1, <2>2, <2>5 DEF Unused
<1>12. ASSUME NEW r \in Requests, NEW t \in MsgTypes, Handle(r, t)
       PROVE  Unused(c)'
  BY <1>1, <1>12 DEF Handle, Unused
<1> QED
  BY <1>2, <1>3, <1>4, <1>5, <1>6, <1>7, <1>8, <1>9, <1>10, <1>11, <1>12
  DEF Next, Server

\* The client and its calls that were not made, in juggler-load.
LEMMA ClientKnown == LoadSpec => [](TypeOK /\ IdleUnused /\ HandledInv)
<1>1. Init => IdleUnused
  BY DEF Init, IdleUnused, Unused, Requests
<1> QED
  BY <1>1, IdleStep, LoadUsesClient, TypeCorrect, ClientHandlesDispatched, PTL
  DEF Spec

-----------------------------------------------------------------------------
(* The counter of the WaitGroup *)

\* The calls for which wgResults.Done is still to be called.
Open == {c \in Calls : callPC[c] # "idle" /\ Answers(c) = 0}

LoadType ==
  /\ app \in {"any", "load"}
  /\ wg \in Int
  /\ app = "any" => load = "calling"

\* The counter is the number of open calls, of which there are none left
\* when the client is closed, unless a call was answered twice.
Counted ==
  \/ \E c \in Calls : Answers(c) > 1
  \/ /\ load # "panic"
     /\ app = "load" => IsFiniteSet(Open) /\ wg = Cardinality(Open)
     /\ load \in {"closing", "ended"} => app = "load" /\ wg = 0

\* The inductive invariant behind LoadWaits.
LoadInv == LoadType /\ Counted

\* The number of answers is a natural number.
LEMMA AnswersType ==
  ASSUME TypeOK, NEW c \in Calls
  PROVE  Answers(c) \in Nat
BY DEF TypeOK, Answers, Requests, MsgTypes

\* The Handler runs, for an answer to a call or for something else.
LEMMA HandleAnswers ==
  ASSUME TypeOK, NEW r \in Requests, NEW t \in MsgTypes, Handle(r, t),
         NEW c \in Calls
  PROVE  Answers(c)' = IF r = c /\ t \in {"RES", "EXP", "ERR"}
                       THEN Answers(c) + 1 ELSE Answers(c)
<1>1. c \in Requests /\ {"RES", "EXP", "ERR"} \subseteq MsgTypes
  BY DEF Requests, MsgTypes
<1>2. \A u \in MsgTypes : handled[c][u] \in Nat
  BY <1>1 DEF TypeOK
<1>3. CASE r = c /\ t \in {"RES", "EXP", "ERR"}
  <2>1. \A u \in MsgTypes :
          handled'[c][u] = IF u = t THEN handled[c][u] + 1 ELSE handled[c][u]
    BY <1>1, <1>3, HandleCounts
  <2>2. \A u \in {"RES", "EXP", "ERR"} :
          handled[c][u] \in Nat /\ handled[c][u] + 0 = handled[c][u]
    BY <1>1, <1>2
  <2> QED
    BY <1>1, <1>3, <2>1, <2>2 DEF Answers
<1>4. CASE ~(r = c /\ t \in {"RES", "EXP", "ERR"})
  <2>1. \A u \in {"RES", "EXP", "ERR"} : handled'[c][u] = handled[c][u]
    BY <1>1, <1>4, HandleCounts
  <2> QED
    BY <2>1, <1>4 DEF Answers
<1> QED
  BY <1>3, <1>4

\* The types of juggler-load.
LEMMA LoadTypeStep == LoadType /\ [LoadNext]_allVars => LoadType'
BY DEF LoadType, LoadNext, RunClient, LoadCall, LoadCallFails, LoadStop,
       LoadClose, LoadEnd, LoadHandle, ClientGoroutines, loadVars, allVars

\* A call that is not made has no answer.
LEMMA IdleUnanswered ==
  ASSUME TypeOK, IdleUnused, HandledInv, NEW c \in Calls, callPC[c] = "idle"
  PROVE  Answers(c) = 0 /\ \A t \in MsgTypes : ~(handled[c][t] < dispatched[c][t])
<1>1. \A t \in MsgTypes :
        /\ handled[c][t] \in Nat /\ dispatched[c][t] = 0 /\ handled[c][t] <= dispatched[c][t]
  BY DEF TypeOK, Requests, HandledInv, IdleUnused, Unused
<1> QED
  BY <1>1 DEF Answers, MsgTypes

\* The goroutines of the client make no call, and the Handler does not run in
\* them.
LEMMA GoroutinesMakeNoCall ==
  ASSUME TypeOK, ClientGoroutines
  PROVE  /\ \A c \in Calls : callPC'[c] = "idle" <=> callPC[c] = "idle"
         /\ UNCHANGED handled
<1>1. ASSUME NEW d \in Calls, AddPending(d) \/ StartTimer(d)
      PROVE  /\ \A c \in Calls : callPC'[c] = "idle" <=> callPC[c] = "idle"
             /\ UNCHANGED handled
  BY <1>1 DEF AddPending, StartTimer, TypeOK
<1>2. ASSUME \/ \E d \in Calls : TimerStep(d)
             \/ ReadStep \/ StopReading \/ CloseReturn \/ Server
      PROVE  UNCHANGED <<callPC, handled>>
  BY <1>2 DEF TimerStep, TimerStop, TimerFire, TimerExpire, ReadStep, Receive,
              ReceiveRes, ReceiveErr, ReceiveOK, ReceiveEvnt, ReceiveOther,
              SkipInvalid, StopReading, CloseReturn, Server, ServerCall,
              ServerOther, ServerEvent, ServerReply, ServerResult, Disconnect
<1> QED
  BY <1>1, <1>2 DEF ClientGoroutines

\* A call is made: the counter and the open calls grow by one.
LEMMA CountedCall ==
  ASSUME TypeOK, IdleUnused, HandledInv, LoadInv, app = "load",
         \A d \in Calls : ~(Answers(d) > 1),
         NEW c \in Calls, LoadCall(c) \/ LoadCallFails(c)
  PROVE  Counted'
<1> USE DEF LoadInv
<1>1. IsFiniteSet(Open) /\ wg = Cardinality(Open)
  BY DEF Counted
<1>2. callPC[c] = "idle" /\ Answers(c) = 0
  BY IdleUnanswered DEF LoadCall, LoadCallFails, CallWrite, CallFail
<1>3. /\ callPC'[c] # "idle"
      /\ \A d \in Calls \ {c} : callPC'[d] = callPC[d]
      /\ wg' = wg + 1 /\ UNCHANGED <<handled, app>> /\ load' \in {"calling", "fatal"}
  BY DEF LoadCall, LoadCallFails, CallWrite, CallFail, TypeOK
<1>4. \A d \in Calls : Answers(d)' = Answers(d)
  BY <1>3 DEF Answers
<1>5. Open' = Open \cup {c} /\ c \notin Open
  BY <1>2, <1>3, <1>4 DEF Open
<1>6. IsFiniteSet(Open \cup {c}) /\ Cardinality(Open \cup {c}) = Cardinality(Open) + 1
  BY <1>1, <1>5, FS_AddElement
<1> QED
  BY <1>1, <1>3, <1>5, <1>6 DEF Counted

\* The Handler runs: an answer that is the first one closes the call.
LEMMA CountedHandle ==
  ASSUME TypeOK, IdleUnused, HandledInv, LoadInv, app = "load",
         \A d \in Calls : ~(Answers(d) > 1),
         NEW c \in Calls, NEW t \in AnswerTypes, LoadHandle(c, t)
  PROVE  Counted'
<1> USE DEF LoadInv
<1>0. c \in Requests /\ t \in MsgTypes /\ Handle(c, t)
  BY DEF LoadHandle, AnswerTypes, Requests
<1>1. /\ load # "panic" /\ IsFiniteSet(Open) /\ wg = Cardinality(Open)
      /\ load \in {"closing", "ended"} => wg = 0
  BY DEF Counted
<1>2. UNCHANGED <<callPC, app>>
  BY <1>0 DEF LoadHandle, Handle
<1>3. CASE t = "OK"
  <2>1. UNCHANGED <<wg, load>>
    BY <1>3 DEF LoadHandle
  <2>2. \A d \in Calls : Answers(d)' = Answers(d)
    BY <1>0, <1>3, HandleAnswers
  <2>3. Open' = Open
    BY <1>2, <2>2 DEF Open
  <2> QED
    BY <1>1, <1>2, <2>1, <2>3 DEF Counted
<1>4. CASE t # "OK" /\ Answers(c) # 0
  <2>1. Answers(c) \in Nat /\ Answers(c)' = Answers(c) + 1
    BY <1>0, <1>4, AnswersType, HandleAnswers DEF AnswerTypes, MsgTypes
  <2>2. Answers(c)' > 1
    BY <1>4, <2>1
  <2> QED
    BY <2>2 DEF Counted
<1>5. CASE t # "OK" /\ Answers(c) = 0
  <2>1. callPC[c] # "idle"
    BY <1>0, IdleUnanswered DEF Handle
  <2>2. c \in Open
    BY <1>5, <2>1 DEF Open
  <2>3. /\ Answers(c)' = 1
        /\ \A d \in Calls \ {c} : Answers(d)' = Answers(d)
    BY <1>0, <1>5, HandleAnswers DEF AnswerTypes, MsgTypes
  <2>4. Open' = Open \ {c}
    BY <1>2, <2>3 DEF Open
  <2>5. IsFiniteSet(Open \ {c}) /\ Cardinality(Open \ {c}) = Cardinality(Open) - 1
    BY <1>1, <2>2, FS_RemoveElement
  <2>6. wg # 0
    BY <1>1, <2>2, FS_EmptySet
  <2>7. wg' = wg - 1 /\ load' = load
    BY <1>5, <2>6 DEF LoadHandle
  <2> QED
    BY <1>1, <1>2, <2>4, <2>5, <2>6, <2>7 DEF Counted
<1> QED
  BY <1>3, <1>4, <1>5

\* Every step keeps the counter right.
LEMMA CountedStep ==
  TypeOK /\ IdleUnused /\ HandledInv /\ LoadInv /\ [LoadNext]_allVars =>
    Counted'
<1> SUFFICES ASSUME TypeOK, IdleUnused, HandledInv, LoadInv,
                    [LoadNext]_allVars
             PROVE  Counted'
  OBVIOUS
<1> USE DEF LoadInv
<1>1. CASE app = "any"
  <2>1. UNCHANGED <<app, load>> /\ load = "calling"
    BY <1>1 DEF LoadNext, LoadType, loadVars, allVars
  <2> QED
    BY <1>1, <2>1 DEF Counted
<1>2. ASSUME UNCHANGED <<handled, app>>
      PROVE  \A c \in Calls : Answers(c)' = Answers(c)
  BY <1>2 DEF Answers
<1>3. ASSUME NEW c \in Calls, Answers(c) > 1
      PROVE  Counted'
  <2>1. ASSUME NEW r \in Requests, NEW t \in MsgTypes, Handle(r, t)
        PROVE  Counted'
    <3>1. Answers(c)' \in {Answers(c), Answers(c) + 1} /\ Answers(c) \in Nat
      BY <2>1, HandleAnswers, AnswersType
    <3>2. Answers(c)' > 1
      BY <1>3, <3>1
    <3> QED
      BY <3>2 DEF Counted
  <2>2. CASE UNCHANGED handled
    BY <1>3, <2>2 DEF Counted, Answers
  <2> QED
    BY <2>1, <2>2, ClientStep, HandledStep
<1>4. CASE app = "load" /\ \A d \in Calls : ~(Answers(d) > 1)
  <2>1. /\ load # "panic" /\ IsFiniteSet(Open) /\ wg = Cardinality(Open)
        /\ load \in {"closing", "ended"} => wg = 0
    BY <1>4 DEF Counted
  <2>2. ASSUME UNCHANGED <<app, wg, handled>>,
               load' \in {"waiting", "fatal", load} \/ (wg = 0 /\ load' \in {"closing", "ended"}),
               \A c \in Calls : callPC'[c] = "idle" <=> callPC[c] = "idle"
        PROVE  Counted'
    <3>1. Open' = Open
      BY <1>2, <2>2 DEF Open
    <3> QED
      BY <1>4, <2>1, <2>2, <3>1 DEF Counted
  <2>3. CASE LoadStop \/ LoadEnd \/ UNCHANGED allVars
    <3>1. /\ UNCHANGED <<app, wg, handled, callPC>>
          /\ load' \in {"waiting", "fatal", load} \/ (load = "closing" /\ load' = "ended")
      BY <2>3 DEF LoadStop, LoadEnd, allVars, loadVars, vars
    <3> QED
      BY <2>1, <2>2, <3>1
  <2>4. CASE LoadClose
    BY <2>2, <2>4 DEF LoadClose, Close
  <2>5. CASE ClientGoroutines
    <3>1. UNCHANGED loadVars
      BY <2>5 DEF ClientGoroutines
    <3> QED
      BY <2>2, <2>5, <3>1, GoroutinesMakeNoCall DEF loadVars
  <2> QED
    BY <1>4, <2>3, <2>4, <2>5, CountedCall, CountedHandle DEF LoadNext,
                                                              RunClient
<1> QED
  BY <1>1, <1>3, <1>4 DEF LoadType

\* As long as no call is answered twice, juggler-load closes the client only
\* after each of its calls was answered, and Done is not called too often,
\* whatever the order of answers, expirations and handler goroutines.
THEOREM LoadWaitsForAnswers == LoadSpec => []LoadWaits
<1>1. LoadInit => LoadInv
  <2>1. LoadInit => LoadType
    BY DEF LoadInit, LoadType
  <2>2. LoadInit => Open = {}
    BY DEF LoadInit, Init, Open
  <2> QED
    BY <2>1, <2>2, FS_EmptySet DEF LoadInit, LoadInv, Counted
<1>2. /\ TypeOK /\ IdleUnused /\ HandledInv
      /\ LoadInv /\ [LoadNext]_allVars
      => LoadInv'
  BY LoadTypeStep, CountedStep DEF LoadInv
<1>3. TypeOK /\ LoadInv => LoadWaits
  <2> SUFFICES ASSUME TypeOK, LoadInv, \A c \in Calls : ~(Answers(c) > 1)
               PROVE  /\ load # "panic"
                      /\ load \in {"closing", "ended"} =>
                           \A c \in Calls : callPC[c] = "returned" => Answers(c) = 1
    BY DEF LoadWaits
  <2> USE DEF LoadInv
  <2>1. /\ load # "panic"
        /\ load \in {"closing", "ended"} => IsFiniteSet(Open) /\ Cardinality(Open) = 0
    BY DEF Counted
  <2>2. load \in {"closing", "ended"} => Open = {}
    BY <2>1, FS_EmptySet
  <2>3. \A c \in Calls : c \notin Open /\ callPC[c] = "returned" => Answers(c) = 1
    <3>1. \A c \in Calls : Answers(c) \in Nat
      BY AnswersType
    <3> QED
      BY <3>1 DEF Open
  <2> QED
    BY <2>1, <2>2, <2>3
<1> QED
  BY <1>1, <1>2, <1>3, ClientKnown, PTL DEF LoadSpec

=============================================================================
