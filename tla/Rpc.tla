-------------------------------- MODULE Rpc ---------------------------------
(***************************************************************************)
(* A remote call from the server that registers it to the server that      *)
(* reads its result: the calls queue, the callee (juggler/callee and the   *)
(* workers of juggler/cmd/juggler-callee) and the results queue.  Both     *)
(* queues are instances of RedisQueue and share the clock.                 *)
(*                                                                         *)
(* A worker receives a call from the channel of the callsConn, runs its    *)
(* Thunk and stores the result with the time that is left of the call.     *)
(***************************************************************************)
EXTENDS Integers, Sequences, Functions

CONSTANTS
  Calls,       \* message UUIDs of the calls
  Workers,     \* goroutines of the callee that share the calls channel
  CallCap,     \* Broker.CallCap of the server
  ResultCap,   \* Broker.ResultCap of the callee
  Timeouts,    \* timeouts of the calls, in ticks
  Resolution,  \* ticks per millisecond
  DefaultMs,   \* broker.DefaultCallTimeout, in milliseconds
  MaxTime,     \* bound on the clock
  MaxFaults,   \* bound on the failures of connections to Redis
  NoMsg        \* no call

ASSUME RpcAssumption ==
  /\ CallCap \in Int /\ ResultCap \in Int
  /\ Timeouts \subseteq Int
  /\ Resolution \in Nat \ {0}
  /\ DefaultMs \in Nat \ {0}
  /\ MaxTime \in Nat /\ MaxFaults \in Nat
  /\ NoMsg \notin Calls

VARIABLES
  now,         \* the clock, in ticks
  cList, cExpires, cReg, cLink, cPc, cHeld, cRead, cChan, cSerial, cPushed,
  rList, rExpires, rReg, rLink, rPc, rHeld, rRead, rChan, rSerial, rPushed,
  faults,      \* the number of such failures
  worker       \* what each worker does, with which call and how much time,
               \* and when it took the call and the Thunk returned

callVars == <<cList, cExpires, cReg, cLink, cPc, cHeld, cRead, cChan, cSerial,
              cPushed>>
resVars == <<rList, rExpires, rReg, rLink, rPc, rHeld, rRead, rChan, rSerial,
             rPushed>>
vars == <<now, callVars, resVars, faults, worker>>

\* The calls of one URI, registered by the server and read by the callee.
C == INSTANCE RedisQueue WITH
       Lists <- {"uri"}, Msgs <- Calls, Home <- [m \in Calls |-> "uri"],
       Producers <- {"server"}, Cap <- [p \in {"server"} |-> CallCap],
       Consumers <- {"calls"}, Keys <- [c \in {"calls"} |-> <<"uri">>],
       list <- cList, expires <- cExpires, reg <- cReg, link <- cLink,
       pc <- cPc, held <- cHeld, read <- cRead, chan <- cChan,
       serial <- cSerial, pushed <- cPushed

\* The results of one connection, registered by the callee and read by the
\* server.
R == INSTANCE RedisQueue WITH
       Lists <- {"conn"}, Msgs <- Calls, Home <- [m \in Calls |-> "conn"],
       Producers <- {"callee"}, Cap <- [p \in {"callee"} |-> ResultCap],
       Consumers <- {"results"}, Keys <- [c \in {"results"} |-> <<"conn">>],
       list <- rList, expires <- rExpires, reg <- rReg, link <- rLink,
       pc <- rPc, held <- rHeld, read <- rRead, chan <- rChan,
       serial <- rSerial, pushed <- rPushed

Idle == [pc |-> "idle", msg |-> NoMsg, time |-> 0, start |-> 0, back |-> 0]

Init ==
  /\ C!Init
  /\ R!Init
  /\ faults = 0
  /\ worker = [w \in Workers |-> Idle]

Tick == C!Tick /\ R!Tick /\ UNCHANGED <<faults, worker>>

-----------------------------------------------------------------------------
(***************************************************************************)
(* The server: ProcessMsg for a CALL, and the loops of the two connections *)
(***************************************************************************)
Submit(m, t) ==
  /\ C!Register("server", m, t)
  /\ UNCHANGED <<resVars, faults, worker>>

Fail == faults < MaxFaults /\ faults' = faults + 1

SubmitFail(m, t) ==
  /\ C!RegisterLost("server", m, t) \/ C!RegisterFail(m)
  /\ Fail
  /\ UNCHANGED <<resVars, worker>>

\* What follows from a connection that is down is not another failure.
FailUnless(down) == IF down THEN UNCHANGED faults ELSE Fail

CallsLoop ==
  /\ C!Pop("calls") \/ C!Check("calls") \/ C!CloseChan("calls")
  /\ UNCHANGED <<resVars, faults, worker>>

CallsFault ==
  /\ C!Fault("calls")
  /\ FailUnless(cLink["calls"] = "down")
  /\ UNCHANGED <<resVars, worker>>

\* The last step of the loop, Send, gives the result to Conn.results.
ResultsLoop ==
  /\ R!Loop("results")
  /\ UNCHANGED <<callVars, faults, worker>>

ResultsFault ==
  /\ R!Fault("results")
  /\ FailUnless(rLink["results"] = "down")
  /\ UNCHANGED <<callVars, worker>>

-----------------------------------------------------------------------------
(***************************************************************************)
(* The callee: for cp := range ch { InvokeAndStoreResult(cp, thunk) }      *)
(***************************************************************************)

\* A worker receives a call: ttl := cp.TTLAfterRead, start := time.Now().
Take(w) ==
  /\ worker[w].pc = "idle"
  /\ C!Send("calls")
  /\ worker' = [worker EXCEPT ![w] =
                  [pc |-> "run", msg |-> cHeld["calls"],
                   time |-> cRead["calls"].ttl * Resolution,
                   start |-> now, back |-> 0]]
  /\ UNCHANGED <<resVars, faults>>

\* Mutant: the time the Thunk took is not subtracted.
RemainWhole(w) == worker[w].time

\* ttl - time.Now().Sub(start)
Remain(w) == worker[w].time - (now - worker[w].start)

\* The Thunk returns in time: storeResult is called with what remains.
Return(w) ==
  /\ worker[w].pc = "run"
  /\ Remain(w) > 0
  /\ worker' = [worker EXCEPT ![w].pc = "store", ![w].time = Remain(w),
                             ![w].back = now]
  /\ UNCHANGED <<now, callVars, resVars, faults>>

\* Mutant: the Thunk of an expired call is tried again.
ExpireRetry(w) ==
  /\ worker[w].pc = "run"
  /\ Remain(w) <= 0
  /\ UNCHANGED vars

\* It returns too late: ErrCallExpired.
Expire(w) ==
  /\ worker[w].pc = "run"
  /\ Remain(w) <= 0
  /\ worker' = [worker EXCEPT ![w] = Idle]
  /\ UNCHANGED <<now, callVars, resVars, faults>>

\* storeResult: Broker.Result, the error of which is only logged.
Store(w) ==
  /\ worker[w].pc = "store"
  /\ LET m == worker[w].msg
         t == worker[w].time
     IN  \/ R!Register("callee", m, t) /\ UNCHANGED faults
         \/ (R!RegisterLost("callee", m, t) \/ R!RegisterFail(m)) /\ Fail
  /\ worker' = [worker EXCEPT ![w] = Idle]
  /\ UNCHANGED callVars

\* The calls channel is closed: the worker ends.
End(w) ==
  /\ worker[w].pc = "idle"
  /\ cPc["calls"] = "closed"
  /\ worker' = [worker EXCEPT ![w].pc = "ended"]
  /\ UNCHANGED <<now, callVars, resVars, faults>>

Work(w) == Take(w) \/ Return(w) \/ Expire(w) \/ Store(w) \/ End(w)

-----------------------------------------------------------------------------
Next ==
  \/ \E m \in Calls, t \in Timeouts : Submit(m, t) \/ SubmitFail(m, t)
  \/ CallsLoop \/ CallsFault \/ ResultsLoop \/ ResultsFault
  \/ \E w \in Workers : Work(w)
  \/ Tick

Spec == Init /\ [][Next]_vars

(***************************************************************************)
(* Goroutines are scheduled, Thunks return, and an operation on a          *)
(* connection that is down fails.                                          *)
(***************************************************************************)
Fairness ==
  /\ WF_vars(CallsLoop)
  /\ WF_vars(ResultsLoop)
  /\ WF_vars(cLink["calls"] = "down" /\ CallsFault)
  /\ WF_vars(rLink["results"] = "down" /\ ResultsFault)
  /\ \A w \in Workers : WF_vars(Work(w))

FairSpec == Spec /\ Fairness

-----------------------------------------------------------------------------
(***************************************************************************)
(* Properties                                                              *)
(***************************************************************************)
Answered(m) == \E i \in DOMAIN rChan["results"] : rChan["results"][i].msg = m
InResults(m) == m \in Range(rList["conn"]) \/ rHeld["results"] = m
AtWorker(m) == \E w \in Workers : worker[w].msg = m
InCalls(m) == m \in Range(cList["uri"]) \/ cHeld["calls"] = m

PhaseOf(m) ==
  IF Answered(m) THEN "answered"
  ELSE IF InResults(m) THEN "stored"
  ELSE IF AtWorker(m) THEN "running"
  ELSE IF InCalls(m) THEN "waiting"
  ELSE IF cReg[m] = "new" THEN "new"
  ELSE "lost"

Service == INSTANCE CallService WITH phase <- [m \in Calls |-> PhaseOf(m)]

\* The two queues and the callee implement CallService: a call goes through
\* its phases in order and never goes back, whatever is lost on the way.
ImplementsService == Service!Spec

\* The calls the callee is about to store the result of although their Thunk
\* returned after the timeout, rounded up to a millisecond, and the given
\* allowance.
Late(w, allowance) ==
  /\ worker[w].pc = "store"
  /\ LET p == cPushed[worker[w].msg] IN
       worker[w].back >= p.at + (p.ms + 1) * Resolution + allowance

\* How long the call of w waited for w after its time to live was read.
Waited(w) ==
  worker[w].start - (CHOOSE d \in Range(cChan["calls"]) :
                       d.msg = worker[w].msg).at

\* A result is stored only if the Thunk returned before the timeout of the
\* call, plus the time the call waited for a worker: InvokeAndStoreResult
\* counts from its own start (callee.go:57-67).  Without that time it would
\* be what callee.go:55-56 says, and it would not hold.
StoredInTime ==
  \A w \in Workers : worker[w].pc = "store" => ~Late(w, Waited(w))

\* No call is stuck: one that waits is taken, unless the loop of Calls has
\* stopped; one that runs is stored or dropped, whatever connection is lost
\* meanwhile; a result reaches the server, unless the loop of Results has
\* stopped.  When the calls channel is closed the workers finish their calls
\* and end (juggler-callee/main.go:75-90).
CallEnds ==
  /\ \A m \in Calls :
       /\ PhaseOf(m) = "waiting" ~> PhaseOf(m) # "waiting" \/ cPc["calls"] = "closed"
       /\ PhaseOf(m) = "running" ~> PhaseOf(m) # "running"
       /\ PhaseOf(m) = "stored" ~> PhaseOf(m) # "stored" \/ rPc["results"] = "closed"
  /\ \A w \in Workers : cPc["calls"] = "closed" ~> worker[w].pc = "ended"

=============================================================================
