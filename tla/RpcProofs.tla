----------------------------- MODULE RpcProofs ------------------------------
(***************************************************************************)
(* Proofs about a remote call, for any number of calls and workers: its    *)
(* two queues behave like RedisQueue, a call is handed from one to the     *)
(* other once, and no result is stored later than the timeout allows.      *)
(***************************************************************************)
EXTENDS Rpc, TLAPS

\* Most leaves need no arithmetic: Zenon tries them before SMT does.
USE ZenonT(5), SMTT(10)

\* The queues again, with what is proved of them.
CP == INSTANCE RedisQueueProofs WITH
        Lists <- {"uri"}, Msgs <- Calls, Home <- [m \in Calls |-> "uri"],
        Producers <- {"server"}, Cap <- [p \in {"server"} |-> CallCap],
        Consumers <- {"calls"}, Keys <- [c \in {"calls"} |-> <<"uri">>],
        list <- cList, expires <- cExpires, reg <- cReg, link <- cLink,
        pc <- cPc, held <- cHeld, read <- cRead, chan <- cChan,
        serial <- cSerial, pushed <- cPushed

\* The time left of a call need not be one of the timeouts of the calls.
RP == INSTANCE RedisQueueProofs WITH
        Lists <- {"conn"}, Msgs <- Calls, Home <- [m \in Calls |-> "conn"],
        Producers <- {"callee"}, Cap <- [p \in {"callee"} |-> ResultCap],
        Consumers <- {"results"}, Keys <- [c \in {"results"} |-> <<"conn">>],
        Timeouts <- Int,
        list <- rList, expires <- rExpires, reg <- rReg, link <- rLink,
        pc <- rPc, held <- rHeld, read <- rRead, chan <- rChan,
        serial <- rSerial, pushed <- rPushed

-----------------------------------------------------------------------------
\* What CP assumes of its constants.
LEMMA CallsAssumption == CP!QueueAssumption
BY RpcAssumption DEF CP!QueueAssumption

\* The actions of C are those of CP.
LEMMA CallsSame ==
  /\ C!Init => CP!Init
  /\ \A m, t : C!Script("server", m, t) => CP!Script("server", m, t)
  /\ \A m, t : C!Register("server", m, t) => CP!Register("server", m, t)
  /\ \A m, t : C!RegisterLost("server", m, t) => CP!RegisterLost("server", m, t)
  /\ \A m : C!RegisterFail(m) => CP!RegisterFail(m)
  /\ C!Pop("calls") => CP!Pop("calls")
  /\ C!PopLost("calls") => CP!PopLost("calls")
  /\ C!PopFail("calls") => CP!PopFail("calls")
  /\ C!CloseChan("calls") => CP!CloseChan("calls")
  /\ C!Check("calls") => CP!Check("calls")
  /\ C!CheckFail("calls") => CP!CheckFail("calls")
  /\ C!Send("calls") => CP!Send("calls")
  /\ C!Break("calls") => CP!Break("calls")
  /\ C!Tick => CP!Tick
<1> USE DEF C!redisVars, CP!redisVars, C!loopVars, CP!loopVars, C!historyVars, CP!historyVars
<1>1. C!Init => CP!Init
  BY DEF C!Init, CP!Init
<1>2. \A m, t : C!Script("server", m, t) => CP!Script("server", m, t)
  BY DEF C!Script, CP!Script, C!Exceeds, CP!Exceeds, C!Trim, CP!Trim,
      C!TimeoutMs, CP!TimeoutMs, C!Truncate, CP!Truncate, C!RedisMs,
      CP!RedisMs
<1>3. \A m, t : C!Register("server", m, t) => CP!Register("server", m, t)
  BY <1>2 DEF C!Register, CP!Register, C!Exceeds, CP!Exceeds
<1>4. \A m, t : C!RegisterLost("server", m, t) => CP!RegisterLost("server", m, t)
  BY <1>2 DEF C!RegisterLost, CP!RegisterLost
<1>5. \A m : C!RegisterFail(m) => CP!RegisterFail(m)
  BY DEF C!RegisterFail, CP!RegisterFail
<1>6. /\ C!Pop("calls") => CP!Pop("calls")
      /\ C!PopLost("calls") => CP!PopLost("calls")
  BY DEF C!Pop, CP!Pop, C!PopLost, CP!PopLost, C!FirstNonEmpty,
      CP!FirstNonEmpty, C!Oldest, CP!Oldest, C!RemoveOldest, CP!RemoveOldest
<1>7. /\ C!PopFail("calls") => CP!PopFail("calls")
      /\ C!CloseChan("calls") => CP!CloseChan("calls")
  BY DEF C!PopFail, CP!PopFail, C!CloseChan, CP!CloseChan
<1>8. C!Check("calls") => CP!Check("calls")
  BY DEF C!Check, CP!Check, C!PTTL, CP!PTTL, C!RedisMs, CP!RedisMs
<1>9. C!CheckFail("calls") => CP!CheckFail("calls")
  BY DEF C!CheckFail, CP!CheckFail
<1>10. /\ C!Send("calls") => CP!Send("calls")
       /\ C!Break("calls") => CP!Break("calls")
       /\ C!Tick => CP!Tick
  BY DEF C!Send, CP!Send, C!Break, CP!Break, C!Tick, CP!Tick
<1> QED
  BY <1>1, <1>2, <1>3, <1>4, <1>5, <1>6, <1>7, <1>8, <1>9, <1>10

\* What RP assumes of its constants.
LEMMA ResultsAssumption == RP!QueueAssumption
BY RpcAssumption DEF RP!QueueAssumption

\* The actions of R are those of RP.
LEMMA ResultsSame ==
  /\ R!Init => RP!Init
  /\ \A m, t : R!Script("callee", m, t) => RP!Script("callee", m, t)
  /\ \A m, t : R!Register("callee", m, t) => RP!Register("callee", m, t)
  /\ \A m, t : R!RegisterLost("callee", m, t) => RP!RegisterLost("callee", m, t)
  /\ \A m : R!RegisterFail(m) => RP!RegisterFail(m)
  /\ R!Pop("results") => RP!Pop("results")
  /\ R!PopLost("results") => RP!PopLost("results")
  /\ R!PopFail("results") => RP!PopFail("results")
  /\ R!CloseChan("results") => RP!CloseChan("results")
  /\ R!Check("results") => RP!Check("results")
  /\ R!CheckFail("results") => RP!CheckFail("results")
  /\ R!Send("results") => RP!Send("results")
  /\ R!Break("results") => RP!Break("results")
  /\ R!Tick => RP!Tick
<1> USE DEF R!redisVars, RP!redisVars, R!loopVars, RP!loopVars, R!historyVars, RP!historyVars
<1>1. R!Init => RP!Init
  BY DEF R!Init, RP!Init
<1>2. \A m, t : R!Script("callee", m, t) => RP!Script("callee", m, t)
  BY DEF R!Script, RP!Script, R!Exceeds, RP!Exceeds, R!Trim, RP!Trim,
      R!TimeoutMs, RP!TimeoutMs, R!Truncate, RP!Truncate, R!RedisMs,
      RP!RedisMs
<1>3. \A m, t : R!Register("callee", m, t) => RP!Register("callee", m, t)
  BY <1>2 DEF R!Register, RP!Register, R!Exceeds, RP!Exceeds
<1>4. \A m, t : R!RegisterLost("callee", m, t) => RP!RegisterLost("callee", m, t)
  BY <1>2 DEF R!RegisterLost, RP!RegisterLost
<1>5. \A m : R!RegisterFail(m) => RP!RegisterFail(m)
  BY DEF R!RegisterFail, RP!RegisterFail
<1>6. /\ R!Pop("results") => RP!Pop("results")
      /\ R!PopLost("results") => RP!PopLost("results")
  BY DEF R!Pop, RP!Pop, R!PopLost, RP!PopLost, R!FirstNonEmpty,
      RP!FirstNonEmpty, R!Oldest, RP!Oldest, R!RemoveOldest, RP!RemoveOldest
<1>7. /\ R!PopFail("results") => RP!PopFail("results")
      /\ R!CloseChan("results") => RP!CloseChan("results")
  BY DEF R!PopFail, RP!PopFail, R!CloseChan, RP!CloseChan
<1>8. R!Check("results") => RP!Check("results")
  BY DEF R!Check, RP!Check, R!PTTL, RP!PTTL, R!RedisMs, RP!RedisMs
<1>9. R!CheckFail("results") => RP!CheckFail("results")
  BY DEF R!CheckFail, RP!CheckFail
<1>10. /\ R!Send("results") => RP!Send("results")
       /\ R!Break("results") => RP!Break("results")
       /\ R!Tick => RP!Tick
  BY DEF R!Send, RP!Send, R!Break, RP!Break, R!Tick, RP!Tick
<1> QED
  BY <1>1, <1>2, <1>3, <1>4, <1>5, <1>6, <1>7, <1>8, <1>9, <1>10

-----------------------------------------------------------------------------
(* The calls queue *)

\* The part of a step that the calls queue sees.
LEMMA CallsStep == [Next]_vars => [CP!Next]_(CP!vars)
<1> SUFFICES ASSUME [Next]_vars
             PROVE  CP!Next \/ UNCHANGED CP!vars
  OBVIOUS
<1>1. ASSUME NEW m \in Calls, NEW t \in Timeouts, Submit(m, t) \/ SubmitFail(m, t)
      PROVE  CP!Next
  <2>1. \/ CP!Register("server", m, t) \/ CP!RegisterLost("server", m, t)
        \/ CP!RegisterFail(m)
    BY <1>1, CallsSame DEF Submit, SubmitFail
  <2> QED
    BY <2>1 DEF CP!Next
<1>2. CASE CallsLoop \/ CallsFault \/ \E w \in Workers : Take(w)
  <2>1. CP!Loop("calls") \/ CP!Fault("calls")
    BY <1>2, CallsSame
    DEF CallsLoop, CallsFault, Take, C!Fault, CP!Loop, CP!Fault
  <2> QED
    BY <2>1 DEF CP!Next
<1>3. CASE ResultsLoop \/ ResultsFault
  <2>1. UNCHANGED <<now, callVars>>
    BY <1>3 DEF ResultsLoop, ResultsFault, R!Loop, R!Fault, R!Pop, R!PopLost,
                R!PopFail, R!CloseChan, R!Check, R!CheckFail, R!Send, R!Break
  <2> QED
    BY <2>1 DEF callVars, CP!vars
<1>4. ASSUME NEW w \in Workers, Return(w) \/ Expire(w) \/ Store(w) \/ End(w)
      PROVE  UNCHANGED CP!vars
  <2>1. UNCHANGED <<now, callVars>>
    BY <1>4 DEF Return, Expire, Store, End, R!Register, R!RegisterLost, R!RegisterFail
  <2> QED
    BY <2>1 DEF callVars, CP!vars
<1>5. CASE Tick
  BY <1>5, CallsSame DEF Tick, CP!Next
<1>6. CASE UNCHANGED vars
  BY <1>6 DEF vars, callVars, CP!vars
<1> QED
  BY <1>1, <1>2, <1>3, <1>4, <1>5, <1>6 DEF Next, Work

\* The calls queue of a remote call is a RedisQueue.
THEOREM CallsQueue == Spec => CP!Spec
<1>1. Init => CP!Init
  BY CallsSame DEF Init
<1> QED
  BY <1>1, CallsStep, PTL DEF Spec, CP!Spec

\* So what is known of such a queue is known of it.
LEMMA CallsKnown == Spec => []CP!QueueFacts
BY CallsQueue, CallsAssumption, CP!QueueKnown, PTL

-----------------------------------------------------------------------------
(* The workers and the results queue *)

WorkerState ==
  [pc : {"idle", "run", "store", "ended"}, msg : Calls \cup {NoMsg},
   time : Int, start : Int, back : Int]

\* A worker has a call exactly while it runs its Thunk or stores its result.
WorkerType ==
  /\ worker \in [Workers -> WorkerState]
  /\ \A w \in Workers : worker[w].pc \in {"run", "store"} <=>
       worker[w].msg \in Calls

\* The steps of the workers, one at a time.
LEMMA WorkerMoves ==
  ASSUME [Next]_vars, WorkerType
  PROVE  \/ UNCHANGED worker
         \/ \E w \in Workers :
              /\ Work(w)
              /\ \A v \in Workers \ {w} : worker'[v] = worker[v]
<1>1. ASSUME NEW w \in Workers, Work(w)
      PROVE  \A v \in Workers \ {w} : worker'[v] = worker[v]
  BY <1>1 DEF Work, Take, Return, Expire, Store, End, WorkerType
<1>2. ASSUME \/ \E m \in Calls, t \in Timeouts : Submit(m, t) \/ SubmitFail(m, t)
             \/ CallsLoop \/ CallsFault \/ ResultsLoop \/ ResultsFault
             \/ Tick \/ UNCHANGED vars
      PROVE  UNCHANGED worker
  BY <1>2 DEF Submit, SubmitFail, CallsLoop, CallsFault, ResultsLoop,
              ResultsFault, Tick, vars
<1> QED
  BY <1>1, <1>2 DEF Next

\* What a worker that takes a call gets.
LEMMA TakeState ==
  ASSUME CP!QueueFacts, WorkerType, NEW w \in Workers, Take(w)
  PROVE  /\ cHeld["calls"] \in Calls
         /\ CP!Send("calls")
         /\ cRead["calls"].ttl \in Nat /\ cRead["calls"].at \in Nat
         /\ Resolution \in Nat /\ now \in Nat
         /\ worker'[w] = [pc |-> "run", msg |-> cHeld["calls"],
                          time |-> cRead["calls"].ttl * Resolution,
                          start |-> now, back |-> 0]
<1>1. CP!Send("calls")
  BY CallsSame DEF Take
<1>2. cHeld["calls"] \in Calls
  BY <1>1 DEF CP!QueueFacts, CP!HoldsMsg, CP!Send
<1>3. cRead["calls"] \in [at : Nat, ttl : Nat]
  BY DEF CP!QueueFacts, CP!TypeOK
<1>4. now \in Nat
  BY RpcAssumption DEF CP!QueueFacts, CP!TypeOK
<1> QED
  BY <1>1, <1>2, <1>3, <1>4, RpcAssumption DEF Take, WorkerType

\* The workers keep their types.
LEMMA WorkerTypeStep ==
  CP!QueueFacts /\ WorkerType /\ [Next]_vars => WorkerType'
<1> SUFFICES ASSUME CP!QueueFacts, WorkerType, [Next]_vars
             PROVE  WorkerType'
  OBVIOUS
<1>1. CASE UNCHANGED worker
  BY <1>1 DEF WorkerType
<1>2. ASSUME NEW w \in Workers, Work(w)
      PROVE  /\ worker' \in [Workers -> WorkerState]
             /\ worker'[w].pc \in {"run", "store"} <=> worker'[w].msg \in Calls
  <2>0. now \in Int /\ worker[w] \in WorkerState
    BY DEF CP!QueueFacts, CP!TypeOK, WorkerType
  <2>1. ASSUME NEW s \in WorkerState, worker' = [worker EXCEPT ![w] = s],
               s.pc \in {"run", "store"} <=> s.msg \in Calls
        PROVE  /\ worker' \in [Workers -> WorkerState]
               /\ worker'[w].pc \in {"run", "store"} <=> worker'[w].msg \in Calls
    BY <2>1 DEF WorkerType
  <2>2. CASE Take(w)
    <3> DEFINE s == [pc |-> "run", msg |-> cHeld["calls"],
                     time |-> cRead["calls"].ttl * Resolution,
                     start |-> now, back |-> 0]
    <3>1. cRead["calls"].ttl * Resolution \in Int /\ cHeld["calls"] \in Calls
      BY <2>2, TakeState
    <3>2. s \in WorkerState /\ s.pc = "run" /\ s.msg \in Calls
      BY <2>0, <3>1 DEF WorkerState
    <3>3. worker' = [worker EXCEPT ![w] = s]
      BY <2>2 DEF Take
    <3> HIDE DEF s
    <3> QED
      BY <2>1, <3>2, <3>3
  <2>3. CASE Return(w)
    <3> DEFINE s == [worker[w] EXCEPT !.pc = "store", !.time = Remain(w), !.back = now]
    <3>1. Remain(w) \in Int
      BY <2>0 DEF Remain, WorkerState
    <3>2. s \in WorkerState /\ s.pc = "store" /\ s.msg = worker[w].msg
      BY <2>0, <3>1 DEF WorkerState
    <3>3. worker' = [worker EXCEPT ![w] = s]
      BY <2>3 DEF Return, WorkerType
    <3>4. worker[w].msg \in Calls
      BY <2>3 DEF Return, WorkerType
    <3> HIDE DEF s
    <3> QED
      BY <2>1, <3>2, <3>3, <3>4
  <2>4. CASE Expire(w) \/ Store(w)
    <3>1. Idle \in WorkerState /\ Idle.pc = "idle" /\ Idle.msg \notin Calls
      BY RpcAssumption DEF Idle, WorkerState
    <3>2. worker' = [worker EXCEPT ![w] = Idle]
      BY <2>4 DEF Expire, Store
    <3> QED
      BY <2>1, <3>1, <3>2
  <2>5. CASE End(w)
    <3> DEFINE s == [worker[w] EXCEPT !.pc = "ended"]
    <3>1. s \in WorkerState /\ s.pc = "ended" /\ s.msg = worker[w].msg
      BY <2>0 DEF WorkerState
    <3>2. worker' = [worker EXCEPT ![w] = s]
      BY <2>5 DEF End, WorkerType
    <3>3. worker[w].msg \notin Calls
      BY <2>5 DEF End, WorkerType
    <3> HIDE DEF s
    <3> QED
      BY <2>1, <3>1, <3>2, <3>3
  <2> QED
    BY <1>2, <2>2, <2>3, <2>4, <2>5 DEF Work
<1>3. ASSUME NEW w \in Workers, Work(w),
             \A v \in Workers \ {w} : worker'[v] = worker[v]
      PROVE  WorkerType'
  BY <1>2, <1>3 DEF WorkerType
<1> QED
  BY <1>1, <1>3, WorkerMoves

\* The part of a step that the results queue sees.
LEMMA ResultsStep == WorkerType /\ [Next]_vars => [RP!Next]_(RP!vars)
<1> SUFFICES ASSUME WorkerType, [Next]_vars
             PROVE  RP!Next \/ UNCHANGED RP!vars
  OBVIOUS
<1>1. ASSUME NEW w \in Workers, Store(w)
      PROVE  RP!Next
  <2>1. worker[w].msg \in Calls /\ worker[w].time \in Int
    BY <1>1 DEF WorkerType, WorkerState, Store
  <2>2. \/ RP!Register("callee", worker[w].msg, worker[w].time)
        \/ RP!RegisterLost("callee", worker[w].msg, worker[w].time)
        \/ RP!RegisterFail(worker[w].msg)
    BY <1>1, ResultsSame DEF Store
  <2> QED
    BY <2>1, <2>2 DEF RP!Next
<1>2. CASE ResultsLoop \/ ResultsFault
  <2>1. RP!Loop("results") \/ RP!Fault("results")
    BY <1>2, ResultsSame
    DEF ResultsLoop, ResultsFault, R!Loop, R!Fault, RP!Loop, RP!Fault
  <2> QED
    BY <2>1 DEF RP!Next
<1>3. CASE CallsLoop \/ CallsFault
  <2>1. UNCHANGED <<now, resVars>>
    BY <1>3 DEF CallsLoop, CallsFault, C!Fault, C!Pop, C!PopLost,
                C!PopFail, C!CloseChan, C!Check, C!CheckFail, C!Break
  <2> QED
    BY <2>1 DEF resVars, RP!vars
<1>4. ASSUME NEW m \in Calls, NEW t \in Timeouts, Submit(m, t) \/ SubmitFail(m, t)
      PROVE  UNCHANGED RP!vars
  <2>1. UNCHANGED <<now, resVars>>
    BY <1>4 DEF Submit, SubmitFail, C!Register, C!RegisterLost, C!RegisterFail
  <2> QED
    BY <2>1 DEF resVars, RP!vars
<1>5. ASSUME NEW w \in Workers, Take(w) \/ Return(w) \/ Expire(w) \/ End(w)
      PROVE  UNCHANGED RP!vars
  <2>1. UNCHANGED <<now, resVars>>
    BY <1>5 DEF Take, Return, Expire, End, C!Send
  <2> QED
    BY <2>1 DEF resVars, RP!vars
<1>6. CASE Tick
  BY <1>6, ResultsSame DEF Tick, RP!Next
<1>7. CASE UNCHANGED vars
  BY <1>7 DEF vars, resVars, RP!vars
<1> QED
  BY <1>1, <1>2, <1>3, <1>4, <1>5, <1>6, <1>7 DEF Next, Work

\* The types of the workers are right.
LEMMA WorkersKnown == Spec => []WorkerType
<1>1. Init => WorkerType
  BY RpcAssumption DEF Init, WorkerType, WorkerState, Idle
<1> QED
  BY <1>1, WorkerTypeStep, CallsKnown, PTL DEF Spec

\* The results queue of a remote call is a RedisQueue, in which a result may
\* be registered with any time left.
THEOREM ResultsQueue == Spec => RP!Spec
<1>1. Init => RP!Init
  BY ResultsSame DEF Init
<1> QED
  BY <1>1, ResultsStep, WorkersKnown, PTL DEF Spec, RP!Spec

\* So what is known of such a queue is known of it.
LEMMA ResultsKnown == Spec => []RP!QueueFacts
BY ResultsQueue, ResultsAssumption, RP!QueueKnown, PTL

-----------------------------------------------------------------------------
(* The callee between the queues *)

\* The call of a worker has left the calls queue and its result is not yet
\* in the results queue, no two workers have the same call, and only calls
\* that workers got have results.
Handover ==
  /\ \A w \in Workers : worker[w].msg \in Calls =>
       CP!Delivered(worker[w].msg) /\ rReg[worker[w].msg] = "new"
  /\ \A v, w \in Workers :
       worker[v].msg \in Calls /\ worker[v].msg = worker[w].msg => v = w
  /\ \A m \in Calls : rReg[m] # "new" => CP!Delivered(m)

\* What is known of a remote call in every reachable state.
RpcFacts == CP!QueueFacts /\ RP!QueueFacts /\ WorkerType /\ Handover

\* A delivered call stays so.
LEMMA StaysDelivered ==
  ASSUME CP!QueueFacts, [Next]_vars, NEW i \in DOMAIN cChan["calls"]
  PROVE  i \in DOMAIN cChan'["calls"] /\ cChan'["calls"][i] = cChan["calls"][i]
<1>1. [CP!Next]_(CP!vars)
  BY CallsStep
<1>2. "calls" \in {"calls"}
  OBVIOUS
<1> QED
  BY <1>1, <1>2, CallsAssumption, CP!ChanGrows

\* Only Store changes what is registered in the results queue.
LEMMA OnlyStoreRegisters ==
  ASSUME RP!QueueFacts, WorkerType, [Next]_vars, NEW m \in Calls
  PROVE  \/ rReg'[m] = rReg[m]
         \/ \E w \in Workers : Store(w) /\ worker[w].msg = m
<1>1. ASSUME NEW w \in Workers, Store(w), worker[w].msg # m
      PROVE  rReg'[m] = rReg[m]
  <2>1. rReg \in [Calls -> {"new", "ok", "err"}]
    BY DEF RP!QueueFacts, RP!TypeOK
  <2> QED
    BY <1>1, <2>1 DEF Store, R!Register, R!RegisterLost, R!RegisterFail
<1>2. ASSUME NEW w \in Workers, Take(w) \/ Return(w) \/ Expire(w) \/ End(w)
      PROVE  rReg' = rReg
  BY <1>2 DEF Take, Return, Expire, End, resVars
<1>3. CASE ResultsLoop \/ ResultsFault
  BY <1>3 DEF ResultsLoop, ResultsFault, R!Loop, R!Fault, R!Pop, R!PopLost,
              R!PopFail, R!CloseChan, R!Check, R!CheckFail, R!Send, R!Break
<1>4. ASSUME \/ \E n \in Calls, t \in Timeouts : Submit(n, t) \/ SubmitFail(n, t)
             \/ CallsLoop \/ CallsFault \/ UNCHANGED vars
      PROVE  rReg' = rReg
  BY <1>4 DEF Submit, SubmitFail, CallsLoop, CallsFault, vars, resVars
<1>5. CASE Tick
  BY <1>5 DEF Tick, R!Tick
<1> QED
  BY <1>1, <1>2, <1>3, <1>4, <1>5 DEF Next, Work

\* What a call does when it is handed from one part to the next.
LEMMA HandoverStep ==
  RpcFacts /\ [Next]_vars => Handover'
<1> SUFFICES ASSUME RpcFacts, [Next]_vars
             PROVE  Handover'
  OBVIOUS
<1> USE DEF RpcFacts
<1>1. \A m \in Calls : CP!Delivered(m) => CP!Delivered(m)'
  <2>1. \A i \in DOMAIN cChan["calls"] :
          i \in DOMAIN cChan'["calls"] /\ cChan'["calls"][i] = cChan["calls"][i]
    BY StaysDelivered
  <2> QED
    BY <2>1 DEF CP!Delivered
<1>2. ASSUME NEW m \in Calls, rReg'[m] # "new"
      PROVE  CP!Delivered(m)'
  <2>1. CASE rReg'[m] = rReg[m]
    BY <1>1, <1>2, <2>1 DEF Handover
  <2>2. CASE \E w \in Workers : Store(w) /\ worker[w].msg = m
    BY <1>1, <1>2, <2>2 DEF Handover
  <2> QED
    BY <2>1, <2>2, OnlyStoreRegisters
<1>3. CASE UNCHANGED worker
  <2>1. ASSUME NEW w \in Workers, Store(w)
        PROVE  worker[w].msg \notin Calls
    <3>1. worker'[w].msg = NoMsg
      BY <2>1 DEF Store, WorkerType, Idle
    <3> QED
      BY <1>3, <3>1, RpcAssumption
  <2>2. \A m \in Calls : rReg'[m] = rReg[m]
    BY <2>1, OnlyStoreRegisters
  <2> QED
    BY <1>1, <1>2, <1>3, <2>2 DEF Handover
<1>4. ASSUME NEW w \in Workers, Work(w),
             \A v \in Workers \ {w} : worker'[v] = worker[v]
      PROVE  Handover'
  <2>1. ASSUME NEW m \in Calls, ~(Store(w) /\ worker[w].msg = m),
               \A v \in Workers \ {w} : ~(Store(v) /\ worker[v].msg = m)
        PROVE  rReg'[m] = rReg[m]
    BY <2>1, OnlyStoreRegisters
  <2>2. \A v \in Workers \ {w} : ~(Store(v) /\ worker[v].msg \in Calls)
    <3>1. ASSUME NEW v \in Workers \ {w}, Store(v), worker[v].msg \in Calls
          PROVE  FALSE
      <4>1. worker'[v].msg = NoMsg
        BY <3>1 DEF Store, WorkerType, Idle
      <4> QED
        BY <1>4, <3>1, <4>1, RpcAssumption
    <3> QED
      BY <3>1
  <2>3. CASE Take(w)
    <3>1. PICK m \in Calls : m = cHeld["calls"] /\ worker'[w].msg = m
      BY <2>3, TakeState
    <3>2. ~CP!Delivered(m) /\ CP!Delivered(m)'
      <4>1. CP!Send("calls") /\ "calls" \in {"calls"}
        BY <2>3, TakeState
      <4> QED
        BY <3>1, <4>1, CallsAssumption, CP!MoveSend
    <3>3. rReg' = rReg
      BY <2>3 DEF Take, resVars
    <3>4. rReg[m] = "new" /\ \A v \in Workers : worker[v].msg # m
      BY <3>2 DEF Handover
    <3> QED
      BY <1>1, <1>2, <1>4, <3>1, <3>2, <3>3, <3>4 DEF Handover
  <2>4. CASE Return(w) \/ End(w)
    <3>1. worker'[w].msg = worker[w].msg
      BY <2>4 DEF Return, End, WorkerType, WorkerState
    <3>2. rReg' = rReg
      BY <2>4 DEF Return, End, resVars
    <3> QED
      BY <1>1, <1>2, <1>4, <3>1, <3>2 DEF Handover
  <2>5. CASE Expire(w)
    <3>1. worker'[w].msg \notin Calls
      BY <2>5, RpcAssumption DEF Expire, WorkerType, Idle
    <3>2. rReg' = rReg
      BY <2>5 DEF Expire, resVars
    <3> QED
      BY <1>1, <1>2, <1>4, <3>1, <3>2 DEF Handover
  <2>6. CASE Store(w)
    <3>1. worker'[w].msg \notin Calls
      BY <2>6, RpcAssumption DEF Store, WorkerType, Idle
    <3>2. \A v \in Workers \ {w} : worker[v].msg \in Calls =>
            rReg'[worker[v].msg] = rReg[worker[v].msg]
      <4>1. worker[w].msg \in Calls
        BY <2>6 DEF Store, WorkerType
      <4>2. \A v \in Workers \ {w} : worker[v].msg # worker[w].msg
        BY <4>1 DEF Handover
      <4> QED
        BY <2>1, <2>2, <4>2
    <3> QED
      BY <1>1, <1>2, <1>4, <3>1, <3>2 DEF Handover
  <2> QED
    BY <1>4, <2>3, <2>4, <2>5, <2>6 DEF Work
<1> QED
  BY <1>3, <1>4, WorkerMoves

\* So it is known.
LEMMA RpcKnown == Spec => []RpcFacts
<1>1. Init => Handover
  BY RpcAssumption
  DEF Init, Handover, Idle, C!Init, R!Init
<1>2. CP!QueueFacts /\ RP!QueueFacts /\ WorkerType /\ Handover =>
        RpcFacts
  BY DEF RpcFacts
<1> QED
  BY <1>1, <1>2, HandoverStep, CallsKnown, ResultsKnown, WorkersKnown, PTL
  DEF Spec

-----------------------------------------------------------------------------
(* The time left of a call *)

\* A worker runs a Thunk with the time that was left of the call when it was
\* delivered, and stores the result only if the Thunk returned within it.
OnTime ==
  \A w \in Workers : worker[w].msg \in Calls =>
    \E i \in DOMAIN cChan["calls"] :
      /\ cChan["calls"][i].msg = worker[w].msg
      /\ worker[w].pc = "run" =>
           worker[w].time = cChan["calls"][i].ttl * Resolution
      /\ worker[w].pc = "store" =>
           worker[w].back < worker[w].start + cChan["calls"][i].ttl * Resolution

\* Every step keeps it so.
LEMMA OnTimeStep == RpcFacts /\ OnTime /\ [Next]_vars => OnTime'
<1> SUFFICES ASSUME RpcFacts, OnTime, [Next]_vars
             PROVE  OnTime'
  OBVIOUS
<1> USE DEF RpcFacts
<1>1. \A i \in DOMAIN cChan["calls"] :
        i \in DOMAIN cChan'["calls"] /\ cChan'["calls"][i] = cChan["calls"][i]
  BY StaysDelivered
<1>2. CASE UNCHANGED worker
  BY <1>1, <1>2 DEF OnTime
<1>3. ASSUME NEW w \in Workers, Work(w),
             \A v \in Workers \ {w} : worker'[v] = worker[v]
      PROVE  OnTime'
  <2> SUFFICES ASSUME worker'[w].msg \in Calls
               PROVE  \E i \in DOMAIN cChan'["calls"] :
                        /\ cChan'["calls"][i].msg = worker'[w].msg
                        /\ worker'[w].pc = "run" =>
                             worker'[w].time = cChan'["calls"][i].ttl * Resolution
                        /\ worker'[w].pc = "store" =>
                             worker'[w].back <
                               worker'[w].start + cChan'["calls"][i].ttl * Resolution
    BY <1>1, <1>3 DEF OnTime
  <2>1. CASE Take(w)
    <3>1. /\ CP!Send("calls") /\ "calls" \in {"calls"}
          /\ worker'[w] = [pc |-> "run", msg |-> cHeld["calls"],
                           time |-> cRead["calls"].ttl * Resolution,
                           start |-> now, back |-> 0]
      BY <2>1, TakeState
    <3>2. PICK k \in Nat :
            /\ DOMAIN cChan'["calls"] = 1..(k + 1)
            /\ cChan'["calls"][k + 1] = [msg |-> cHeld["calls"],
                                         at |-> cRead["calls"].at,
                                         ttl |-> cRead["calls"].ttl]
      BY <3>1, CallsAssumption, CP!SendChan DEF CP!QueueFacts
    <3>3. k + 1 \in DOMAIN cChan'["calls"]
      BY <3>2
    <3>4. /\ cChan'["calls"][k + 1].msg = cHeld["calls"]
          /\ cChan'["calls"][k + 1].ttl = cRead["calls"].ttl
      BY <3>2
    <3>5. /\ worker'[w].msg = cHeld["calls"]
          /\ worker'[w].time = cRead["calls"].ttl * Resolution
          /\ worker'[w].pc # "store"
      BY <3>1
    <3>6. /\ cChan'["calls"][k + 1].msg = worker'[w].msg
          /\ worker'[w].time = cChan'["calls"][k + 1].ttl * Resolution
      BY <3>4, <3>5, Zenon
    <3> QED
      BY <3>3, <3>5, <3>6, Zenon
  <2>2. CASE Return(w)
    <3>1. /\ worker'[w].msg = worker[w].msg /\ worker'[w].pc = "store"
          /\ worker'[w].start = worker[w].start /\ worker'[w].back = now
      BY <2>2 DEF Return, WorkerType, WorkerState
    <3>2. PICK i \in DOMAIN cChan["calls"] :
            /\ cChan["calls"][i].msg = worker[w].msg
            /\ worker[w].time = cChan["calls"][i].ttl * Resolution
      BY <2>2, <3>1 DEF OnTime, Return
    <3>3. worker[w].time - (now - worker[w].start) > 0
      BY <2>2 DEF Return, Remain
    <3>4. worker[w].time \in Int /\ now \in Int /\ worker[w].start \in Int
      BY DEF WorkerType, WorkerState, CP!QueueFacts, CP!TypeOK
    <3>5. now < worker[w].start + worker[w].time
      BY <3>3, <3>4
    <3> QED
      BY <1>1, <3>1, <3>2, <3>5
  <2>3. CASE Expire(w) \/ Store(w)
    BY <2>3, RpcAssumption DEF Expire, Store, WorkerType, Idle
  <2>4. CASE End(w)
    BY <2>4 DEF End, WorkerType, WorkerState
  <2> QED
    BY <1>3, <2>1, <2>2, <2>3, <2>4 DEF Work
<1> QED
  BY <1>2, <1>3, WorkerMoves

\* A callee never stores a result whose Thunk returned after the timeout of
\* the call, but for the time the call waited for a worker after its time to
\* live was read: the time spent in the queue and in the Thunk is counted.
THEOREM RpcStoredInTime == Spec => []StoredInTime
<1>1. Init => OnTime
  BY RpcAssumption DEF Init, OnTime, Idle
<1>2. RpcFacts /\ OnTime => StoredInTime
  <2> SUFFICES ASSUME RpcFacts, OnTime, NEW w \in Workers, worker[w].pc = "store"
               PROVE  ~Late(w, Waited(w))
    BY DEF StoredInTime
  <2> USE DEF RpcFacts
  <2> DEFINE q == cChan["calls"]
             m == worker[w].msg
             p == cPushed[m]
             d == CHOOSE e \in Range(q) : e.msg = m
  <2>1. m \in Calls
    BY DEF WorkerType
  <2>2. PICK i \in DOMAIN q :
          q[i].msg = m /\ worker[w].back < worker[w].start + q[i].ttl * Resolution
    BY <2>1 DEF OnTime
  <2>3. d = q[i]
    <3>1. d \in Range(q) /\ d.msg = m
      BY <2>2 DEF Range
    <3>2. PICK j \in DOMAIN q : d = q[j]
      BY <3>1 DEF Range
    <3>3. j = i
      BY <2>2, <3>1, <3>2 DEF CP!QueueFacts, CP!OrderInv, CP!AtMostOnce
    <3> QED
      BY <3>2, <3>3
  <2>4. /\ q[i].at \in Nat /\ q[i].ttl \in Nat
        /\ p.at \in Nat /\ p.ms \in Nat
        /\ Resolution \in Nat
        /\ worker[w].back \in Int /\ worker[w].start \in Int
    <3>1. q \in Seq(CP!Delivery) /\ p \in [no : Nat, at : Nat, ms : Nat]
      BY <2>1 DEF CP!QueueFacts, CP!TypeOK
    <3>2. q[i] \in CP!Delivery
      BY <3>1
    <3> QED
      BY <3>1, <3>2, RpcAssumption DEF CP!Delivery, WorkerType, WorkerState
  <2>5. q[i].at + q[i].ttl * Resolution < p.at + (p.ms + 1) * Resolution
    BY <2>2 DEF CP!QueueFacts, CP!TTLInv, CP!TTLWithinTimeout, CP!WithinTimeout
  <2>6. Waited(w) = worker[w].start - q[i].at
    BY <2>3 DEF Waited
  <2>7. q[i].ttl * Resolution \in Int /\ (p.ms + 1) * Resolution \in Int
    BY <2>4, SMTT(40)
  <2>8. worker[w].back < p.at + (p.ms + 1) * Resolution + (worker[w].start - q[i].at)
    BY <2>2, <2>4, <2>5, <2>7, SMTT(40)
  <2> QED
    BY <2>4, <2>6, <2>7, <2>8 DEF Late
<1> QED
  BY <1>1, <1>2, OnTimeStep, RpcKnown, PTL DEF Spec
=============================================================================
