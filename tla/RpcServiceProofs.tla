-------------------------- MODULE RpcServiceProofs --------------------------
(***************************************************************************)
(* A remote call implements CallService, for any number of calls and       *)
(* workers: every step of the two queues and of the callee moves at most   *)
(* one call, and to the phase that CallService says comes next.            *)
(***************************************************************************)
EXTENDS RpcProofs

\* Most leaves need no arithmetic: Zenon tries them before SMT does.
USE ZenonT(5), SMTT(10)

-----------------------------------------------------------------------------

\* The phases are told by the places of the call in the queues.
LEMMA Places ==
  ASSUME NEW m
  PROVE  /\ Answered(m) <=> RP!Delivered(m)
         /\ InResults(m) <=> RP!Queued(m)
         /\ InCalls(m) <=> CP!Queued(m)
         /\ Answered(m)' <=> RP!Delivered(m)'
         /\ InResults(m)' <=> RP!Queued(m)'
         /\ InCalls(m)' <=> CP!Queued(m)'
<1>1. Answered(m) <=> RP!Delivered(m)
  BY DEF Answered, RP!Delivered
<1>2. InResults(m) <=> RP!Queued(m)
  BY DEF InResults, RP!Queued, Range, RP!Range
<1>3. InCalls(m) <=> CP!Queued(m)
  BY DEF InCalls, CP!Queued, Range, CP!Range
<1>4. Answered(m)' <=> RP!Delivered(m)'
  BY DEF Answered, RP!Delivered
<1>5. InResults(m)' <=> RP!Queued(m)'
  BY DEF InResults, RP!Queued, Range, RP!Range
<1>6. InCalls(m)' <=> CP!Queued(m)'
  BY DEF InCalls, CP!Queued, Range, CP!Range
<1> QED
  BY <1>1, <1>2, <1>3, <1>4, <1>5, <1>6

\* The phases exclude each other: a call is in one part of the system.
OnePhase ==
  \A m \in Calls :
    /\ Answered(m) => PhaseOf(m) = "answered" /\ ~InResults(m) /\ ~AtWorker(m)
    /\ InResults(m) => PhaseOf(m) = "stored" /\ ~AtWorker(m)
    /\ AtWorker(m) => PhaseOf(m) = "running" /\ ~InCalls(m) /\ cReg[m] # "new"
    /\ InCalls(m) => PhaseOf(m) = "waiting" /\ cReg[m] # "new"
    /\ cReg[m] = "new" => PhaseOf(m) = "new"
    /\ ~Answered(m) /\ ~InResults(m) /\ ~AtWorker(m) /\ ~InCalls(m)
         /\ cReg[m] # "new" => PhaseOf(m) = "lost"

\* They do in every reachable state.
LEMMA Exclusive == RpcFacts => OnePhase
<1> SUFFICES ASSUME RpcFacts, NEW m \in Calls
             PROVE  /\ Answered(m) => PhaseOf(m) = "answered" /\ ~InResults(m) /\ ~AtWorker(m)
                    /\ InResults(m) => PhaseOf(m) = "stored" /\ ~AtWorker(m)
                    /\ AtWorker(m) => PhaseOf(m) = "running" /\ ~InCalls(m) /\ cReg[m] # "new"
                    /\ InCalls(m) => PhaseOf(m) = "waiting" /\ cReg[m] # "new"
                    /\ cReg[m] = "new" => PhaseOf(m) = "new"
                    /\ ~Answered(m) /\ ~InResults(m) /\ ~AtWorker(m) /\ ~InCalls(m)
                         /\ cReg[m] # "new" => PhaseOf(m) = "lost"
  BY DEF OnePhase
<1> USE DEF RpcFacts
<1>1. /\ CP!Delivered(m) => ~CP!Queued(m)
      /\ cReg[m] = "new" => ~CP!Queued(m) /\ ~CP!Delivered(m)
  BY CallsAssumption, CP!OnePlace
<1>2. /\ RP!Delivered(m) => ~RP!Queued(m)
      /\ rReg[m] = "new" => ~RP!Queued(m) /\ ~RP!Delivered(m)
  BY ResultsAssumption, RP!OnePlace
<1>3. /\ AtWorker(m) => CP!Delivered(m) /\ rReg[m] = "new"
      /\ rReg[m] # "new" => CP!Delivered(m)
  BY DEF AtWorker, Handover
<1> QED
  BY <1>1, <1>2, <1>3, Places DEF PhaseOf

\* A step that leaves all other calls where they are, as CallService has it.
LEMMA ServiceMove ==
  ASSUME NEW m \in Calls, NEW from, NEW to,
         PhaseOf(m) = from, PhaseOf(m)' = to,
         \A n \in Calls \ {m} : PhaseOf(n)' = PhaseOf(n)
  PROVE  Service!Move(m, from, to)
BY DEF Service!Move

\* A step that leaves all calls where they are.
LEMMA ServiceStutter ==
  ASSUME \A n \in Calls : PhaseOf(n)' = PhaseOf(n)
  PROVE  UNCHANGED [n \in Calls |-> PhaseOf(n)]
OBVIOUS

\* What does not move keeps its phase.
LEMMA SamePhase ==
  ASSUME NEW n,
         Answered(n)' <=> Answered(n), InResults(n)' <=> InResults(n),
         AtWorker(n)' <=> AtWorker(n), InCalls(n)' <=> InCalls(n),
         cReg'[n] = "new" <=> cReg[n] = "new"
  PROVE  PhaseOf(n)' = PhaseOf(n)
BY DEF PhaseOf

\* What a step that leaves a part alone says of the calls in that part.
LEMMA Frame ==
  ASSUME NEW n
  PROVE  /\ UNCHANGED resVars =>
              (Answered(n)' <=> Answered(n)) /\ (InResults(n)' <=> InResults(n))
         /\ UNCHANGED worker => (AtWorker(n)' <=> AtWorker(n))
         /\ UNCHANGED callVars => (InCalls(n)' <=> InCalls(n)) /\ cReg'[n] = cReg[n]
BY DEF resVars, callVars, Answered, InResults, AtWorker, InCalls

\* A call may be lost before it is answered.
LEMMA ServiceLose ==
  ASSUME NEW m \in Calls, PhaseOf(m) \in {"new", "waiting", "running", "stored"},
         PhaseOf(m)' = "lost", \A n \in Calls \ {m} : PhaseOf(n)' = PhaseOf(n)
  PROVE  Service!Next
<1>1. Service!Move(m, PhaseOf(m), "lost")
  BY ServiceMove
<1> QED
  BY <1>1 DEF Service!Next, Service!Lose

\* The steps of CallService and its stuttering steps.
ServiceStep == Service!Next \/ UNCHANGED [m \in Calls |-> PhaseOf(m)]

\* The server registers a call: it waits, or is lost at once.
LEMMA RefineSubmit ==
  ASSUME RpcFacts, OnePhase, OnePhase', NEW m \in Calls, NEW t \in Timeouts,
         Submit(m, t) \/ SubmitFail(m, t)
  PROVE  ServiceStep
<1> USE DEF RpcFacts
<1>1. UNCHANGED <<resVars, worker>>
  BY DEF Submit, SubmitFail
<1>2. /\ cReg[m] = "new" /\ cReg'[m] # "new"
      /\ \A n \in Calls \ {m} : cReg'[n] = cReg[n]
  <2>1. cReg \in [Calls -> {"new", "ok", "err"}]
    BY DEF CP!QueueFacts, CP!TypeOK
  <2> QED
    BY <2>1 DEF Submit, SubmitFail, C!Register, C!RegisterLost, C!RegisterFail
<1>3. \A n \in Calls \ {m} : InCalls(n)' <=> InCalls(n)
  <2>1. CASE CP!Script("server", m, t) /\ UNCHANGED <<cHeld, cChan>>
    <3>1. \A q \in {"server"} :
            [p \in {"server"} |-> CallCap]["server"] = [p \in {"server"} |-> CallCap][q]
      OBVIOUS
    <3>2. \A n \in Calls : n # m => (CP!Queued(n)' <=> CP!Queued(n))
      BY <2>1, <3>1, CallsAssumption, CP!MoveRegister
    <3> QED
      BY <3>2, Places
  <2>2. CASE C!RegisterFail(m)
    BY <2>2 DEF C!RegisterFail, C!redisVars, C!loopVars, InCalls
  <2>3. \/ C!Script("server", m, t) /\ UNCHANGED <<cHeld, cChan>>
        \/ C!RegisterFail(m)
    BY DEF Submit, SubmitFail, C!Register, C!RegisterLost, C!loopVars
  <2> QED
    BY <2>1, <2>2, <2>3, CallsSame
<1>4. \A n \in Calls \ {m} : PhaseOf(n)' = PhaseOf(n)
  BY <1>1, <1>2, <1>3, Frame, SamePhase
<1>5. /\ PhaseOf(m) = "new"
      /\ ~Answered(m)' /\ ~InResults(m)' /\ ~AtWorker(m)'
  <2>1. PhaseOf(m) = "new" /\ ~Answered(m) /\ ~InResults(m) /\ ~AtWorker(m)
    BY <1>2 DEF OnePhase
  <2> QED
    BY <1>1, <2>1, Frame
<1>6. CASE InCalls(m)'
  <2>1. PhaseOf(m)' = "waiting"
    BY <1>6 DEF OnePhase
  <2>2. Service!Move(m, "new", "waiting")
    BY <1>4, <1>5, <2>1, ServiceMove
  <2> QED
    BY <2>2 DEF ServiceStep, Service!Next, Service!Submit
<1>7. CASE ~InCalls(m)'
  <2>1. PhaseOf(m)' = "lost"
    BY <1>2, <1>5, <1>7 DEF OnePhase
  <2> QED
    BY <1>4, <1>5, <2>1, ServiceLose DEF ServiceStep
<1> QED
  BY <1>6, <1>7

\* A call leaves the calls queue without being delivered: it is lost.
LEMMA LoseWaiting ==
  ASSUME RpcFacts, OnePhase, OnePhase', UNCHANGED <<resVars, worker, cReg>>,
         NEW m \in Calls, CP!Queued(m), ~CP!Queued(m)',
         \A n \in Calls \ {m} : CP!Queued(n)' <=> CP!Queued(n)
  PROVE  ServiceStep
<1>1. \A n \in Calls \ {m} : PhaseOf(n)' = PhaseOf(n)
  BY Frame, Places, SamePhase
<1>2. /\ PhaseOf(m) = "waiting" /\ cReg'[m] # "new"
      /\ ~Answered(m) /\ ~InResults(m) /\ ~AtWorker(m)
  BY Places DEF OnePhase
<1>3. PhaseOf(m)' = "lost"
  BY <1>2, Frame, Places DEF OnePhase
<1> QED
  BY <1>1, <1>2, <1>3, ServiceLose DEF ServiceStep

\* The loop over the calls queue moves no call, except that it may lose the
\* one it holds or pops.
LEMMA RefineCalls ==
  ASSUME RpcFacts, OnePhase, OnePhase', CallsLoop \/ CallsFault
  PROVE  ServiceStep
<1> USE DEF RpcFacts
<1>1. UNCHANGED <<resVars, worker>> /\ "calls" \in {"calls"}
  BY DEF CallsLoop, CallsFault
<1>2. UNCHANGED cReg
  BY DEF CallsLoop, CallsFault, C!Fault, C!Pop, C!PopLost, C!PopFail,
         C!CloseChan, C!Check, C!CheckFail, C!Break
<1>3. \/ CP!Pop("calls") \/ CP!PopLost("calls") \/ CP!PopFail("calls")
      \/ CP!CloseChan("calls") \/ CP!Check("calls") \/ CP!CheckFail("calls")
      \/ CP!Break("calls")
  BY CallsSame DEF CallsLoop, CallsFault, C!Fault
<1>4. ASSUME \A n \in Calls : CP!Queued(n)' <=> CP!Queued(n)
      PROVE  ServiceStep
  <2>1. \A n \in Calls : PhaseOf(n)' = PhaseOf(n)
    BY <1>1, <1>2, <1>4, Frame, Places, SamePhase
  <2> QED
    BY <2>1, ServiceStutter DEF ServiceStep
<1>5. CASE CP!Pop("calls") \/ CP!PopLost("calls")
  <2>1. PICK m \in Calls :
          /\ CP!Queued(m)
          /\ CP!Pop("calls") => CP!Queued(m)'
          /\ CP!PopLost("calls") => ~CP!Queued(m)'
          /\ \A n \in Calls \ {m} : CP!Queued(n)' <=> CP!Queued(n)
    BY <1>1, <1>5, CallsAssumption, CP!MovePop
  <2>2. CASE CP!Pop("calls")
    BY <1>4, <2>1, <2>2
  <2>3. CASE CP!PopLost("calls")
    BY <1>1, <1>2, <2>1, <2>3, LoseWaiting
  <2> QED
    BY <1>5, <2>2, <2>3
<1>6. ASSUME cHeld["calls"] \in Calls,
             cHeld' = [cHeld EXCEPT !["calls"] = NoMsg], UNCHANGED <<cList, cChan>>
      PROVE  ServiceStep
  <2>1. /\ CP!Queued(cHeld["calls"])
        /\ \A m \in Calls : m = cHeld["calls"] => ~CP!Queued(m)'
        /\ \A n \in Calls \ {cHeld["calls"]} : CP!Queued(n)' <=> CP!Queued(n)
    BY <1>1, <1>6, CallsAssumption, CP!MoveDrop
  <2>2. PICK m \in Calls : m = cHeld["calls"]
    BY <1>6
  <2> QED
    BY <1>1, <1>2, <2>1, <2>2, LoseWaiting
<1>7. ASSUME UNCHANGED <<cList, cHeld, cChan>>
      PROVE  ServiceStep
  <2>1. \A n \in Calls : CP!Queued(n)' <=> CP!Queued(n)
    BY <1>7, CallsAssumption, CP!MoveNothing
  <2> QED
    BY <1>4, <2>1
<1>8. ASSUME CP!Check("calls") \/ CP!CheckFail("calls")
      PROVE  /\ cHeld["calls"] \in Calls /\ UNCHANGED <<cList, cChan>>
             /\ \/ cHeld' = cHeld
                \/ cHeld' = [cHeld EXCEPT !["calls"] = NoMsg]
  <2>1. cHeld["calls"] \in Calls
    BY <1>8 DEF CP!QueueFacts, CP!HoldsMsg, CP!Check, CP!CheckFail
  <2> QED
    BY <1>8, <2>1 DEF CP!Check, CP!CheckFail
<1>9. CASE CP!Check("calls") \/ CP!CheckFail("calls")
  BY <1>6, <1>7, <1>8, <1>9
<1>10. CASE CP!PopFail("calls") \/ CP!CloseChan("calls") \/ CP!Break("calls")
  BY <1>7, <1>10 DEF CP!PopFail, CP!CloseChan, CP!Break, CP!redisVars
<1> QED
  BY <1>3, <1>5, <1>9, <1>10

\* A result leaves the results queue: its call is answered if it was
\* delivered, and lost if not.
LEMMA LeaveResults ==
  ASSUME RpcFacts, OnePhase, OnePhase', UNCHANGED <<callVars, worker>>,
         NEW m \in Calls, RP!Queued(m), ~RP!Queued(m)',
         \A n \in Calls \ {m} : /\ RP!Queued(n)' <=> RP!Queued(n)
                                /\ RP!Delivered(n)' <=> RP!Delivered(n)
  PROVE  ServiceStep
<1>1. \A n \in Calls \ {m} : PhaseOf(n)' = PhaseOf(n)
  BY Frame, Places, SamePhase
<1>2. PhaseOf(m) = "stored" /\ ~AtWorker(m) /\ ~InCalls(m) /\ cReg[m] # "new"
  <2>1. PhaseOf(m) = "stored" /\ ~AtWorker(m)
    BY Places DEF OnePhase
  <2> QED
    BY <2>1 DEF OnePhase
<1>3. CASE RP!Delivered(m)'
  <2>1. PhaseOf(m)' = "answered"
    BY <1>3, Places DEF OnePhase
  <2>2. Service!Move(m, "stored", "answered")
    BY <1>1, <1>2, <2>1, ServiceMove
  <2> QED
    BY <2>2 DEF ServiceStep, Service!Next, Service!Answer
<1>4. CASE ~RP!Delivered(m)'
  <2>1. PhaseOf(m)' = "lost"
    BY <1>2, <1>4, Frame, Places DEF OnePhase
  <2> QED
    BY <1>1, <1>2, <2>1, ServiceLose DEF ServiceStep
<1> QED
  BY <1>3, <1>4

\* The loop over the results queue answers calls or loses them.
LEMMA RefineResults ==
  ASSUME RpcFacts, OnePhase, OnePhase', ResultsLoop \/ ResultsFault
  PROVE  ServiceStep
<1> USE DEF RpcFacts
<1>1. UNCHANGED <<callVars, worker>> /\ "results" \in {"results"}
  BY DEF ResultsLoop, ResultsFault
<1>2. \/ RP!Pop("results") \/ RP!PopLost("results") \/ RP!PopFail("results")
      \/ RP!CloseChan("results") \/ RP!Check("results") \/ RP!CheckFail("results")
      \/ RP!Send("results") \/ RP!Break("results")
  BY ResultsSame DEF ResultsLoop, ResultsFault, R!Loop, R!Fault
<1>3. ASSUME \A n \in Calls : /\ RP!Queued(n)' <=> RP!Queued(n)
                              /\ RP!Delivered(n)' <=> RP!Delivered(n)
      PROVE  ServiceStep
  <2>1. \A n \in Calls : PhaseOf(n)' = PhaseOf(n)
    BY <1>1, <1>3, Frame, Places, SamePhase
  <2> QED
    BY <2>1, ServiceStutter DEF ServiceStep
<1>4. CASE RP!Pop("results") \/ RP!PopLost("results")
  <2>1. PICK m \in Calls :
          /\ RP!Queued(m)
          /\ RP!Pop("results") => RP!Queued(m)'
          /\ RP!PopLost("results") => ~RP!Queued(m)'
          /\ \A n \in Calls : RP!Delivered(n)' <=> RP!Delivered(n)
          /\ \A n \in Calls \ {m} : RP!Queued(n)' <=> RP!Queued(n)
    BY <1>1, <1>4, ResultsAssumption, RP!MovePop
  <2>2. CASE RP!Pop("results")
    BY <1>3, <2>1, <2>2
  <2>3. CASE RP!PopLost("results")
    BY <1>1, <2>1, <2>3, LeaveResults
  <2> QED
    BY <1>4, <2>2, <2>3
<1>5. ASSUME rHeld["results"] \in Calls,
             rHeld' = [rHeld EXCEPT !["results"] = NoMsg], UNCHANGED <<rList, rChan>>
      PROVE  ServiceStep
  <2>1. /\ RP!Queued(rHeld["results"])
        /\ \A m \in Calls : m = rHeld["results"] => ~RP!Queued(m)'
        /\ \A n \in Calls : RP!Delivered(n)' <=> RP!Delivered(n)
        /\ \A n \in Calls \ {rHeld["results"]} : RP!Queued(n)' <=> RP!Queued(n)
    BY <1>1, <1>5, ResultsAssumption, RP!MoveDrop
  <2>2. PICK m \in Calls : m = rHeld["results"]
    BY <1>5
  <2> QED
    BY <1>1, <2>1, <2>2, LeaveResults
<1>6. ASSUME UNCHANGED <<rList, rHeld, rChan>>
      PROVE  ServiceStep
  <2>1. \A n \in Calls : /\ RP!Queued(n)' <=> RP!Queued(n)
                         /\ RP!Delivered(n)' <=> RP!Delivered(n)
    BY <1>6, ResultsAssumption, RP!MoveNothing
  <2> QED
    BY <1>3, <2>1
<1>7. CASE RP!Send("results")
  <2>1. /\ rHeld["results"] \in Calls
        /\ RP!Queued(rHeld["results"])
        /\ \A m \in Calls : m = rHeld["results"] => ~RP!Queued(m)'
        /\ \A n \in Calls \ {rHeld["results"]} : /\ RP!Delivered(n)' <=> RP!Delivered(n)
                                                 /\ RP!Queued(n)' <=> RP!Queued(n)
    BY <1>1, <1>7, ResultsAssumption, RP!MoveSend
  <2>2. PICK m \in Calls : m = rHeld["results"]
    BY <2>1
  <2> QED
    BY <1>1, <2>1, <2>2, LeaveResults
<1>8. ASSUME RP!Check("results") \/ RP!CheckFail("results")
      PROVE  /\ rHeld["results"] \in Calls /\ UNCHANGED <<rList, rChan>>
             /\ \/ rHeld' = rHeld
                \/ rHeld' = [rHeld EXCEPT !["results"] = NoMsg]
  <2>1. rHeld["results"] \in Calls
    BY <1>8 DEF RP!QueueFacts, RP!HoldsMsg, RP!Check, RP!CheckFail
  <2> QED
    BY <1>8, <2>1 DEF RP!Check, RP!CheckFail
<1>9. CASE RP!Check("results") \/ RP!CheckFail("results")
  BY <1>5, <1>6, <1>8, <1>9
<1>10. CASE RP!PopFail("results") \/ RP!CloseChan("results") \/ RP!Break("results")
  BY <1>6, <1>10 DEF RP!PopFail, RP!CloseChan, RP!Break, RP!redisVars
<1> QED
  BY <1>2, <1>4, <1>7, <1>9, <1>10

\* A worker takes a call that waits.
LEMMA RefineTake ==
  ASSUME RpcFacts, OnePhase, OnePhase', NEW w \in Workers, Take(w),
         \A v \in Workers \ {w} : worker'[v] = worker[v]
  PROVE  ServiceStep
<1> USE DEF RpcFacts
<1>1. UNCHANGED <<resVars, cReg>>
  BY DEF Take, C!Send
<1>2. PICK m \in Calls : m = cHeld["calls"] /\ worker'[w].msg = m
  BY TakeState
<1>3. /\ CP!Queued(m)
      /\ \A n \in Calls \ {m} : CP!Queued(n)' <=> CP!Queued(n)
  <2>1. CP!Send("calls") /\ "calls" \in {"calls"}
    BY TakeState
  <2> QED
    BY <1>2, <2>1, CallsAssumption, CP!MoveSend
<1>4. worker[w].msg \notin Calls
  BY DEF Take, WorkerType
<1>5. AtWorker(m)' /\ \A n \in Calls \ {m} : AtWorker(n)' <=> AtWorker(n)
  BY <1>2, <1>4 DEF AtWorker
<1>6. PhaseOf(m) = "waiting" /\ PhaseOf(m)' = "running"
  BY <1>3, <1>5, Places DEF OnePhase
<1>7. \A n \in Calls \ {m} : PhaseOf(n)' = PhaseOf(n)
  BY <1>1, <1>3, <1>5, Frame, Places, SamePhase
<1>8. Service!Move(m, "waiting", "running")
  BY <1>6, <1>7, ServiceMove
<1> QED
  BY <1>8 DEF ServiceStep, Service!Next, Service!Start

\* A worker lets go of its call: the result is stored or the call is lost.
LEMMA RefineLeave ==
  ASSUME RpcFacts, OnePhase, OnePhase', NEW w \in Workers,
         Expire(w) \/ Store(w), \A v \in Workers \ {w} : worker'[v] = worker[v]
  PROVE  ServiceStep
<1> USE DEF RpcFacts
<1>1. UNCHANGED callVars
  BY DEF Expire, Store
<1>2. PICK m \in Calls : worker[w].msg = m
  BY DEF Expire, Store, WorkerType
<1>3. worker'[w].msg \notin Calls
  <2>1. worker' = [worker EXCEPT ![w] = Idle] /\ w \in DOMAIN worker
    BY DEF Expire, Store, WorkerType
  <2>2. worker'[w].msg = NoMsg
    BY <2>1 DEF Idle
  <2> QED
    BY <2>2, RpcAssumption
<1>4. AtWorker(m) /\ ~AtWorker(m)'
  BY <1>2, <1>3 DEF AtWorker, Handover
<1>5. \A n \in Calls \ {m} : AtWorker(n)' <=> AtWorker(n)
  BY <1>2, <1>3 DEF AtWorker
<1>6. /\ \A n \in Calls \ {m} : RP!Queued(n)' <=> RP!Queued(n)
      /\ \A n \in Calls : RP!Delivered(n)' <=> RP!Delivered(n)
  <2>1. CASE RP!Script("callee", m, worker[w].time) /\ UNCHANGED <<rHeld, rChan>>
    <3>1. \A q \in {"callee"} :
            [p \in {"callee"} |-> ResultCap]["callee"] = [p \in {"callee"} |-> ResultCap][q]
      OBVIOUS
    <3>2. worker[w].time \in Int
      BY DEF WorkerType, WorkerState
    <3>3. \A n \in Calls : /\ RP!Delivered(n)' <=> RP!Delivered(n)
                           /\ n # m => (RP!Queued(n)' <=> RP!Queued(n))
      BY <2>1, <3>1, <3>2, ResultsAssumption, RP!MoveRegister
    <3> QED
      BY <3>3
  <2>2. CASE UNCHANGED <<rList, rHeld, rChan>>
    BY <2>2, ResultsAssumption, RP!MoveNothing
  <2>3. \/ R!Script("callee", m, worker[w].time) /\ UNCHANGED <<rHeld, rChan>>
        \/ UNCHANGED <<rList, rHeld, rChan>>
    BY <1>2 DEF Expire, Store, R!Register, R!RegisterLost, R!RegisterFail,
                R!loopVars, R!redisVars, resVars
  <2> QED
    BY <2>1, <2>2, <2>3, ResultsSame
<1>7. \A n \in Calls \ {m} : PhaseOf(n)' = PhaseOf(n)
  BY <1>1, <1>5, <1>6, Frame, Places, SamePhase
<1>8. /\ PhaseOf(m) = "running" /\ ~InCalls(m) /\ cReg[m] # "new"
      /\ ~Answered(m)
  BY <1>4 DEF OnePhase
<1>9. ~Answered(m)' /\ ~InCalls(m)' /\ cReg'[m] # "new"
  BY <1>1, <1>6, <1>8, Frame, Places
<1>10. CASE InResults(m)'
  <2>1. PhaseOf(m)' = "stored"
    BY <1>10 DEF OnePhase
  <2>2. Service!Move(m, "running", "stored")
    BY <1>7, <1>8, <2>1, ServiceMove
  <2> QED
    BY <2>2 DEF ServiceStep, Service!Next, Service!Store
<1>11. CASE ~InResults(m)'
  <2>1. PhaseOf(m)' = "lost"
    BY <1>4, <1>9, <1>11 DEF OnePhase
  <2> QED
    BY <1>7, <1>8, <2>1, ServiceLose DEF ServiceStep
<1> QED
  BY <1>10, <1>11

\* A worker that returns from its Thunk, or ends, keeps its call.
LEMMA KeepsCall ==
  ASSUME WorkerType, NEW w \in Workers, Return(w) \/ End(w)
  PROVE  \A v \in Workers : worker'[v].msg = worker[v].msg
<1>1. worker \in [Workers -> WorkerState] /\ worker[w] \in WorkerState
  BY DEF WorkerType
<1>2. \A v \in Workers \ {w} : worker'[v] = worker[v]
  BY <1>1 DEF Return, End
<1>3. worker'[w].msg = worker[w].msg
  BY <1>1 DEF Return, End, WorkerState
<1> QED
  BY <1>2, <1>3

\* Then no call moves, nor does it when time passes.
LEMMA RefineQuiet ==
  ASSUME WorkerType, \/ \E w \in Workers : Return(w) \/ End(w)
                     \/ Tick \/ UNCHANGED vars
  PROVE  ServiceStep
<1>1. \A n \in Calls : AtWorker(n)' <=> AtWorker(n)
  <2>1. CASE \A v \in Workers : worker'[v].msg = worker[v].msg
    BY <2>1 DEF AtWorker
  <2>2. CASE Tick \/ UNCHANGED vars
    BY <2>2 DEF AtWorker, Tick, vars
  <2> QED
    BY <2>1, <2>2, KeepsCall
<1>2. UNCHANGED <<resVars, callVars>>
  BY DEF Return, End, Tick, vars, C!Tick, R!Tick, C!redisVars, C!loopVars,
         C!historyVars, R!redisVars, R!loopVars, R!historyVars, resVars, callVars
<1>3. \A n \in Calls : PhaseOf(n)' = PhaseOf(n)
  BY <1>1, <1>2, Frame, SamePhase
<1> QED
  BY <1>3, ServiceStutter DEF ServiceStep

\* The two queues of the broker and the callee implement CallService: a call
\* is handed to one worker at most, its result is stored at most once and
\* sent to the caller at most once, in that order, and a call that is lost
\* does not come back, whatever connections fail, queues overflow or calls
\* expire on the way.
THEOREM RpcImplementsService == Spec => ImplementsService
<1>1. Init => Service!Init
  <2> SUFFICES ASSUME Init
               PROVE  \A m \in Calls : PhaseOf(m) = "new"
    BY DEF Service!Init
  <2> QED
    BY RpcAssumption
    DEF Init, C!Init, R!Init, Idle, PhaseOf, Answered, InResults, AtWorker,
        InCalls, Range
<1>2. ASSUME RpcFacts, OnePhase, OnePhase', [Next]_vars
      PROVE  ServiceStep
  <2>1. ASSUME NEW w \in Workers, Work(w)
        PROVE  \A v \in Workers \ {w} : worker'[v] = worker[v]
    BY <1>2, <2>1
    DEF RpcFacts, Work, Take, Return, Expire, Store, End, WorkerType
  <2> QED
    BY <1>2, <2>1, RefineSubmit, RefineCalls, RefineResults, RefineTake,
       RefineLeave, RefineQuiet
    DEF Next, Work, RpcFacts
<1>3. RpcFacts /\ OnePhase /\ OnePhase' /\ [Next]_vars =>
        [Service!Next]_[m \in Calls |-> PhaseOf(m)]
  BY <1>2 DEF ServiceStep
<1> QED
  BY <1>1, <1>3, Exclusive, RpcKnown, PTL DEF Spec, ImplementsService, Service!Spec

=============================================================================
