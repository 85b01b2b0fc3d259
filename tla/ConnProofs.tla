----------------------------- MODULE ConnProofs -----------------------------
(***************************************************************************)
(* Proofs about a connection of the juggler server, for any number of      *)
(* application goroutines, any number of messages and any options.         *)
(***************************************************************************)
EXTENDS Conn, SequenceTheorems, TLAPS

\* A goroutine that has taken the write lock and not given it back.
Holds(t) == pc[t] \in {"writer", "write", "release"}

\* The write lock is a token that at most one goroutine holds.
LockInv ==
  /\ \A t \in Threads : Holds(t) => wmu = 0
  /\ \A t, u \in Threads : Holds(t) /\ Holds(u) => t = u

\* ServeConn starts the goroutines once, after the broker connections exist.
ServeInv ==
  /\ serve \in {"start", "results", "pubSub"} =>
       once = "new" /\ states = <<>> /\ \A t \in Threads : pc[t] = "none"
  /\ serve = "serving" => states = <<"Connected">>
  /\ serve = "returned" =>
       \/ states = <<"Connected", "Closing">> /\ once = "done"
       \/ states = <<>> /\ \A t \in Threads : pc[t] = "none"

\* closeOnce: one goroutine runs the function, the steps of which are taken
\* in order.
CloseInv ==
  /\ once = "new" <=> closeErr = <<>>
  /\ kill = IF once = "done" THEN 1 ELSE 0
  /\ \A t \in Threads : pc[t] = "closing" => once \in {"psc", "resc", "kill"}
  /\ \A t, u \in Threads : pc[t] = "closing" /\ pc[u] = "closing" => t = u
  /\ once \in {"resc", "kill", "done"} => broker["pubSub"] = "closed"
  /\ once \in {"kill", "done"} => broker["results"] = "closed"
  /\ \A t \in Threads : pc[t] = "ended" => once = "done"

\* A goroutine that is in Close has a reason.
ReasonInv ==
  \A t \in Threads : pc[t] \in {"close", "closing"} => why[t] \in Reasons

Inv == TypeOK /\ ReasonInv /\ LockInv /\ ServeInv /\ CloseInv

-----------------------------------------------------------------------------
\* The sets of goroutines, for the provers.
LEMMA ThreadNames ==
  /\ "results" \in Streams /\ "pubSub" \in Streams
  /\ "results" \in Threads /\ "pubSub" \in Threads /\ "receive" \in Threads
  /\ Streams \subseteq Threads /\ App \subseteq Threads
  BY DEF Streams, Loops, Threads

\* Append makes a sequence longer by one.
LEMMA AppendLen ==
  ASSUME NEW S, NEW a \in Seq(S), NEW y \in S
  PROVE  Len(Append(a, y)) = Len(a) + 1
  BY AppendProperties

\* Sequences of two elements are equal when their elements are.
LEMMA SeqTwo ==
  ASSUME NEW S, NEW c \in Seq(S), NEW b \in Seq(S),
         Len(c) = 2, Len(b) = 2, c[1] = b[1], c[2] = b[2]
  PROVE  c = b
<1>1. \A i \in 1..2 : i = 1 \/ i = 2
  OBVIOUS
<1>2. \A i \in 1..Len(c) : c[i] = b[i]
  BY <1>1
<1> QED
  BY <1>2, SeqEqual

\* Appending to a sequence of one element.
LEMMA AppendToOne ==
  ASSUME NEW S, NEW y \in S, NEW a \in Seq(S), NEW b \in Seq(S),
         Len(a) = 1, Len(b) = 2, b[1] = a[1], b[2] = y
  PROVE  Append(a, y) = b
<1> DEFINE c == Append(a, y)
<1>1. c \in Seq(S)
  OBVIOUS
<1>4. Len(c) = Len(a) + 1
  BY AppendLen, Zenon
<1>2. c[2] = y /\ c[1] = a[1]
  OBVIOUS
<1> HIDE DEF c
<1>5. Len(c) = 2
  BY <1>4
<1>6. c = b
  BY <1>1, <1>5, <1>2, SeqTwo
<1> QED
  BY <1>6 DEF c

\* The sequences of states, for the provers.
LEMMA StateSeqs ==
  /\ <<>> \in Seq({"Connected", "Closing"})
  /\ Append(<<"Connected">>, "Closing") = <<"Connected", "Closing">>
  /\ <<"Connected">> # <<>> /\ <<"Connected", "Closing">> # <<>>
<1>1. <<>> \in Seq({"Connected", "Closing"})
  OBVIOUS
<1>2. Append(<<"Connected">>, "Closing") = <<"Connected", "Closing">>
  <2> DEFINE S == {"Connected", "Closing"}
             a == <<"Connected">>
             b == <<"Connected", "Closing">>
  <2>1. "Closing" \in S /\ a \in Seq(S) /\ b \in Seq(S)
    OBVIOUS
  <2>2. Len(a) = 1 /\ Len(b) = 2 /\ b[1] = a[1] /\ b[2] = "Closing"
    OBVIOUS
  <2> HIDE DEF S, a, b
  <2>3. Append(a, "Closing") = b
    BY <2>1, <2>2, AppendToOne, Zenon
  <2> QED
    BY <2>3 DEF a, b
<1>3. <<"Connected">> # <<>> /\ <<"Connected", "Closing">> # <<>>
  OBVIOUS
<1> QED
  BY <1>1, <1>2, <1>3

\* Every step keeps the types.
LEMMA TypeStep ==
  ASSUME TypeOK, ReasonInv, [Next]_vars
  PROVE  (TypeOK /\ ReasonInv)'
<1> USE ConnAssumption, ThreadNames DEF TypeOK, ReasonInv, MsgTypes, Reasons, connVars, netVars, threadVars
<1>1. CASE ServeOpen("results", "start") \/ ServeOpen("pubSub", "results")
  <2>1. broker' \in [Streams -> {"none", "open", "broken", "closed"}]
    BY <1>1 DEF ServeOpen
  <2>2. serve' \in {"results", "pubSub"}
    BY <1>1 DEF ServeOpen
  <2> QED
    BY <1>1, <2>1, <2>2 DEF ServeOpen, serveRest
<1>2. CASE ServeFail
  BY <1>2 DEF ServeFail, serveRest
<1>3. CASE ServeStart
  BY <1>3 DEF ServeStart, serveRest
<1>4. CASE ServeReturn
  BY <1>4 DEF ServeReturn, serveRest
<1>5. CASE CloseWS \/ PeerGone
  BY <1>5 DEF CloseWS, PeerGone
<1>6. ASSUME NEW s \in Streams, BrokerRead(s)
      PROVE  (TypeOK /\ ReasonInv)'
  BY <1>6 DEF BrokerRead
<1>7. ASSUME NEW s \in Streams, BrokerBreak(s)
      PROVE  (TypeOK /\ ReasonInv)'
  BY <1>7 DEF BrokerBreak
<1>8. ASSUME NEW s \in Streams, StreamMsg(s)
      PROVE  (TypeOK /\ ReasonInv)'
  BY <1>8 DEF StreamMsg, Go
<1>9. ASSUME NEW s \in Streams, StreamEnd(s)
      PROVE  (TypeOK /\ ReasonInv)'
  BY <1>9 DEF StreamEnd, CallClose, Go
<1>10. CASE Receive
  BY <1>10 DEF Receive, Go
<1>11. CASE ReceiveFail
  BY <1>11 DEF ReceiveFail, CallClose, Go
<1>12. ASSUME Process
      PROVE  (TypeOK /\ ReasonInv)'
  BY <1>12 DEF Process, Go
<1>13. ASSUME NEW t \in Threads, Panic(t)
      PROVE  (TypeOK /\ ReasonInv)'
  <2>1. /\ pc' = [pc EXCEPT ![t] = "close"]
        /\ why' = [why EXCEPT ![t] = "panic"]
        /\ cur' = [cur EXCEPT ![t] = "none"]
    BY <1>13 DEF Panic, CallClose, Go
  <2>2. UNCHANGED <<serve, states, broker, ready, netVars, wmu, connVars,
                    left>>
    BY <1>13 DEF Panic
  <2> QED
    BY <2>1, <2>2
<1>14. ASSUME NEW t \in Threads, Exceeded(t)
      PROVE  (TypeOK /\ ReasonInv)'
  BY <1>14 DEF Exceeded, writeRest
<1>15. ASSUME NEW t \in Threads, ExceededAgain(t)
      PROVE  (TypeOK /\ ReasonInv)'
  BY <1>15 DEF ExceededAgain, Go, writeRest
<1>16. ASSUME NEW t \in Threads, Write(t)
      PROVE  (TypeOK /\ ReasonInv)'
  BY <1>16 DEF Write, Go, writeRest
<1>17. ASSUME NEW t \in Threads, Lock(t)
      PROVE  (TypeOK /\ ReasonInv)'
  BY <1>17 DEF Lock, Go, writeRest
<1>18. ASSUME NEW t \in Threads, LockExpire(t)
      PROVE  (TypeOK /\ ReasonInv)'
  BY <1>18 DEF LockExpire, CallClose, Go, writeRest
<1>19. ASSUME NEW t \in Threads, NextWriter(t)
      PROVE  (TypeOK /\ ReasonInv)'
  BY <1>19 DEF NextWriter, Go, writeRest
<1>20. ASSUME NEW t \in Threads, WriteOK(t)
      PROVE  (TypeOK /\ ReasonInv)'
  BY <1>20 DEF WriteOK, Go, writeRest
<1>21. ASSUME NEW t \in Threads, WriteFail(t)
      PROVE  (TypeOK /\ ReasonInv)'
  BY <1>21 DEF WriteFail, Go, writeRest
<1>22. ASSUME NEW t \in Threads, Release(t)
      PROVE  (TypeOK /\ ReasonInv)'
  BY <1>22 DEF Release, Go, writeRest
<1>23. ASSUME NEW t \in Threads, CloseBegin(t)
      PROVE  (TypeOK /\ ReasonInv)'
  BY <1>23 DEF CloseBegin, Go, closeRest
<1>24. ASSUME NEW t \in Threads, CloseBroker(t, "pubSub", "psc", "resc")
      PROVE  (TypeOK /\ ReasonInv)'
  BY <1>24 DEF CloseBroker, closeRest
<1>25. ASSUME NEW t \in Threads, CloseBroker(t, "results", "resc", "kill")
      PROVE  (TypeOK /\ ReasonInv)'
  BY <1>25 DEF CloseBroker, closeRest
<1>26. ASSUME NEW t \in Threads, CloseKill(t)
      PROVE  (TypeOK /\ ReasonInv)'
  BY <1>26 DEF CloseKill, Go, closeRest
<1>27. ASSUME NEW t \in Threads, CloseReturn(t)
      PROVE  (TypeOK /\ ReasonInv)'
  BY <1>27 DEF CloseReturn, AfterClose, Go, closeRest
<1>28. ASSUME NEW t \in App, AppSend(t)
      PROVE  (TypeOK /\ ReasonInv)'
  BY <1>28 DEF AppSend, Go
<1>29. ASSUME NEW t \in App, AppClose(t)
      PROVE  (TypeOK /\ ReasonInv)'
  BY <1>29 DEF AppClose, CallClose, Go
<1>30. CASE UNCHANGED vars
  BY <1>30 DEF vars
<1> HIDE ConnAssumption, ThreadNames DEF TypeOK, ReasonInv, MsgTypes, Reasons, connVars, netVars, threadVars
<1> QED
  BY <1>1, <1>2, <1>3, <1>4, <1>5, <1>6, <1>7, <1>8, <1>9, <1>10, <1>11, SMTT(30),
     <1>12, <1>13, <1>14, <1>15, <1>16, <1>17, <1>18, <1>19, <1>20, <1>21,
     <1>22, <1>23, <1>24, <1>25, <1>26, <1>27, <1>28, <1>29, <1>30
  DEF Next, ServeStep, Closing, Writing, Looping, Step, Env

\* Every step keeps the write lock a token.
LEMMA LockStep ==
  ASSUME TypeOK, LockInv, [Next]_vars
  PROVE  LockInv'
<1> USE ConnAssumption, ThreadNames DEF TypeOK, LockInv, Holds, connVars, netVars, threadVars
<1>1. CASE ServeOpen("results", "start") \/ ServeOpen("pubSub", "results")
  BY <1>1 DEF ServeOpen, serveRest
<1>2. CASE ServeFail
  BY <1>2 DEF ServeFail, serveRest
<1>3. CASE ServeStart
  BY <1>3 DEF ServeStart, serveRest
<1>4. CASE ServeReturn
  BY <1>4 DEF ServeReturn, serveRest
<1>5. CASE CloseWS \/ PeerGone
  BY <1>5 DEF CloseWS, PeerGone
<1>6. ASSUME NEW s \in Streams, BrokerRead(s)
      PROVE  LockInv'
  BY <1>6 DEF BrokerRead
<1>7. ASSUME NEW s \in Streams, BrokerBreak(s)
      PROVE  LockInv'
  BY <1>7 DEF BrokerBreak
<1>8. ASSUME NEW s \in Streams, StreamMsg(s)
      PROVE  LockInv'
  BY <1>8 DEF StreamMsg, Go
<1>9. ASSUME NEW s \in Streams, StreamEnd(s)
      PROVE  LockInv'
  BY <1>9 DEF StreamEnd, CallClose, Go
<1>10. CASE Receive
  BY <1>10 DEF Receive, Go
<1>11. CASE ReceiveFail
  BY <1>11 DEF ReceiveFail, CallClose, Go
<1>12. ASSUME Process
      PROVE  LockInv'
  BY <1>12 DEF Process, Go
<1>13. ASSUME NEW t \in Threads, Panic(t)
      PROVE  LockInv'
  BY <1>13, SMTT(30) DEF Panic, CallClose, Go
<1>14. ASSUME NEW t \in Threads, Exceeded(t)
      PROVE  LockInv'
  BY <1>14 DEF Exceeded, writeRest
<1>15. ASSUME NEW t \in Threads, ExceededAgain(t)
      PROVE  LockInv'
  BY <1>15 DEF ExceededAgain, Go, writeRest
<1>16. ASSUME NEW t \in Threads, Write(t)
      PROVE  LockInv'
  BY <1>16 DEF Write, Go, writeRest
<1>17. ASSUME NEW t \in Threads, Lock(t)
      PROVE  LockInv'
  BY <1>17 DEF Lock, Go, writeRest
<1>18. ASSUME NEW t \in Threads, LockExpire(t)
      PROVE  LockInv'
  BY <1>18 DEF LockExpire, CallClose, Go, writeRest
<1>19. ASSUME NEW t \in Threads, NextWriter(t)
      PROVE  LockInv'
  BY <1>19 DEF NextWriter, Go, writeRest
<1>20. ASSUME NEW t \in Threads, WriteOK(t)
      PROVE  LockInv'
  BY <1>20 DEF WriteOK, Go, writeRest
<1>21. ASSUME NEW t \in Threads, WriteFail(t)
      PROVE  LockInv'
  BY <1>21 DEF WriteFail, Go, writeRest
<1>22. ASSUME NEW t \in Threads, Release(t)
      PROVE  LockInv'
  BY <1>22 DEF Release, Go, writeRest
<1>23. ASSUME NEW t \in Threads, CloseBegin(t)
      PROVE  LockInv'
  BY <1>23 DEF CloseBegin, Go, closeRest
<1>24. ASSUME NEW t \in Threads, CloseBroker(t, "pubSub", "psc", "resc")
      PROVE  LockInv'
  BY <1>24 DEF CloseBroker, closeRest
<1>25. ASSUME NEW t \in Threads, CloseBroker(t, "results", "resc", "kill")
      PROVE  LockInv'
  BY <1>25 DEF CloseBroker, closeRest
<1>26. ASSUME NEW t \in Threads, CloseKill(t)
      PROVE  LockInv'
  BY <1>26 DEF CloseKill, Go, closeRest
<1>27. ASSUME NEW t \in Threads, CloseReturn(t)
      PROVE  LockInv'
  BY <1>27 DEF CloseReturn, AfterClose, Go, closeRest
<1>28. ASSUME NEW t \in App, AppSend(t)
      PROVE  LockInv'
  BY <1>28 DEF AppSend, Go
<1>29. ASSUME NEW t \in App, AppClose(t)
      PROVE  LockInv'
  BY <1>29 DEF AppClose, CallClose, Go
<1>30. CASE UNCHANGED vars
  BY <1>30 DEF vars
<1> HIDE ConnAssumption, ThreadNames DEF TypeOK, LockInv, Holds, connVars, netVars, threadVars
<1> QED
  BY <1>1, <1>2, <1>3, <1>4, <1>5, <1>6, <1>7, <1>8, <1>9, <1>10, <1>11, SMTT(30),
     <1>12, <1>13, <1>14, <1>15, <1>16, <1>17, <1>18, <1>19, <1>20, <1>21,
     <1>22, <1>23, <1>24, <1>25, <1>26, <1>27, <1>28, <1>29, <1>30
  DEF Next, ServeStep, Closing, Writing, Looping, Step, Env

\* Every step keeps the goroutines in line with ServeConn.
LEMMA ServeInvStep ==
  ASSUME TypeOK, ServeInv, CloseInv, [Next]_vars
  PROVE  ServeInv'
<1> USE ConnAssumption, ThreadNames DEF TypeOK, ServeInv, CloseInv, connVars, netVars, threadVars
<1>1. CASE ServeOpen("results", "start") \/ ServeOpen("pubSub", "results")
  BY <1>1 DEF ServeOpen, serveRest
<1>2. CASE ServeFail
  BY <1>2 DEF ServeFail, serveRest
<1>3. CASE ServeStart
  BY <1>3 DEF ServeStart, serveRest
<1>4. CASE ServeReturn
  <2>1. once = "done"
    BY <1>4 DEF ServeReturn
  <2>2. states = <<"Connected">> /\ states' = Append(states, "Closing")
    BY <1>4 DEF ServeReturn
  <2>3. states' = <<"Connected", "Closing">>
    BY <2>2, StateSeqs, Zenon
  <2> QED
    BY <1>4, <2>1, <2>3, Zenon DEF ServeReturn, serveRest
<1>5. CASE CloseWS \/ PeerGone
  BY <1>5 DEF CloseWS, PeerGone
<1>6. ASSUME NEW s \in Streams, BrokerRead(s)
      PROVE  ServeInv'
  BY <1>6 DEF BrokerRead
<1>7. ASSUME NEW s \in Streams, BrokerBreak(s)
      PROVE  ServeInv'
  BY <1>7 DEF BrokerBreak
<1>8. ASSUME NEW s \in Streams, StreamMsg(s)
      PROVE  ServeInv'
  BY <1>8 DEF StreamMsg, Go
<1>9. ASSUME NEW s \in Streams, StreamEnd(s)
      PROVE  ServeInv'
  BY <1>9 DEF StreamEnd, CallClose, Go
<1>10. CASE Receive
  BY <1>10 DEF Receive, Go
<1>11. CASE ReceiveFail
  BY <1>11 DEF ReceiveFail, CallClose, Go
<1>12. ASSUME Process
      PROVE  ServeInv'
  BY <1>12 DEF Process, Go
<1>13. ASSUME NEW t \in Threads, Panic(t)
      PROVE  ServeInv'
  BY <1>13 DEF Panic, CallClose, Go
<1>14. ASSUME NEW t \in Threads, Exceeded(t)
      PROVE  ServeInv'
  BY <1>14 DEF Exceeded, writeRest
<1>15. ASSUME NEW t \in Threads, ExceededAgain(t)
      PROVE  ServeInv'
  BY <1>15 DEF ExceededAgain, Go, writeRest
<1>16. ASSUME NEW t \in Threads, Write(t)
      PROVE  ServeInv'
  BY <1>16 DEF Write, Go, writeRest
<1>17. ASSUME NEW t \in Threads, Lock(t)
      PROVE  ServeInv'
  BY <1>17 DEF Lock, Go, writeRest
<1>18. ASSUME NEW t \in Threads, LockExpire(t)
      PROVE  ServeInv'
  BY <1>18 DEF LockExpire, CallClose, Go, writeRest
<1>19. ASSUME NEW t \in Threads, NextWriter(t)
      PROVE  ServeInv'
  BY <1>19 DEF NextWriter, Go, writeRest
<1>20. ASSUME NEW t \in Threads, WriteOK(t)
      PROVE  ServeInv'
  BY <1>20 DEF WriteOK, Go, writeRest
<1>21. ASSUME NEW t \in Threads, WriteFail(t)
      PROVE  ServeInv'
  BY <1>21 DEF WriteFail, Go, writeRest
<1>22. ASSUME NEW t \in Threads, Release(t)
      PROVE  ServeInv'
  BY <1>22 DEF Release, Go, writeRest
<1>23. ASSUME NEW t \in Threads, CloseBegin(t)
      PROVE  ServeInv'
  BY <1>23 DEF CloseBegin, Go, closeRest
<1>24. ASSUME NEW t \in Threads, CloseBroker(t, "pubSub", "psc", "resc")
      PROVE  ServeInv'
  BY <1>24 DEF CloseBroker, closeRest
<1>25. ASSUME NEW t \in Threads, CloseBroker(t, "results", "resc", "kill")
      PROVE  ServeInv'
  BY <1>25 DEF CloseBroker, closeRest
<1>26. ASSUME NEW t \in Threads, CloseKill(t)
      PROVE  ServeInv'
  BY <1>26 DEF CloseKill, Go, closeRest
<1>27. ASSUME NEW t \in Threads, CloseReturn(t)
      PROVE  ServeInv'
  BY <1>27 DEF CloseReturn, AfterClose, Go, closeRest
<1>28. ASSUME NEW t \in App, AppSend(t)
      PROVE  ServeInv'
  BY <1>28 DEF AppSend, Go
<1>29. ASSUME NEW t \in App, AppClose(t)
      PROVE  ServeInv'
  BY <1>29 DEF AppClose, CallClose, Go
<1>30. CASE UNCHANGED vars
  BY <1>30, SMTT(30) DEF vars
<1> HIDE ConnAssumption, ThreadNames DEF TypeOK, ServeInv, CloseInv, connVars, netVars, threadVars
<1> QED
  BY <1>1, <1>2, <1>3, <1>4, <1>5, <1>6, <1>7, <1>8, <1>9, <1>10, <1>11, SMTT(30),
     <1>12, <1>13, <1>14, <1>15, <1>16, <1>17, <1>18, <1>19, <1>20, <1>21,
     <1>22, <1>23, <1>24, <1>25, <1>26, <1>27, <1>28, <1>29, <1>30
  DEF Next, ServeStep, Closing, Writing, Looping, Step, Env

\* Every step keeps the order of Close.
LEMMA CloseStep ==
  ASSUME TypeOK, ServeInv, CloseInv, [Next]_vars
  PROVE  CloseInv'
<1> USE ConnAssumption, ThreadNames DEF TypeOK, ServeInv, CloseInv, connVars, netVars, threadVars
<1>1. CASE ServeOpen("results", "start") \/ ServeOpen("pubSub", "results")
  BY <1>1 DEF ServeOpen, serveRest
<1>2. CASE ServeFail
  BY <1>2 DEF ServeFail, serveRest
<1>3. CASE ServeStart
  BY <1>3 DEF ServeStart, serveRest
<1>4. CASE ServeReturn
  BY <1>4 DEF ServeReturn, serveRest
<1>5. CASE CloseWS \/ PeerGone
  BY <1>5 DEF CloseWS, PeerGone
<1>6. ASSUME NEW s \in Streams, BrokerRead(s)
      PROVE  CloseInv'
  BY <1>6 DEF BrokerRead
<1>7. ASSUME NEW s \in Streams, BrokerBreak(s)
      PROVE  CloseInv'
  BY <1>7 DEF BrokerBreak
<1>8. ASSUME NEW s \in Streams, StreamMsg(s)
      PROVE  CloseInv'
  BY <1>8 DEF StreamMsg, Go
<1>9. ASSUME NEW s \in Streams, StreamEnd(s)
      PROVE  CloseInv'
  BY <1>9 DEF StreamEnd, CallClose, Go
<1>10. CASE Receive
  BY <1>10 DEF Receive, Go
<1>11. CASE ReceiveFail
  BY <1>11 DEF ReceiveFail, CallClose, Go
<1>12. ASSUME Process
      PROVE  CloseInv'
  BY <1>12 DEF Process, Go
<1>13. ASSUME NEW t \in Threads, Panic(t)
      PROVE  CloseInv'
  BY <1>13, SMTT(30) DEF Panic, CallClose, Go
<1>14. ASSUME NEW t \in Threads, Exceeded(t)
      PROVE  CloseInv'
  BY <1>14 DEF Exceeded, writeRest
<1>15. ASSUME NEW t \in Threads, ExceededAgain(t)
      PROVE  CloseInv'
  BY <1>15 DEF ExceededAgain, Go, writeRest
<1>16. ASSUME NEW t \in Threads, Write(t)
      PROVE  CloseInv'
  BY <1>16 DEF Write, Go, writeRest
<1>17. ASSUME NEW t \in Threads, Lock(t)
      PROVE  CloseInv'
  BY <1>17 DEF Lock, Go, writeRest
<1>18. ASSUME NEW t \in Threads, LockExpire(t)
      PROVE  CloseInv'
  BY <1>18 DEF LockExpire, CallClose, Go, writeRest
<1>19. ASSUME NEW t \in Threads, NextWriter(t)
      PROVE  CloseInv'
  BY <1>19 DEF NextWriter, Go, writeRest
<1>20. ASSUME NEW t \in Threads, WriteOK(t)
      PROVE  CloseInv'
  BY <1>20 DEF WriteOK, Go, writeRest
<1>21. ASSUME NEW t \in Threads, WriteFail(t)
      PROVE  CloseInv'
  BY <1>21 DEF WriteFail, Go, writeRest
<1>22. ASSUME NEW t \in Threads, Release(t)
      PROVE  CloseInv'
  BY <1>22 DEF Release, Go, writeRest
<1>23. ASSUME NEW t \in Threads, CloseBegin(t)
      PROVE  CloseInv'
  BY <1>23 DEF CloseBegin, Go, closeRest
<1>24. ASSUME NEW t \in Threads, CloseBroker(t, "pubSub", "psc", "resc")
      PROVE  CloseInv'
  BY <1>24 DEF CloseBroker, closeRest
<1>25. ASSUME NEW t \in Threads, CloseBroker(t, "results", "resc", "kill")
      PROVE  CloseInv'
  BY <1>25 DEF CloseBroker, closeRest
<1>26. ASSUME NEW t \in Threads, CloseKill(t)
      PROVE  CloseInv'
  BY <1>26 DEF CloseKill, Go, closeRest
<1>27. ASSUME NEW t \in Threads, CloseReturn(t)
      PROVE  CloseInv'
  BY <1>27, SMTT(30) DEF CloseReturn, AfterClose, Go, closeRest
<1>28. ASSUME NEW t \in App, AppSend(t)
      PROVE  CloseInv'
  BY <1>28 DEF AppSend, Go
<1>29. ASSUME NEW t \in App, AppClose(t)
      PROVE  CloseInv'
  BY <1>29 DEF AppClose, CallClose, Go
<1>30. CASE UNCHANGED vars
  BY <1>30 DEF vars
<1> HIDE ConnAssumption, ThreadNames DEF TypeOK, ServeInv, CloseInv, connVars, netVars, threadVars
<1> QED
  BY <1>1, <1>2, <1>3, <1>4, <1>5, <1>6, <1>7, <1>8, <1>9, <1>10, <1>11, SMTT(30),
     <1>12, <1>13, <1>14, <1>15, <1>16, <1>17, <1>18, <1>19, <1>20, <1>21,
     <1>22, <1>23, <1>24, <1>25, <1>26, <1>27, <1>28, <1>29, <1>30
  DEF Next, ServeStep, Closing, Writing, Looping, Step, Env

\* The inductive invariant holds initially.
LEMMA InitInv == Init => Inv
<1> SUFFICES ASSUME Init
             PROVE  Inv
  OBVIOUS
<1>1. TypeOK
  <2>1. states \in Seq({"Connected", "Closing"})
    BY StateSeqs DEF Init
  <2>2. left \in [Threads -> 0..MaxMsgs]
    BY ConnAssumption DEF Init
  <2> QED
    BY <2>1, <2>2, Zenon DEF Init, TypeOK
<1>2. ReasonInv /\ LockInv
  BY DEF Init, ReasonInv, LockInv, Holds
<1>3. ServeInv
  BY DEF Init, ServeInv
<1>4. CloseInv
  BY DEF Init, CloseInv
<1> QED
  BY <1>1, <1>2, <1>3, <1>4 DEF Inv

\* It holds in every state of every behaviour.
LEMMA Invariant == Spec => []Inv
<1>1. Inv /\ [Next]_vars => Inv'
  BY TypeStep, LockStep, ServeInvStep, CloseStep DEF Inv
<1> QED
  BY <1>1, InitInv, PTL DEF Spec

-----------------------------------------------------------------------------
\* The variables of a connection keep their types.
THEOREM TypeCorrect == Spec => []TypeOK
<1>1. Inv => TypeOK
  BY DEF Inv
<1> QED
  BY <1>1, Invariant, PTL

\* Messages of different goroutines are never mixed on the websocket, and a
\* goroutine never blocks when it gives the write lock back.
THEOREM ConnOneWriter == Spec => []OneWriter
<1>1. Inv => OneWriter
  BY DEF Inv, LockInv, Holds, OneWriter
<1> QED
  BY <1>1, Invariant, PTL

\* Close closes everything once and in order, and returns to none of its
\* callers before it is done.
THEOREM ConnCloseComplete == Spec => []CloseComplete
<1>1. Inv => CloseComplete
  BY DEF Inv, TypeOK, CloseInv, CloseComplete, Streams
<1> QED
  BY <1>1, Invariant, PTL

\* The calls of ConnState are in order and the one for Closing may read
\* CloseErr.
THEOREM ConnStatesInOrder == Spec => []StatesInOrder
<1>1. ASSUME Inv
      PROVE  StatesInOrder
  <2>1. states \in {<<>>, <<"Connected">>, <<"Connected", "Closing">>}
    BY <1>1 DEF Inv, TypeOK, ServeInv
  <2>2. (\E t \in Threads : pc[t] # "none") => states # <<>>
    <3> SUFFICES ASSUME states = <<>>
                 PROVE  \A t \in Threads : pc[t] = "none"
      OBVIOUS
    <3>1. serve # "serving"
      BY <1>1, StateSeqs DEF Inv, ServeInv
    <3> QED
      BY <1>1, <3>1, StateSeqs DEF Inv, TypeOK, ServeInv
  <2>3. ASSUME Len(states) = 2
        PROVE  kill = 1
    <3>1. states # <<>> /\ states # <<"Connected">>
      BY <2>3
    <3>2. once = "done"
      BY <1>1, <3>1 DEF Inv, TypeOK, ServeInv
    <3> QED
      BY <1>1, <3>2 DEF Inv, CloseInv
  <2> QED
    BY <2>1, <2>2, <2>3 DEF StatesInOrder
<1> QED
  BY <1>1, Invariant, PTL

\* CloseErr is written once, whatever number of goroutines call Close.
THEOREM ConnFirstCloseErr == Spec => FirstCloseErr
<1> DEFINE A == closeErr # <<>> => closeErr' = closeErr
<1>1. ASSUME Inv, [Next]_vars
      PROVE  A
  <2> SUFFICES ASSUME closeErr # <<>>
               PROVE  closeErr' = closeErr
    OBVIOUS
  <2>1. once # "new"
    BY <1>1 DEF Inv, CloseInv
  <2>2. \A t \in Threads : ~CloseBegin(t)
    BY <2>1 DEF CloseBegin
  <2> QED
    BY <1>1, <2>2, Zenon
    DEF Next, ServeStep, Closing, Writing, Looping, Step, Env, vars,
        connVars, serveRest, writeRest, closeRest, ServeOpen, ServeFail,
        ServeStart, ServeReturn, CloseWS, PeerGone, BrokerRead, BrokerBreak,
        StreamMsg, StreamEnd, Receive, ReceiveFail, Process, Panic, Exceeded,
        ExceededAgain, Write, Lock, LockExpire, NextWriter, WriteOK,
        WriteFail, Release, CloseBroker, CloseKill, CloseReturn, AppSend,
        AppClose
<1>2. Inv /\ [Next]_vars => [A]_vars
  BY <1>1
<1> QED
  BY <1>2, Invariant, PTL DEF Spec, FirstCloseErr

=============================================================================
