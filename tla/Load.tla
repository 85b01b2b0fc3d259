-------------------------------- MODULE Load --------------------------------
(***************************************************************************)
(* An application of the client: one connection of juggler-load            *)
(* (juggler/cmd/juggler-load/main.go), that is the goroutine runClient and *)
(* the Handler it gives to the client, which the client runs in goroutines *)
(* of their own.  They share the WaitGroup wgResults, which counts the     *)
(* calls that were not answered yet.                                       *)
(*                                                                         *)
(* The application is juggler-load, or any other one: the client is then   *)
(* used in every way the module Client allows.                             *)
(***************************************************************************)
EXTENDS Client, Integers

VARIABLES
  app,   \* the application that uses the client
  load,  \* where runClient is
  wg     \* the counter of wgResults

loadVars == <<app, load, wg>>
allVars == <<vars, loadVars>>

LoadInit ==
  /\ Init
  /\ app \in {"any", "load"}
  /\ load = "calling"
  /\ wg = 0

\* Client.Call has not returned.
Calling == \E c \in Calls : callPC[c] \in {"written", "added"}

\* wgResults.Add, then cli.Call, which writes the message ...
LoadCall(c) ==
  /\ load = "calling" /\ ~Calling
  /\ wg' = wg + 1
  /\ CallWrite(c)
  /\ UNCHANGED <<app, load>>

\* ... or fails, which ends the program: nothing is said of what follows.
LoadCallFails(c) ==
  /\ load = "calling" /\ ~Calling
  /\ wg' = wg + 1
  /\ CallFail(c)
  /\ load' = "fatal"
  /\ UNCHANGED app

\* stop was closed: leave the loop and wait for the answers.
LoadStop ==
  /\ load = "calling" /\ ~Calling
  /\ load' = "waiting"
  /\ UNCHANGED <<vars, app, wg>>

\* wgResults.Wait returns, and cli.Close is called.
LoadClose ==
  /\ load = "waiting" /\ wg = 0
  /\ load' = "closing"
  /\ Close
  /\ UNCHANGED <<app, wg>>

\* cli.Close returns, and so does runClient, or the error of cli.Close ends
\* the program.
LoadEnd ==
  /\ load = "closing" /\ closer = "returned"
  /\ \E end \in {"ended", "fatal"} : load' = end
  /\ UNCHANGED <<vars, app, wg>>

AnswerTypes == MsgTypes \ {"EVNT"}

\* Mutant: the OK case does not return.
LoadHandleAll(c, t) ==
  /\ Handle(c, t)
  /\ wg' = wg - 1
  /\ load' = IF wg = 0 THEN "panic" ELSE load
  /\ UNCHANGED app

\* Mutant: an expired call is counted and not reported.
LoadHandleNoExp(c, t) ==
  /\ Handle(c, t)
  /\ IF t \in {"OK", "EXP"}
     THEN UNCHANGED <<wg, load>>
     ELSE /\ wg' = wg - 1
          /\ load' = IF wg = 0 THEN "panic" ELSE load
  /\ UNCHANGED app

\* The Handler: wgResults.Done for any answer but an OK.  A counter that
\* becomes negative is a panic, which ends the program.  (It does not
\* subscribe to anything, so that no EVNT comes.)
LoadHandle(c, t) ==
  /\ Handle(c, t)
  /\ IF t = "OK"
     THEN UNCHANGED <<wg, load>>
     ELSE /\ wg' = wg - 1
          /\ load' = IF wg = 0 THEN "panic" ELSE load
  /\ UNCHANGED app

RunClient ==
  \/ \E c \in Calls : LoadCall(c) \/ LoadCallFails(c)
  \/ LoadStop \/ LoadClose \/ LoadEnd

\* What goes on in the client and in the server by itself.
ClientGoroutines ==
  /\ \/ \E c \in Calls : AddPending(c) \/ StartTimer(c) \/ TimerStep(c)
     \/ ReadStep \/ StopReading \/ CloseReturn \/ Server
  /\ UNCHANGED loadVars

LoadNext ==
  \/ app = "any" /\ Next /\ UNCHANGED loadVars
  \/ app = "load" /\ RunClient
  \/ app = "load" /\ \E c \in Calls, t \in AnswerTypes : LoadHandle(c, t)
  \/ app = "load" /\ ClientGoroutines

LoadSpec == LoadInit /\ [][LoadNext]_allVars

\* The goroutines of juggler-load run as those of the client do; main closes
\* stop after -d, and a select whose two cases stay ready takes each of them
\* sooner or later.
LoadFairSpec ==
  /\ LoadSpec
  /\ Fairness
  /\ WF_allVars(app = "load" /\ (LoadStop \/ LoadClose \/ LoadEnd))

-----------------------------------------------------------------------------
\* How often Done was called for a call.
Answers(c) == handled[c]["RES"] + handled[c]["EXP"] + handled[c]["ERR"]

\* juggler-load closes the client once all its calls were answered ("wait
\* for sent calls to return or expire"), and the counter of wgResults does
\* not become negative: both hold as long as no call is answered twice, as
\* it is by an ERR that is followed by a RES or an EXP.
LoadWaits ==
  \/ \E c \in Calls : Answers(c) > 1
  \/ /\ load # "panic"
     /\ load \in {"closing", "ended"} =>
          \A c \in Calls : callPC[c] = "returned" => Answers(c) = 1

\* When it is told to stop, juggler-load ends, unless the connection is lost
\* while it waits: the client then drops the calls that are pending without
\* telling the Handler, and nobody calls Done.
LoadEnds ==
  load = "waiting" ~>
    \/ load \in {"ended", "fatal", "panic"}
    \/ Stopped /\ closer = "idle"

=============================================================================
