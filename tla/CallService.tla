---------------------------- MODULE CallService -----------------------------
(***************************************************************************)
(* What the servers, the broker and the callees promise of a remote call:  *)
(* it is executed at most once, its result is stored at most once and      *)
(* sent to the caller at most once, in that order, and the call may be     *)
(* lost on the way.  A lost call does not come back: the caller learns of  *)
(* it from its own timeout.                                                *)
(***************************************************************************)
CONSTANT Calls

VARIABLE phase

Phases == {"new", "waiting", "running", "stored", "answered", "lost"}

Init == phase = [m \in Calls |-> "new"]

Move(m, from, to) ==
  /\ phase[m] = from
  /\ phase' = [phase EXCEPT ![m] = to]

Submit(m) == Move(m, "new", "waiting")
Start(m) == Move(m, "waiting", "running")
Store(m) == Move(m, "running", "stored")
Answer(m) == Move(m, "stored", "answered")
Lose(m) == \E p \in {"new", "waiting", "running", "stored"} : Move(m, p, "lost")

Next ==
  \E m \in Calls :
    Submit(m) \/ Start(m) \/ Store(m) \/ Answer(m) \/ Lose(m)

Spec == Init /\ [][Next]_phase

=============================================================================
