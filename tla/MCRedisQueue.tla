---------------------------- MODULE MCRedisQueue ----------------------------
(* Instances of RedisQueue for TLC. *)
EXTENDS RedisQueue, TLC

CONSTANTS u1, u2, m1, m2, m3, p1, p2, c1, c2

\* One list, the messages of which are interchangeable.
OneHome == [m \in Msgs |-> u1]
OneKeys == (c1 :> <<u1>>)
Symmetry == Permutations(Msgs)

\* Two lists; the second consumer reads only the second list.
TwoHomes == (m1 :> u1) @@ [m \in Msgs \ {m1} |-> u2]
TwoKeys == (c1 :> <<u1, u2>>) @@ (c2 :> <<u2>>)

\* Capacities: none, the same for both brokers.
NoCap == (p1 :> 0)
SameCap == (p1 :> 2) @@ (p2 :> 2)

\* In ticks: negative, below a millisecond, one and two and a half
\* milliseconds when a millisecond is two ticks.
AllTimeouts == {-2, 1, 2, 5}

-----------------------------------------------------------------------------
(* Sustained load.  A message that is gone makes room for another one, with  *)
(* a UUID and a key of its own, that goes by the same name: there is no end  *)
(* to the messages, and finitely many states.  The ranks of the other ones   *)
(* close up.                                                                 *)

Gone(m) ==
  reg[m] # "new" /\ ~InList(m) /\ \A c \in Consumers : held[c] # m

Renew(m) ==
  /\ Gone(m)
  /\ reg' = [reg EXCEPT ![m] = "new"]
  /\ expires' = [expires EXCEPT ![m] = 0]
  /\ chan' = [c \in Consumers |->
                SelectSeq(chan[c], LAMBDA d : d.msg # m)]
  /\ serial' = IF pushed[m].no > 0 THEN serial - 1 ELSE serial
  /\ pushed' = [n \in Msgs |->
                  IF n = m THEN [no |-> 0, at |-> 0, ms |-> 0]
                  ELSE [pushed[n] EXCEPT !.no =
                          IF pushed[m].no \in 1..@ THEN @ - 1 ELSE @]]
  /\ UNCHANGED <<now, list, link, pc, held, read>>

LoadedSpec ==
  Init /\ [][Next \/ \E m \in Msgs : Renew(m)]_vars /\ Fairness

=============================================================================
