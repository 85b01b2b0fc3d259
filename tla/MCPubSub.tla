------------------------------ MODULE MCPubSub ------------------------------
(* An instance of PubSub for TLC: a channel, a pattern that matches it and a *)
(* message that is not valid.                                               *)
EXTENDS PubSub

CONSTANTS a, p

MCCovers == [q \in {p} |-> {a}]
MCTarget == [m \in 1..3 |-> a]

=============================================================================
