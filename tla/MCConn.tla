------------------------------- MODULE MCConn -------------------------------
(* Instances of Conn for TLC: they differ in the options of the Server.    *)
EXTENDS Conn

=============================================================================
