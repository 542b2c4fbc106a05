------------------------------- MODULE MCSilo -------------------------------
(* Silos and the pool, driven by a caller that makes any call at any time. *)
EXTENDS Silo

AllFaults == SetupFaults \cup TeardownFaults
NoFaults == {}
Limited == {[inet |-> TRUE, limits |-> TRUE]}
Plain == {[inet |-> FALSE, limits |-> FALSE]}
TwoRequests == Limited \cup Plain
=============================================================================
