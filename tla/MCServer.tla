------------------------------ MODULE MCServer ------------------------------
(* The server for TLC: the fault sets, the requests and the symmetry.      *)
EXTENDS Server, TLC

\* one fault for each way the server's own code goes on
ServerFaults == {"init", "exec", "net", "bridge", "root"}
\* what may fail on the way up, other than the start of the process
SetupOnlyFaults == {"rand", "init", "net", "limit"}
BindFault == {"bind"}
NoFaults == {}
Plain == {[inet |-> FALSE, limits |-> FALSE]}
Limited == {[inet |-> TRUE, limits |-> TRUE]}
Symmetry == Permutations(SiloIDs) \cup Permutations(Names)
=============================================================================
