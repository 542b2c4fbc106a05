------------------------------ MODULE Registry ------------------------------
(***************************************************************************)
(* What colexd promises about names (README: "Names are unique on each     *)
(* host, so if you `colex-cli up` again, the existing silo will be stopped *)
(* and replaced").  An attempt to bring a silo up goes through its phases  *)
(* once, in this order:                                                    *)
(*   new      no process was started for it                                *)
(*   started  its process was started, clients do not see it yet           *)
(*   listed   it has its name on the server                                *)
(*   gone     it has left the server, and its process is not running       *)
(* No locks, goroutines, addresses or failures are left at this level.     *)
(***************************************************************************)
CONSTANTS Names, SiloIDs, None

VARIABLES
  phase,   \* the phase of each silo
  alive,   \* the silos whose process runs
  name     \* the name a silo was started under

vars == <<phase, alive, name>>

Init ==
  /\ phase = [id \in SiloIDs |-> "new"]
  /\ alive = {}
  /\ name = [id \in SiloIDs |-> None]

Present(id) == phase[id] \in {"started", "listed"}

\* Nobody has the name any more.  The program may end as soon as it has begun.
Launch(id, n) ==
  /\ phase[id] = "new"
  /\ \A j \in SiloIDs : Present(j) => name[j] # n
  /\ phase' = [phase EXCEPT ![id] = "started"]
  /\ name' = [name EXCEPT ![id] = n]
  /\ alive' \in {alive, alive \cup {id}}

Enter(id) ==
  /\ phase[id] = "started"
  /\ phase' = [phase EXCEPT ![id] = "listed"]
  /\ UNCHANGED <<alive, name>>

\* by itself, or because it was killed in a stop that then failed
End(id) ==
  /\ id \in alive
  /\ alive' = alive \ {id}
  /\ UNCHANGED <<phase, name>>

Leave(id) ==
  /\ Present(id)
  /\ phase' = [phase EXCEPT ![id] = "gone"]
  /\ alive' = alive \ {id}
  /\ UNCHANGED name

Next ==
  \E id \in SiloIDs :
    \/ \E n \in Names : Launch(id, n)
    \/ Enter(id) \/ End(id) \/ Leave(id)

Spec == Init /\ [][Next]_vars
=============================================================================
