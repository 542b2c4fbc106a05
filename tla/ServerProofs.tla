---------------------------- MODULE ServerProofs ----------------------------
(***************************************************************************)
(* The server over the silos, for any number of names and silos and any    *)
(* failures: it drives the silos as they expect, so that all that          *)
(* ControllerProofs shows holds of it, and it knows every process that     *)
(* runs.                                                                   *)
(*                                                                         *)
(* The first part has the inductive invariant of the server and the proof  *)
(* that every one of its steps preserves it.  What a call of the           *)
(* controller does to a silo is an assumption of the lemma on the step     *)
(* that makes the call; the second part supplies it.  The invariant says,  *)
(* beside the types, who holds the lock (LockOwned), what the call in      *)
(* progress may rely on (JobKnows), how Server.silos, the names and the    *)
(* processes belong together (SilosKnown), and that a silo that was        *)
(* reported has ended (ReportsTrue).                                       *)
(***************************************************************************)
EXTENDS Server, ControllerProofs

\* the calls of startSiloInternal before a process is started, and those between
\* the start of the process and the entry in Server.silos
Launching == {"new", "init", "launch", "closeUninitialised", "giveBack"}
Entering == {"abandon", "register"}
Owning == {"spawn", "stop", "close"}
JobPCs == {"none", "start"} \cup Launching \cup Entering \cup Owning

ServerTypes ==
  /\ lock \in {"free", "up", "down", "collector", "close"}
  /\ job \in [pc : JobPCs, name : Names \cup {None}, id : SiloIDs \cup {None}]
  /\ silos \in [Names -> SiloIDs \cup {None}]
  /\ nameOf \in [SiloIDs -> Names \cup {None}]
  /\ waiter \in [SiloIDs -> {"none", "start", "wait", "reaping", "returned", "send", "over"}]
  /\ collector \in [pc : {"spawned", "recv", "got", "stopping", "exited"},
                    id : SiloIDs \cup {None}]
  /\ closer \in {"none", "metaSignal", "metaWait", "flag", "channels", "lock", "loop", "wg",
                 "serv", "returned", "failed"}

LockOwned ==
  /\ job.pc = "none" => job = NoJob /\ lock \in {"free", "close"}
  /\ job.pc # "none" => lock # "free" /\ job.name \in Names
  /\ job.pc \notin {"none", "start"} => job.id \in SiloIDs
  /\ job.pc \notin {"none", "stop", "close"} => lock = "up"
  /\ lock = "collector" <=> collector.pc = "stopping"
  /\ lock = "close" <=> closer = "loop"

JobKnows ==
  LET s == silo[job.id]
  IN  /\ job.pc \in {"start"} \cup Launching \cup Entering => silos[job.name] = None
      /\ job.pc \in Launching \cup Entering => nameOf[job.id] = job.name
      /\ job.pc \in Launching => s.child = "none" /\ s.slice # <<>>
      /\ job.pc = "new" => s.State = "None"
      /\ job.pc = "init" => s.State = "Setup"
      /\ job.pc = "launch" => s.State = "Pending"
      /\ job.pc = "closeUninitialised" => s.State \in {"Setup", "InternalError"}
      /\ job.pc = "giveBack" => s.State \in {"None", "Setup", "InternalError"}
      /\ job.pc \in Entering => s.State = "Running"
      /\ job.pc = "register" => s.child # "none"
      /\ job.pc \in Owning => silos[job.name] = job.id

SilosKnown ==
  /\ \A id \in SiloIDs :
       /\ silo[id].child # "none" => silo[id].State \in {"Running", "Finished"} /\ nameOf[id] \in Names
       /\ silo[id].child = "alive" => silos[nameOf[id]] = id \/ (job.id = id /\ job.pc \in Entering)
  /\ \A n \in Names : silos[n] # None => nameOf[silos[n]] = n /\ silo[silos[n]].child # "none"

\* the process of the silo was started and has ended
Ended(id) == id \in SiloIDs /\ silo[id].child \notin {"none", "alive"}

ReportsTrue ==
  /\ \A id \in SiloIDs :
       /\ waiter[id] # "none" => silo[id].child # "none"
       /\ waiter[id] \in {"reaping", "returned", "send", "over"} => Ended(id)
  /\ collector.pc \in {"got", "stopping"} => Ended(collector.id)
  /\ lock = "collector" => job.pc \in {"stop", "close"} /\ job.id = collector.id

\* The inductive invariant of the server over the silos.
ServerInv == ServerTypes /\ LockOwned /\ JobKnows /\ SilosKnown /\ ReportsTrue

\* what Close does to the process, also when it returns an error
CloseKilled(id) ==
  LET s == silo[id]
      t == silo'[id]
  IN  /\ t.child # "alive"
      /\ (t.child = "none") <=> (s.child = "none")
      /\ s.State # "Running" => t = s
      /\ s.State = "Running" => t.State \in {"Running", "Finished"}

\* a call leaves the other silos alone
OtherSilos(id) == \A j \in SiloIDs : j # id => silo'[j] = silo[j]

\* a process, once started, can only end
ProcessesGoOn ==
  \A j \in SiloIDs : /\ silo'[j].State = silo[j].State /\ silo'[j].slice = silo[j].slice
                     /\ silo'[j].child = "none" <=> silo[j].child = "none"
                     /\ silo'[j].child = "alive" => silo[j].child = "alive"

-----------------------------------------------------------------------------
\* The invariant holds at the start.
LEMMA ServerInvInit ==
  Init => ServerInv
<1> SUFFICES ASSUME Init PROVE ServerInv
  OBVIOUS
<1>1. \A id \in SiloIDs : silo[id].child = "none"
  BY DEF Init, SiloInit, NoStruct
<1>2. ServerTypes
  BY DEF Init, ServerTypes, NoJob, JobPCs
<1>3. LockOwned /\ JobKnows
  BY DEF Init, LockOwned, JobKnows, NoJob, Launching, Entering, Owning
<1>4. SilosKnown /\ ReportsTrue
  BY <1>1 DEF Init, SilosKnown, ReportsTrue, NoJob
<1> QED
  BY <1>2, <1>3, <1>4 DEF ServerInv

-----------------------------------------------------------------------------
\* Steps that leave the silos alone.

\* Steps of the metadata service and of Close outside its loop.
LEMMA QuietSteps ==
  ASSUME ServerInv,
         \/ ServeList \/ MetaStep \/ UNCHANGED vars
         \/ Interrupt \/ CloseMetaSignal \/ CloseMetaWait \/ CloseFlag \/ CloseChannels
         \/ CloseWait \/ CloseServ
         \/ \E id \in SiloIDs : ListenStep(id) \/ SendPanics(id)
  PROVE  ServerInv'
<1>1. UNCHANGED <<silo, lock, job, silos, nameOf, waiter, collector>>
  BY DEF ServeList, MetaStep, vars, Interrupt, CloseMetaSignal, CloseMetaWait, CloseFlag,
         CloseChannels, CloseWait, CloseServ, ListenStep, SendPanics, serverVars, siloVars
<1>2. \/ closer' = closer
      \/ closer # "loop" /\ closer' \in {"metaSignal", "metaWait", "flag", "channels", "lock",
                                        "serv", "returned"}
  BY DEF ServeList, MetaStep, vars, Interrupt, CloseMetaSignal, CloseMetaWait, CloseFlag,
         CloseChannels, CloseWait, CloseServ, AtClose, ListenStep, SendPanics, serverVars
<1> QED
  BY <1>1, <1>2 DEF ServerInv, ServerTypes, LockOwned, JobKnows, SilosKnown, ReportsTrue, Ended

\* A request to start a silo takes the lock.
LEMMA ServeUpStep ==
  ASSUME ServerTypes, LockOwned, JobKnows, SilosKnown, ReportsTrue,
         NEW n \in Names, ServeUp(n)
  PROVE  ServerInv'
<1>1. /\ lock = "free" /\ job.pc = "none" /\ collector.pc # "stopping" /\ closer # "loop"
      /\ lock' = "up"
      /\ \/ silos[n] # None /\ job' = [pc |-> "stop", name |-> n, id |-> silos[n]]
         \/ silos[n] = None /\ job' = [pc |-> "start", name |-> n, id |-> None]
      /\ UNCHANGED <<silo, silos, nameOf, waiter, collector, closer>>
  BY DEF LockOwned, ServeUp, siloVars
<1>2. ServerTypes'
  BY <1>1 DEF ServerTypes, JobPCs, NoJob, Launching, Entering, Owning
<1>3. LockOwned'
  BY <1>1 DEF ServerTypes, LockOwned, NoJob
<1>4. JobKnows'
  BY <1>1 DEF ServerTypes, JobKnows, NoJob, Launching, Entering, Owning, OtherSilos
<1>5. SilosKnown'
  BY <1>1, MetadataAssumption DEF ServerTypes, SilosKnown, Entering, NoJob, OtherSilos
<1>6. ReportsTrue'
  BY <1>1 DEF ServerTypes, ReportsTrue, Ended, OtherSilos
<1> QED
  BY <1>2, <1>3, <1>4, <1>5, <1>6 DEF ServerInv

\* A request to stop a silo takes the lock.
LEMMA ServeDownStep ==
  ASSUME ServerTypes, LockOwned, JobKnows, SilosKnown, ReportsTrue,
         NEW n \in Names, ServeDown(n)
  PROVE  ServerInv'
<1>1. /\ lock = "free" /\ job.pc = "none" /\ collector.pc # "stopping" /\ closer # "loop"
      /\ lock' = "down" /\ silos[n] # None
      /\ job' = [pc |-> "stop", name |-> n, id |-> silos[n]]
      /\ UNCHANGED <<silo, silos, nameOf, waiter, collector, closer>>
  BY DEF LockOwned, ServeDown, siloVars
<1>2. ServerTypes'
  BY <1>1 DEF ServerTypes, JobPCs, NoJob, Launching, Entering, Owning
<1>3. LockOwned'
  BY <1>1 DEF ServerTypes, LockOwned, NoJob
<1>4. JobKnows'
  BY <1>1 DEF ServerTypes, JobKnows, NoJob, Launching, Entering, Owning, OtherSilos
<1>5. SilosKnown'
  BY <1>1, MetadataAssumption DEF ServerTypes, SilosKnown, Entering, NoJob, OtherSilos
<1>6. ReportsTrue'
  BY <1>1 DEF ServerTypes, ReportsTrue, Ended, OtherSilos
<1> QED
  BY <1>2, <1>3, <1>4, <1>5, <1>6 DEF ServerInv

\* Close takes the lock.
LEMMA CloseLockStep ==
  ASSUME ServerTypes, LockOwned, JobKnows, SilosKnown, ReportsTrue,
         CloseLock
  PROVE  ServerInv'
<1>1. /\ lock = "free" /\ job.pc = "none" /\ collector.pc # "stopping" /\ closer # "loop"
      /\ lock' = "close" /\ closer' = "loop"
      /\ UNCHANGED <<silo, job, silos, nameOf, waiter, collector>>
  BY DEF LockOwned, CloseLock, AtClose, siloVars
<1>2. ServerTypes'
  BY <1>1 DEF ServerTypes, JobPCs, NoJob, Launching, Entering, Owning
<1>3. LockOwned'
  BY <1>1 DEF ServerTypes, LockOwned, NoJob
<1>4. JobKnows'
  BY <1>1 DEF ServerTypes, JobKnows, NoJob, Launching, Entering, Owning, OtherSilos
<1>5. SilosKnown'
  BY <1>1, MetadataAssumption DEF ServerTypes, SilosKnown, Entering, NoJob, OtherSilos
<1>6. ReportsTrue'
  BY <1>1 DEF ServerTypes, ReportsTrue, Ended, OtherSilos
<1> QED
  BY <1>2, <1>3, <1>4, <1>5, <1>6 DEF ServerInv

\* Close turns to the next silo.
LEMMA CloseNextStep ==
  ASSUME ServerTypes, LockOwned, JobKnows, SilosKnown, ReportsTrue,
         CloseNext
  PROVE  ServerInv'
<1>1. /\ closer = "loop" /\ lock = "close" /\ job.pc = "none" /\ collector.pc # "stopping"
      /\ \E n \in Names : silos[n] # None /\ job' = [pc |-> "stop", name |-> n, id |-> silos[n]]
      /\ UNCHANGED <<silo, lock, silos, nameOf, waiter, collector, closer>>
  BY DEF LockOwned, CloseNext, NoJob, siloVars
<1>2. ServerTypes'
  BY <1>1 DEF ServerTypes, JobPCs, NoJob, Launching, Entering, Owning
<1>3. LockOwned'
  BY <1>1 DEF ServerTypes, LockOwned, NoJob
<1>4. JobKnows'
  BY <1>1 DEF ServerTypes, JobKnows, NoJob, Launching, Entering, Owning, OtherSilos
<1>5. SilosKnown'
  BY <1>1, MetadataAssumption DEF ServerTypes, SilosKnown, Entering, NoJob, OtherSilos
<1>6. ReportsTrue'
  BY <1>1 DEF ServerTypes, ReportsTrue, Ended, OtherSilos
<1> QED
  BY <1>2, <1>3, <1>4, <1>5, <1>6 DEF ServerInv

\* Close leaves its loop.
LEMMA CloseUnlockStep ==
  ASSUME ServerTypes, LockOwned, JobKnows, SilosKnown, ReportsTrue,
         CloseUnlock
  PROVE  ServerInv'
<1>1. /\ lock = "close" /\ job = NoJob /\ collector.pc # "stopping"
      /\ lock' = "free" /\ closer' = "wg"
      /\ UNCHANGED <<silo, job, silos, nameOf, waiter, collector>>
  BY DEF LockOwned, CloseUnlock, AtClose, siloVars
<1>2. ServerTypes'
  BY <1>1 DEF ServerTypes, JobPCs, NoJob, Launching, Entering, Owning
<1>3. LockOwned'
  BY <1>1 DEF ServerTypes, LockOwned, NoJob
<1>4. JobKnows'
  BY <1>1 DEF JobKnows, Launching, Entering, Owning, NoJob
<1>5. SilosKnown'
  BY <1>1, MetadataAssumption DEF SilosKnown, Entering, NoJob
<1>6. ReportsTrue'
  BY <1>1 DEF ReportsTrue, Ended, NoJob
<1> QED
  BY <1>2, <1>3, <1>4, <1>5, <1>6 DEF ServerInv

\* startSiloInternal returns before it has done anything.
LEMMA StartRefusedStep ==
  ASSUME ServerTypes, LockOwned, JobKnows, SilosKnown, ReportsTrue,
         StartRefused
  PROVE  ServerInv'
<1>1. /\ job.pc = "start" /\ lock = "up" /\ collector.pc # "stopping" /\ closer # "loop"
      /\ lock' = "free" /\ job' = NoJob
      /\ UNCHANGED <<silo, silos, nameOf, waiter, collector, closer>>
  BY DEF LockOwned, StartRefused, AtJob, Unlock, siloVars
<1>2. ServerTypes'
  BY <1>1 DEF ServerTypes, JobPCs, NoJob, Launching, Entering, Owning
<1>3. LockOwned'
  BY <1>1 DEF ServerTypes, LockOwned, NoJob
<1>4. JobKnows'
  BY <1>1 DEF ServerTypes, JobKnows, NoJob, Launching, Entering, Owning, OtherSilos
<1>5. SilosKnown'
  BY <1>1, MetadataAssumption DEF ServerTypes, SilosKnown, Entering, NoJob, OtherSilos
<1>6. ReportsTrue'
  BY <1>1 DEF ServerTypes, ReportsTrue, Ended, OtherSilos
<1> QED
  BY <1>2, <1>3, <1>4, <1>5, <1>6 DEF ServerInv

\* The collector starts.
LEMMA CollectorRunsStep ==
  ASSUME ServerTypes, LockOwned, JobKnows, SilosKnown, ReportsTrue,
         CollectorRuns
  PROVE  ServerInv'
<1>1. /\ lock # "collector" /\ collector' = [collector EXCEPT !.pc = "recv"]
      /\ UNCHANGED <<silo, lock, job, silos, nameOf, waiter, closer>>
  BY DEF LockOwned, CollectorRuns, siloVars
<1>2. ServerTypes'
  BY <1>1 DEF ServerTypes, JobPCs, NoJob, Launching, Entering, Owning
<1>3. LockOwned'
  BY <1>1 DEF ServerTypes, LockOwned, NoJob
<1>4. JobKnows'
  BY <1>1 DEF JobKnows
<1>5. SilosKnown'
  BY <1>1, MetadataAssumption DEF SilosKnown
<1>6. ReportsTrue'
  BY <1>1 DEF ServerTypes, ReportsTrue, Ended, OtherSilos
<1> QED
  BY <1>2, <1>3, <1>4, <1>5, <1>6 DEF ServerInv

\* The collector takes the lock, for a silo whose process has ended.
LEMMA CollectStep ==
  ASSUME ServerTypes, LockOwned, JobKnows, SilosKnown, ReportsTrue,
         Collect
  PROVE  ServerInv'
<1>1. /\ lock = "free" /\ job.pc = "none" /\ collector.pc # "stopping" /\ closer # "loop"
      /\ collector.id \in SiloIDs /\ silo[collector.id].child \notin {"none", "alive"}
      /\ nameOf[collector.id] \in Names
      /\ \/ /\ lock' = "collector" /\ silos[nameOf[collector.id]] = collector.id
            /\ job' = [pc |-> "stop", name |-> nameOf[collector.id], id |-> collector.id]
            /\ collector' = [collector EXCEPT !.pc = "stopping"]
         \/ collector' = [pc |-> "recv", id |-> None] /\ UNCHANGED <<lock, job>>
      /\ UNCHANGED <<silo, silos, nameOf, waiter, closer>>
  BY DEF LockOwned, SilosKnown, ReportsTrue, Ended, Collect, siloVars
<1>2. ServerTypes'
  BY <1>1 DEF ServerTypes, JobPCs, NoJob, Launching, Entering, Owning
<1>3. LockOwned'
  BY <1>1 DEF ServerTypes, LockOwned, NoJob
<1>4. JobKnows'
  BY <1>1 DEF ServerTypes, JobKnows, NoJob, Launching, Entering, Owning, OtherSilos
<1>5. SilosKnown'
  BY <1>1, MetadataAssumption DEF ServerTypes, SilosKnown, Entering, NoJob, OtherSilos
<1>6. ReportsTrue'
  BY <1>1 DEF ServerTypes, ReportsTrue, Ended, OtherSilos
<1> QED
  BY <1>2, <1>3, <1>4, <1>5, <1>6 DEF ServerInv

\* The collector returns.
LEMMA CollectorReturnsStep ==
  ASSUME ServerTypes, LockOwned, JobKnows, SilosKnown, ReportsTrue,
         CollectorReturns
  PROVE  ServerInv'
<1>1. /\ lock # "collector" /\ collector' = [pc |-> "exited", id |-> None]
      /\ UNCHANGED <<silo, lock, job, silos, nameOf, waiter, closer>>
  BY DEF LockOwned, CollectorReturns, siloVars
<1>2. ServerTypes'
  BY <1>1 DEF ServerTypes, JobPCs, NoJob, Launching, Entering, Owning
<1>3. LockOwned'
  BY <1>1 DEF ServerTypes, LockOwned, NoJob
<1>4. JobKnows'
  BY <1>1 DEF JobKnows
<1>5. SilosKnown'
  BY <1>1, MetadataAssumption DEF SilosKnown
<1>6. ReportsTrue'
  BY <1>1 DEF ServerTypes, ReportsTrue, Ended, OtherSilos
<1> QED
  BY <1>2, <1>3, <1>4, <1>5, <1>6 DEF ServerInv

\* Wait returns at once only for a silo that was closed, whose process has ended.
LEMMA WaitEnterStep ==
  ASSUME ServerTypes, LockOwned, JobKnows, SilosKnown, ReportsTrue,
         NEW id \in SiloIDs, silo[id].child = "alive" => silo[id].State = "Running",
         WaitEnter(id)
  PROVE  ServerInv'
<1>1. /\ waiter[id] = "start" /\ UNCHANGED <<silo, lock, job, silos, nameOf, collector, closer>>
      /\ \/ silo[id].State = "Running" /\ waiter' = [waiter EXCEPT ![id] = "wait"]
         \/ silo[id].State # "Running" /\ waiter' = [waiter EXCEPT ![id] = "returned"]
  BY DEF WaitEnter, SetWaiter, siloVars
<1>2. ServerTypes'
  BY <1>1 DEF ServerTypes, JobPCs, NoJob, Launching, Entering, Owning
<1>3. LockOwned'
  BY <1>1 DEF LockOwned
<1>4. JobKnows'
  BY <1>1 DEF JobKnows
<1>5. SilosKnown'
  BY <1>1, MetadataAssumption DEF SilosKnown
<1>6. ReportsTrue'
  BY <1>1 DEF ServerTypes, ReportsTrue, Ended, OtherSilos
<1> QED
  BY <1>2, <1>3, <1>4, <1>5, <1>6 DEF ServerInv

\* A waiter looks at Server.closing.
LEMMA WaitNotifyStep ==
  ASSUME ServerTypes, LockOwned, JobKnows, SilosKnown, ReportsTrue,
         NEW id \in SiloIDs, WaitNotify(id)
  PROVE  ServerInv'
<1>1. /\ waiter[id] = "returned" /\ UNCHANGED <<silo, lock, job, silos, nameOf, collector, closer>>
      /\ \E w \in {"send", "over"} : waiter' = [waiter EXCEPT ![id] = w]
  BY DEF WaitNotify, SetWaiter, siloVars
<1>2. ServerTypes'
  BY <1>1 DEF ServerTypes, JobPCs, NoJob, Launching, Entering, Owning
<1>3. LockOwned'
  BY <1>1 DEF LockOwned
<1>4. JobKnows'
  BY <1>1 DEF JobKnows
<1>5. SilosKnown'
  BY <1>1, MetadataAssumption DEF SilosKnown
<1>6. ReportsTrue'
  BY <1>1 DEF ServerTypes, ReportsTrue, Ended, OtherSilos
<1> QED
  BY <1>2, <1>3, <1>4, <1>5, <1>6 DEF ServerInv

\* A report reaches the collector.
LEMMA SendStep ==
  ASSUME ServerTypes, LockOwned, JobKnows, SilosKnown, ReportsTrue,
         NEW id \in SiloIDs, Send(id)
  PROVE  ServerInv'
<1>1. /\ lock # "collector" /\ waiter[id] = "send" /\ UNCHANGED <<silo, lock, job, silos, nameOf, closer>>
      /\ waiter' = [waiter EXCEPT ![id] = "over"] /\ collector' = [pc |-> "got", id |-> id]
  BY DEF LockOwned, Send, siloVars
<1>2. ServerTypes'
  BY <1>1 DEF ServerTypes, JobPCs, NoJob, Launching, Entering, Owning
<1>3. LockOwned'
  BY <1>1 DEF ServerTypes, LockOwned, NoJob
<1>4. JobKnows'
  BY <1>1 DEF JobKnows
<1>5. SilosKnown'
  BY <1>1, MetadataAssumption DEF SilosKnown
<1>6. ReportsTrue'
  BY <1>1 DEF ServerTypes, ReportsTrue, Ended, OtherSilos
<1> QED
  BY <1>2, <1>3, <1>4, <1>5, <1>6 DEF ServerInv

\* A silo gets its name, which nobody has.
LEMMA RegisterStep ==
  ASSUME ServerTypes, LockOwned, JobKnows, SilosKnown, ReportsTrue,
         Register
  PROVE  ServerInv'
<1>1. /\ job.pc = "register" /\ job.name \in Names /\ job.id \in SiloIDs
      /\ lock = "up" /\ collector.pc # "stopping" /\ closer # "loop"
      /\ silos[job.name] = None /\ nameOf[job.id] = job.name /\ silo[job.id].child # "none"
      /\ silos' = [silos EXCEPT ![job.name] = job.id] /\ job' = [job EXCEPT !.pc = "spawn"]
      /\ UNCHANGED <<silo, lock, nameOf, waiter, collector, closer>>
  BY DEF LockOwned, JobKnows, Entering, Register, AtJob, Step, siloVars
<1>2. ServerTypes'
  BY <1>1 DEF ServerTypes, JobPCs, NoJob, Launching, Entering, Owning
<1>3. LockOwned'
  BY <1>1 DEF ServerTypes, LockOwned, NoJob
<1>4. JobKnows'
  BY <1>1 DEF ServerTypes, JobKnows, NoJob, Launching, Entering, Owning, OtherSilos
<1>5. SilosKnown'
  BY <1>1, MetadataAssumption DEF ServerTypes, SilosKnown, Entering, NoJob, OtherSilos
<1>6. ReportsTrue'
  BY <1>1 DEF ServerTypes, ReportsTrue, Ended, OtherSilos
<1> QED
  BY <1>2, <1>3, <1>4, <1>5, <1>6 DEF ServerInv

\* A waiter is spawned for a silo that was started.
LEMMA SpawnWaiterStep ==
  ASSUME ServerTypes, LockOwned, JobKnows, SilosKnown, ReportsTrue,
         SpawnWaiter
  PROVE  ServerInv'
<1>1. /\ job.pc = "spawn" /\ job.name \in Names /\ job.id \in SiloIDs
      /\ lock = "up" /\ collector.pc # "stopping" /\ closer # "loop"
      /\ silo[job.id].child # "none"
      /\ waiter' = [waiter EXCEPT ![job.id] = "start"]
      /\ lock' = "free" /\ job' = NoJob
      /\ UNCHANGED <<silo, silos, nameOf, collector, closer>>
  BY MetadataAssumption DEF LockOwned, JobKnows, Owning, SilosKnown, SpawnWaiter, AtJob, Unlock,
                            siloVars
<1>2. ServerTypes'
  BY <1>1 DEF ServerTypes, JobPCs, NoJob, Launching, Entering, Owning
<1>3. LockOwned'
  BY <1>1 DEF ServerTypes, LockOwned, NoJob
<1>4. JobKnows'
  BY <1>1 DEF JobKnows, Launching, Entering, Owning, NoJob
<1>5. SilosKnown'
  BY <1>1, MetadataAssumption DEF ServerTypes, SilosKnown, Entering, NoJob, OtherSilos
<1>6. ReportsTrue'
  BY <1>1 DEF ServerTypes, ReportsTrue, Ended, OtherSilos
<1> QED
  BY <1>2, <1>3, <1>4, <1>5, <1>6 DEF ServerInv

\* stopSiloInternal tells the metadata service.
LEMMA StopNotifyStep ==
  ASSUME ServerTypes, LockOwned, JobKnows, SilosKnown, ReportsTrue,
         StopNotify
  PROVE  ServerInv'
<1>1. /\ job.pc = "stop" /\ job.name \in Names /\ job.id \in SiloIDs /\ silos[job.name] = job.id
      /\ job' = [job EXCEPT !.pc = "close"] /\ UNCHANGED <<silo, lock, silos, nameOf, waiter, collector, closer>>
  BY DEF LockOwned, JobKnows, Owning, StopNotify, AtJob, Step, siloVars
<1>2. ServerTypes'
  BY <1>1 DEF ServerTypes, JobPCs, NoJob, Launching, Entering, Owning
<1>3. LockOwned'
  BY <1>1 DEF ServerTypes, LockOwned, NoJob
<1>4. JobKnows'
  BY <1>1 DEF ServerTypes, JobKnows, NoJob, Launching, Entering, Owning, OtherSilos
<1>5. SilosKnown'
  BY <1>1, MetadataAssumption DEF ServerTypes, SilosKnown, Entering, NoJob, OtherSilos
<1>6. ReportsTrue'
  BY <1>1 DEF ServerTypes, ReportsTrue, Ended, OtherSilos
<1> QED
  BY <1>2, <1>3, <1>4, <1>5, <1>6 DEF ServerInv

-----------------------------------------------------------------------------
\* Steps that change the silo of the call in progress.

\* The pool has no interface to give.
LEMMA NoInterfaceStep ==
  ASSUME ServerTypes, LockOwned, JobKnows, SilosKnown, ReportsTrue,
         StartInterface, Unlock, UNCHANGED <<silo, nameOf>>
  PROVE  ServerInv'
<1>1. /\ job.pc = "start" /\ lock = "up" /\ collector.pc # "stopping" /\ closer # "loop"
      /\ lock' = "free" /\ job' = NoJob
      /\ UNCHANGED <<silo, silos, nameOf, waiter, collector, closer>>
  BY DEF LockOwned, StartInterface, AtJob, Unlock
<1>2. ServerTypes'
  BY <1>1 DEF ServerTypes, JobPCs, NoJob, Launching, Entering, Owning
<1>3. LockOwned'
  BY <1>1 DEF ServerTypes, LockOwned, NoJob
<1>4. JobKnows'
  BY <1>1 DEF ServerTypes, JobKnows, NoJob, Launching, Entering, Owning, OtherSilos
<1>5. SilosKnown'
  BY <1>1, MetadataAssumption DEF ServerTypes, SilosKnown, Entering, NoJob, OtherSilos
<1>6. ReportsTrue'
  BY <1>1 DEF ServerTypes, ReportsTrue, Ended, OtherSilos
<1> QED
  BY <1>2, <1>3, <1>4, <1>5, <1>6 DEF ServerInv

\* The silo to come, which has no process, gets its name and its addresses.
LEMMA InterfaceStep ==
  ASSUME ServerTypes, LockOwned, JobKnows, SilosKnown, ReportsTrue,
         NEW id \in SiloIDs, silo[id].child = "none", job.pc = "start",
         nameOf' = [nameOf EXCEPT ![id] = job.name], job' = [job EXCEPT !.pc = "new", !.id = id],
         UNCHANGED <<lock, silos, waiter, collector, closer>>,
         OtherSilos(id), silo'[id].State = "None", silo'[id].child = "none", silo'[id].slice # <<>>
  PROVE  ServerInv'
<1>1. job.name \in Names /\ lock = "up" /\ collector.pc # "stopping" /\ closer # "loop" /\ silos[job.name] = None
  BY DEF LockOwned, JobKnows
<1>2. ServerTypes'
  BY <1>1 DEF ServerTypes, JobPCs, NoJob, Launching, Entering, Owning
<1>3. LockOwned'
  BY <1>1 DEF ServerTypes, LockOwned, NoJob
<1>4. JobKnows'
  BY <1>1 DEF ServerTypes, JobKnows, NoJob, Launching, Entering, Owning, OtherSilos
<1>5. SilosKnown'
  BY <1>1, MetadataAssumption DEF ServerTypes, SilosKnown, Entering, NoJob, OtherSilos
<1>6. ReportsTrue'
  BY <1>1 DEF ServerTypes, ReportsTrue, Ended, OtherSilos
<1> QED
  BY <1>2, <1>3, <1>4, <1>5, <1>6 DEF ServerInv

\* NewSilo.
LEMMA NewStep ==
  ASSUME ServerTypes, LockOwned, JobKnows, SilosKnown, ReportsTrue,
         StartNew, OtherSilos(job.id),
         silo'[job.id].State = "Setup",
         silo'[job.id].child = silo[job.id].child, silo'[job.id].slice = silo[job.id].slice, Step("init")
  PROVE  ServerInv'
<1>1. /\ job.pc = "new" /\ job.name \in Names /\ job.id \in SiloIDs
      /\ lock = "up" /\ collector.pc # "stopping" /\ closer # "loop"
      /\ silos[job.name] = None /\ nameOf[job.id] = job.name
      /\ silo[job.id].child = "none" /\ silo[job.id].slice # <<>>
      /\ job' = [job EXCEPT !.pc = "init"]
      /\ UNCHANGED <<lock, silos, nameOf, waiter, collector, closer>>
  BY DEF LockOwned, JobKnows, Launching, StartNew, AtJob, Step
<1>2. ServerTypes'
  BY <1>1 DEF ServerTypes, JobPCs, NoJob, Launching, Entering, Owning
<1>3. LockOwned'
  BY <1>1 DEF ServerTypes, LockOwned, NoJob
<1>4. JobKnows'
  BY <1>1 DEF ServerTypes, JobKnows, NoJob, Launching, Entering, Owning, OtherSilos
<1>5. SilosKnown'
  BY <1>1, MetadataAssumption DEF ServerTypes, SilosKnown, Entering, NoJob, OtherSilos
<1>6. ReportsTrue'
  BY <1>1 DEF ServerTypes, ReportsTrue, Ended, OtherSilos
<1> QED
  BY <1>2, <1>3, <1>4, <1>5, <1>6 DEF ServerInv

\* NewSilo has no random name to give.
LEMMA NewFailsStep ==
  ASSUME ServerTypes, LockOwned, JobKnows, SilosKnown, ReportsTrue,
         StartNew, OtherSilos(job.id),
         silo'[job.id] = silo[job.id], Step("giveBack")
  PROVE  ServerInv'
<1>1. /\ job.pc = "new" /\ job.name \in Names /\ job.id \in SiloIDs
      /\ lock = "up" /\ collector.pc # "stopping" /\ closer # "loop"
      /\ silos[job.name] = None /\ nameOf[job.id] = job.name
      /\ silo[job.id].child = "none" /\ silo[job.id].slice # <<>>
      /\ job' = [job EXCEPT !.pc = "giveBack"]
      /\ UNCHANGED <<lock, silos, nameOf, waiter, collector, closer>>
  BY DEF LockOwned, JobKnows, Launching, StartNew, AtJob, Step
<1>2. ServerTypes'
  BY <1>1 DEF ServerTypes, JobPCs, NoJob, Launching, Entering, Owning
<1>3. LockOwned'
  BY <1>1 DEF ServerTypes, LockOwned, NoJob
<1>4. JobKnows'
  BY <1>1 DEF ServerTypes, JobKnows, NoJob, Launching, Entering, Owning, OtherSilos
<1>5. SilosKnown'
  BY <1>1, MetadataAssumption DEF ServerTypes, SilosKnown, Entering, NoJob, OtherSilos
<1>6. ReportsTrue'
  BY <1>1 DEF ServerTypes, ReportsTrue, Ended, OtherSilos
<1> QED
  BY <1>2, <1>3, <1>4, <1>5, <1>6 DEF ServerInv

\* Init.
LEMMA InitStep ==
  ASSUME ServerTypes, LockOwned, JobKnows, SilosKnown, ReportsTrue,
         StartInit, OtherSilos(job.id),
         silo'[job.id].State = "Pending",
         silo'[job.id].child = silo[job.id].child, silo'[job.id].slice = silo[job.id].slice, Step("launch")
  PROVE  ServerInv'
<1>1. /\ job.pc = "init" /\ job.name \in Names /\ job.id \in SiloIDs
      /\ lock = "up" /\ collector.pc # "stopping" /\ closer # "loop"
      /\ silos[job.name] = None /\ nameOf[job.id] = job.name
      /\ silo[job.id].child = "none" /\ silo[job.id].slice # <<>>
      /\ job' = [job EXCEPT !.pc = "launch"]
      /\ UNCHANGED <<lock, silos, nameOf, waiter, collector, closer>>
  BY DEF LockOwned, JobKnows, Launching, StartInit, AtJob, Step
<1>2. ServerTypes'
  BY <1>1 DEF ServerTypes, JobPCs, NoJob, Launching, Entering, Owning
<1>3. LockOwned'
  BY <1>1 DEF ServerTypes, LockOwned, NoJob
<1>4. JobKnows'
  BY <1>1 DEF ServerTypes, JobKnows, NoJob, Launching, Entering, Owning, OtherSilos
<1>5. SilosKnown'
  BY <1>1, MetadataAssumption DEF ServerTypes, SilosKnown, Entering, NoJob, OtherSilos
<1>6. ReportsTrue'
  BY <1>1 DEF ServerTypes, ReportsTrue, Ended, OtherSilos
<1> QED
  BY <1>2, <1>3, <1>4, <1>5, <1>6 DEF ServerInv

\* Init fails.
LEMMA InitFailsStep ==
  ASSUME ServerTypes, LockOwned, JobKnows, SilosKnown, ReportsTrue,
         StartInit, OtherSilos(job.id),
         silo'[job.id].State \in {"Setup", "InternalError"},
         silo'[job.id].child = silo[job.id].child, silo'[job.id].slice = silo[job.id].slice, Step("closeUninitialised")
  PROVE  ServerInv'
<1>1. /\ job.pc = "init" /\ job.name \in Names /\ job.id \in SiloIDs
      /\ lock = "up" /\ collector.pc # "stopping" /\ closer # "loop"
      /\ silos[job.name] = None /\ nameOf[job.id] = job.name
      /\ silo[job.id].child = "none" /\ silo[job.id].slice # <<>>
      /\ job' = [job EXCEPT !.pc = "closeUninitialised"]
      /\ UNCHANGED <<lock, silos, nameOf, waiter, collector, closer>>
  BY DEF LockOwned, JobKnows, Launching, StartInit, AtJob, Step
<1>2. ServerTypes'
  BY <1>1 DEF ServerTypes, JobPCs, NoJob, Launching, Entering, Owning
<1>3. LockOwned'
  BY <1>1 DEF ServerTypes, LockOwned, NoJob
<1>4. JobKnows'
  BY <1>1 DEF ServerTypes, JobKnows, NoJob, Launching, Entering, Owning, OtherSilos
<1>5. SilosKnown'
  BY <1>1, MetadataAssumption DEF ServerTypes, SilosKnown, Entering, NoJob, OtherSilos
<1>6. ReportsTrue'
  BY <1>1 DEF ServerTypes, ReportsTrue, Ended, OtherSilos
<1> QED
  BY <1>2, <1>3, <1>4, <1>5, <1>6 DEF ServerInv

\* Start, with the process still running or over already.
LEMMA LaunchStep ==
  ASSUME ServerTypes, LockOwned, JobKnows, SilosKnown, ReportsTrue,
         StartLaunch, OtherSilos(job.id),
         silo'[job.id].State = "Running",
         silo'[job.id].child \in {"alive", "zombie"}, Step("register")
  PROVE  ServerInv'
<1>1. /\ job.pc = "launch" /\ job.name \in Names /\ job.id \in SiloIDs
      /\ lock = "up" /\ collector.pc # "stopping" /\ closer # "loop"
      /\ silos[job.name] = None /\ nameOf[job.id] = job.name
      /\ silo[job.id].child = "none" /\ silo[job.id].slice # <<>>
      /\ job' = [job EXCEPT !.pc = "register"]
      /\ UNCHANGED <<lock, silos, nameOf, waiter, collector, closer>>
  BY DEF LockOwned, JobKnows, Launching, StartLaunch, AtJob, Step
<1>2. ServerTypes'
  BY <1>1 DEF ServerTypes, JobPCs, NoJob, Launching, Entering, Owning
<1>3. LockOwned'
  BY <1>1 DEF ServerTypes, LockOwned, NoJob
<1>4. JobKnows'
  BY <1>1 DEF ServerTypes, JobKnows, NoJob, Launching, Entering, Owning, OtherSilos
<1>5. SilosKnown'
  BY <1>1, MetadataAssumption DEF ServerTypes, SilosKnown, Entering, NoJob, OtherSilos
<1>6. ReportsTrue'
  BY <1>1 DEF ServerTypes, ReportsTrue, Ended, OtherSilos
<1> QED
  BY <1>2, <1>3, <1>4, <1>5, <1>6 DEF ServerInv

\* Start fails, with or without a process.
LEMMA LaunchFailsStep ==
  ASSUME ServerTypes, LockOwned, JobKnows, SilosKnown, ReportsTrue,
         StartLaunch, OtherSilos(job.id),
         silo'[job.id].State = "Running",
         silo'[job.id].child \in {silo[job.id].child, "alive", "zombie"}, Step("abandon")
  PROVE  ServerInv'
<1>1. /\ job.pc = "launch" /\ job.name \in Names /\ job.id \in SiloIDs
      /\ lock = "up" /\ collector.pc # "stopping" /\ closer # "loop"
      /\ silos[job.name] = None /\ nameOf[job.id] = job.name
      /\ silo[job.id].child = "none" /\ silo[job.id].slice # <<>>
      /\ job' = [job EXCEPT !.pc = "abandon"]
      /\ UNCHANGED <<lock, silos, nameOf, waiter, collector, closer>>
  BY DEF LockOwned, JobKnows, Launching, StartLaunch, AtJob, Step
<1>2. ServerTypes'
  BY <1>1 DEF ServerTypes, JobPCs, NoJob, Launching, Entering, Owning
<1>3. LockOwned'
  BY <1>1 DEF ServerTypes, LockOwned, NoJob
<1>4. JobKnows'
  BY <1>1 DEF ServerTypes, JobKnows, NoJob, Launching, Entering, Owning, OtherSilos
<1>5. SilosKnown'
  BY <1>1, MetadataAssumption DEF ServerTypes, SilosKnown, Entering, NoJob, OtherSilos
<1>6. ReportsTrue'
  BY <1>1 DEF ServerTypes, ReportsTrue, Ended, OtherSilos
<1> QED
  BY <1>2, <1>3, <1>4, <1>5, <1>6 DEF ServerInv

\* Close after Init failed leaves the struct as it is.
LEMMA CloseUninitialisedStep ==
  ASSUME ServerTypes, LockOwned, JobKnows, SilosKnown, ReportsTrue,
         CloseUninitialised, OtherSilos(job.id),
         silo[job.id].State # "Running" => silo'[job.id] = silo[job.id], Step("giveBack")
  PROVE  ServerInv'
<1>1. /\ job.pc = "closeUninitialised" /\ job.name \in Names /\ job.id \in SiloIDs
      /\ lock = "up" /\ collector.pc # "stopping" /\ closer # "loop"
      /\ silos[job.name] = None /\ nameOf[job.id] = job.name
      /\ silo[job.id].child = "none" /\ silo[job.id].slice # <<>>
      /\ silo'[job.id] = silo[job.id]
      /\ job' = [job EXCEPT !.pc = "giveBack"]
      /\ UNCHANGED <<lock, silos, nameOf, waiter, collector, closer>>
  BY DEF LockOwned, JobKnows, Launching, CloseUninitialised, AtJob, Step
<1>2. ServerTypes'
  BY <1>1 DEF ServerTypes, JobPCs, NoJob, Launching, Entering, Owning
<1>3. LockOwned'
  BY <1>1 DEF ServerTypes, LockOwned, NoJob
<1>4. JobKnows'
  BY <1>1 DEF ServerTypes, JobKnows, NoJob, Launching, Entering, Owning, OtherSilos
<1>5. SilosKnown'
  BY <1>1, MetadataAssumption DEF ServerTypes, SilosKnown, Entering, NoJob, OtherSilos
<1>6. ReportsTrue'
  BY <1>1 DEF ServerTypes, ReportsTrue, Ended, OtherSilos
<1> QED
  BY <1>2, <1>3, <1>4, <1>5, <1>6 DEF ServerInv

\* A silo whose process does not run may lose its name; those of the others stay.
LEMMA EndedSiloKnown ==
  ASSUME ServerTypes, SilosKnown, NEW id \in SiloIDs, OtherSilos(id), job.id = id,
         silo'[id].child # "alive", (silo'[id].child = "none") <=> (silo[id].child = "none"),
         silo'[id].child # "none" => silo'[id].State \in {"Running", "Finished"},
         \A n \in Names : silos'[n] = silos[n] \/ (silos'[n] = None /\ silos[n] = id),
         UNCHANGED nameOf
  PROVE  SilosKnown'
<1>1. ASSUME NEW j \in SiloIDs, silo'[j].child # "none"
      PROVE  silo'[j].State \in {"Running", "Finished"} /\ nameOf[j] \in Names
  BY <1>1 DEF SilosKnown, OtherSilos
<1>2. ASSUME NEW j \in SiloIDs, silo'[j].child = "alive"
      PROVE  silos'[nameOf[j]] = j
  <2>1. j # id /\ silo[j].child = "alive"
    BY <1>2 DEF OtherSilos
  <2>2. nameOf[j] \in Names /\ silos[nameOf[j]] = j
    BY <2>1 DEF SilosKnown
  <2> QED
    BY <2>1, <2>2
<1>3. ASSUME NEW n \in Names, silos'[n] # None
      PROVE  nameOf[silos'[n]] = n /\ silo'[silos'[n]].child # "none"
  <2>1. silos'[n] = silos[n] /\ silos[n] \in SiloIDs
    BY <1>3 DEF ServerTypes
  <2>2. nameOf[silos[n]] = n /\ silo[silos[n]].child # "none"
    BY <1>3, <2>1 DEF SilosKnown
  <2> QED
    BY <2>1, <2>2 DEF OtherSilos
<1> QED
  BY <1>1, <1>2, <1>3 DEF SilosKnown

\* A process that is closed has ended, if there was one.
LEMMA EndedSiloReported ==
  ASSUME ReportsTrue, NEW id \in SiloIDs, OtherSilos(id), lock # "collector", lock' # "collector",
         silo'[id].child # "alive", (silo'[id].child = "none") <=> (silo[id].child = "none"),
         UNCHANGED <<waiter, collector>>
  PROVE  ReportsTrue'
<1>1. \A j \in SiloIDs : silo[j].child # "none" => silo'[j].child # "none"
  BY DEF OtherSilos
<1>2. \A j : Ended(j) => Ended(j)'
  BY DEF OtherSilos, Ended
<1> QED
  BY <1>1, <1>2 DEF ReportsTrue

\* The addresses go back.
LEMMA GiveBackStep ==
  ASSUME ServerTypes, LockOwned, JobKnows, SilosKnown, ReportsTrue,
         GiveBack, OtherSilos(job.id), silo'[job.id].child = silo[job.id].child
  PROVE  ServerInv'
<1>1. /\ job.pc = "giveBack" /\ job.name \in Names /\ job.id \in SiloIDs
      /\ lock = "up" /\ collector.pc # "stopping" /\ closer # "loop"
      /\ silo[job.id].child = "none" /\ silo'[job.id].child = "none"
      /\ lock' = "free" /\ job' = NoJob
      /\ UNCHANGED <<silos, nameOf, waiter, collector, closer>>
  BY DEF LockOwned, JobKnows, Launching, GiveBack, AtJob, Unlock
<1>2. ServerTypes'
  BY <1>1 DEF ServerTypes, JobPCs, NoJob, Launching, Entering, Owning
<1>3. LockOwned'
  BY <1>1 DEF ServerTypes, LockOwned, NoJob
<1>4. JobKnows'
  BY <1>1 DEF JobKnows, Launching, Entering, Owning, NoJob
<1>5. SilosKnown'
  BY <1>1, EndedSiloKnown
<1>6. ReportsTrue'
  BY <1>1 DEF ServerTypes, ReportsTrue, Ended, OtherSilos
<1> QED
  BY <1>2, <1>3, <1>4, <1>5, <1>6 DEF ServerInv

\* Close after Start failed: a process that was started is killed.
LEMMA AbandonStep ==
  ASSUME ServerTypes, LockOwned, JobKnows, SilosKnown, ReportsTrue,
         Abandon, OtherSilos(job.id), CloseKilled(job.id)
  PROVE  ServerInv'
<1>1. /\ job.pc = "abandon" /\ job.name \in Names /\ job.id \in SiloIDs
      /\ lock = "up" /\ collector.pc # "stopping" /\ closer # "loop"
      /\ silo'[job.id].child # "alive" /\ silo'[job.id].State \in {"Running", "Finished"}
      /\ (silo'[job.id].child = "none") <=> (silo[job.id].child = "none")
      /\ lock' = "free" /\ job' = NoJob
      /\ UNCHANGED <<silos, nameOf, waiter, collector, closer>>
  BY DEF LockOwned, JobKnows, Entering, CloseKilled, Abandon, AtJob, Unlock
<1>2. ServerTypes'
  BY <1>1 DEF ServerTypes, JobPCs, NoJob, Launching, Entering, Owning
<1>3. LockOwned'
  BY <1>1 DEF ServerTypes, LockOwned, NoJob
<1>4. JobKnows'
  BY <1>1 DEF JobKnows, Launching, Entering, Owning, NoJob
<1>5. SilosKnown'
  BY <1>1, EndedSiloKnown
<1>6. ReportsTrue'
  BY <1>1, EndedSiloReported
<1> QED
  BY <1>2, <1>3, <1>4, <1>5, <1>6 DEF ServerInv

\* The end of stopSiloInternal: the silo is killed, and it loses its name unless
\* an error was met; then its process has ended and it may be stopped again.
LEMMA StopCloseStep ==
  ASSUME ServerTypes, LockOwned, JobKnows, SilosKnown, ReportsTrue,
         NEW ok \in BOOLEAN, job.pc = "close", StopReturns(ok), UNCHANGED <<nameOf, waiter>>,
         silos' = IF ok THEN [silos EXCEPT ![job.name] = None] ELSE silos,
         OtherSilos(job.id), CloseKilled(job.id)
  PROVE  ServerInv'
<1>1. /\ job.name \in Names /\ job.id \in SiloIDs /\ lock # "free"
      /\ silos[job.name] = job.id /\ nameOf[job.id] = job.name
      /\ silo'[job.id].child \notin {"none", "alive"} /\ silo[job.id].child # "none"
      /\ silo'[job.id].State \in {"Running", "Finished"}
  BY MetadataAssumption DEF LockOwned, JobKnows, Owning, SilosKnown, CloseKilled
<1>2. /\ silos' \in [Names -> SiloIDs \cup {None}]
      /\ \A n \in Names : n # job.name => silos'[n] = silos[n]
      /\ silos'[job.name] = IF ok THEN None ELSE job.id
  BY <1>1 DEF ServerTypes
<1>3. \/ ok /\ lock = "up" /\ job' = [pc |-> "start", name |-> job.name, id |-> None] /\ lock' = "up"
      \/ lock = "close" /\ job' = NoJob /\ lock' = "close"
      \/ job' = NoJob /\ lock' = "free"
  BY DEF StopReturns, Unlock
<1>4. closer' = IF lock = "close" /\ lock' = "free" THEN "failed" ELSE closer
  BY <1>1 DEF StopReturns, Unlock
<1>5. collector' = IF lock = "collector" THEN [pc |-> "recv", id |-> None] ELSE collector
  BY DEF StopReturns
<1>6. ServerTypes'
  <2>1. job' \in [pc : JobPCs, name : Names \cup {None}, id : SiloIDs \cup {None}]
    <3>1. NoJob \in [pc : JobPCs, name : Names \cup {None}, id : SiloIDs \cup {None}]
      BY DEF NoJob, JobPCs
    <3>2. [pc |-> "start", name |-> job.name, id |-> None]
            \in [pc : JobPCs, name : Names \cup {None}, id : SiloIDs \cup {None}]
      BY <1>1 DEF JobPCs
    <3> QED
      BY <1>3, <3>1, <3>2
  <2>2. lock' \in {"free", "up", "close"}
    BY <1>3
  <2>3. collector' \in [pc : {"spawned", "recv", "got", "stopping", "exited"},
                       id : SiloIDs \cup {None}]
    BY <1>5 DEF ServerTypes
  <2> QED
    BY <1>2, <1>4, <2>1, <2>2, <2>3 DEF ServerTypes
<1>7. LockOwned'
  <2>1. (lock' = "collector" <=> collector'.pc = "stopping") /\ (lock' = "close" <=> closer' = "loop")
    BY <1>3, <1>4, <1>5 DEF LockOwned
  <2>2. CASE lock' = "up" /\ job' = [pc |-> "start", name |-> job.name, id |-> None]
    BY <1>1, <2>1, <2>2 DEF LockOwned
  <2>3. CASE lock' \in {"free", "close"} /\ job' = NoJob
    BY <2>1, <2>3 DEF LockOwned, NoJob
  <2> QED
    BY <1>3, <2>2, <2>3
<1>8. JobKnows'
  <2>1. job'.pc \in {"none", "start"} /\ (job'.pc = "start" => silos'[job'.name] = None)
    <3>1. CASE job' = NoJob
      BY <3>1 DEF NoJob
    <3>2. CASE ok /\ job' = [pc |-> "start", name |-> job.name, id |-> None]
      BY <1>2, <3>2
    <3> QED
      BY <1>3, <3>1, <3>2
  <2> QED
    BY <2>1 DEF JobKnows, Launching, Entering, Owning
<1>9. SilosKnown'
  BY <1>1, <1>2, EndedSiloKnown
<1>10. ReportsTrue'
  BY <1>1, <1>3, <1>5 DEF ReportsTrue, Ended, OtherSilos, ServerTypes
<1> QED
  BY <1>6, <1>7, <1>8, <1>9, <1>10 DEF ServerInv

-----------------------------------------------------------------------------
\* Steps of the processes.

\* A process ends, or Wait goes on after one that has ended.
LEMMA ProcessStep ==
  ASSUME ServerTypes, LockOwned, JobKnows, SilosKnown, ReportsTrue, ProcessesGoOn,
         waiter' \in [SiloIDs -> {"none", "start", "wait", "reaping", "returned", "send", "over"}],
         \A j \in SiloIDs : waiter'[j] # waiter[j] => Ended(j)',
         UNCHANGED <<lock, job, silos, nameOf, collector, closer>>
  PROVE  ServerInv'
<1>1. ServerTypes' /\ LockOwned'
  BY DEF ServerTypes, LockOwned
<1>2. JobKnows'
  BY DEF ServerTypes, LockOwned, JobKnows, Launching, Entering, Owning, ProcessesGoOn
<1>3. SilosKnown'
  <2>1. ASSUME NEW j \in SiloIDs, silo'[j].child # "none"
        PROVE  silo'[j].State \in {"Running", "Finished"} /\ nameOf[j] \in Names
    BY <2>1 DEF SilosKnown, ProcessesGoOn
  <2>2. ASSUME NEW j \in SiloIDs, silo'[j].child = "alive"
        PROVE  silos[nameOf[j]] = j \/ (job.id = j /\ job.pc \in Entering)
    BY <2>2 DEF SilosKnown, ProcessesGoOn
  <2>3. ASSUME NEW n \in Names, silos[n] # None
        PROVE  nameOf[silos[n]] = n /\ silo'[silos[n]].child # "none"
    <3>1. silos[n] \in SiloIDs
      BY <2>3 DEF ServerTypes
    <3>2. nameOf[silos[n]] = n /\ silo[silos[n]].child # "none"
      BY <2>3 DEF SilosKnown
    <3> QED
      BY <3>1, <3>2 DEF ProcessesGoOn
  <2> QED
    BY <2>1, <2>2, <2>3 DEF SilosKnown
<1>4. ReportsTrue'
  <2>1. \A j : Ended(j) => Ended(j)'
    BY DEF Ended, ProcessesGoOn
  <2>2. \A j \in SiloIDs : waiter[j] # "none" => silo'[j].child # "none"
    BY DEF ReportsTrue, ProcessesGoOn
  <2> QED
    BY <2>1, <2>2 DEF ReportsTrue, Ended
<1> QED
  BY <1>1, <1>2, <1>3, <1>4 DEF ServerInv

-----------------------------------------------------------------------------
\* What the calls of the controller do to the struct and the process of a silo.

\* an interface comes with addresses
LEMMA TakeEffect ==
  ASSUME SiloInv, NEW id \in SiloIDs, TakeInterface(id)
  PROVE  /\ OtherSilos(id)
         /\ silo'[id].State = "None" /\ silo'[id].child = silo[id].child
         /\ silo'[id].slice # <<>>
<1>1. silo \in [SiloIDs -> StructType] /\ held \in [SiloIDs -> Slice \cup {<<>>}]
  BY SaneFacts
<1>2. IPInterface(pool).ok /\ held'[id] = IPInterface(pool).slice
  BY <1>1 DEF TakeInterface, PoolAlloc
<1>3. IPInterface(pool).slice \in Slice
  <2>1. PICK X : Sound(pool, X)
    BY DEF SiloInv, PoolInv
  <2> QED
    BY <1>2, <2>1, IPInterfaceSound
<1>4. IPInterface(pool).slice # <<>>
  <2>1. 1 \in DOMAIN IPInterface(pool).slice
    BY <1>3 DEF Slice
  <2>2. 1 \notin DOMAIN <<>>
    OBVIOUS
  <2> QED
    BY <2>1, <2>2
<1> QED
  BY <1>1, <1>2, <1>4 DEF TakeInterface, StructType, OtherSilos

LEMMA NewEffect ==
  ASSUME SiloInv, NEW id \in SiloIDs, NEW req, NewSilo(id, req)
  PROVE  /\ OtherSilos(id)
         /\ silo'[id].State = "Setup" /\ silo'[id].child = silo[id].child
         /\ silo'[id].slice = silo[id].slice
BY SaneFacts DEF NewSilo, StructType, OtherSilos

LEMMA InitEffect ==
  ASSUME SiloInv, NEW id \in SiloIDs
  PROVE  /\ InitSilo(id) => /\ OtherSilos(id) /\ silo'[id].State = "Pending"
                           /\ silo'[id].child = silo[id].child /\ silo'[id].slice = silo[id].slice
         /\ InitFails(id) => /\ OtherSilos(id)
                            /\ silo'[id].State \in {"Setup", "InternalError"}
                            /\ silo'[id].child = silo[id].child /\ silo'[id].slice = silo[id].slice
BY SaneFacts
   DEF InitSilo, InitFails, InitFailsTempDir, InitFailsBase, InitFailsFiles, InitFailsInvocation,
       siloVars, StructType, OtherSilos

LEMMA StartEffect ==
  ASSUME SiloInv, NEW id \in SiloIDs
  PROVE  /\ Start(id) => /\ OtherSilos(id) /\ silo'[id].State = "Running"
                         /\ silo'[id].child \in {"alive", "zombie"}
         /\ StartFails(id) => /\ OtherSilos(id) /\ silo'[id].State = "Running"
                              /\ silo'[id].child \in {silo[id].child, "alive", "zombie"}
<1>1. silo \in [SiloIDs -> StructType]
  BY SaneFacts
<1>2. ASSUME Start(id)
      PROVE  /\ OtherSilos(id) /\ silo'[id].State = "Running"
             /\ silo'[id].child \in {"alive", "zombie"}
  BY <1>1, <1>2 DEF Start, StructType, OtherSilos
<1>3. ASSUME StartFails(id)
      PROVE  /\ OtherSilos(id) /\ silo'[id].State = "Running"
             /\ silo'[id].child \in {silo[id].child, "alive", "zombie"}
  <2>1. CASE StartFailsExec(id)
    BY <1>1, <2>1 DEF StartFailsExec, StructType, OtherSilos
  <2>2. CASE StartFailsNet(id)
    <3>1. PICK c \in {"alive", "zombie"} :
            silo' = [silo EXCEPT ![id].State = "Running", ![id].child = c]
      BY <2>2 DEF StartFailsNet
    <3> QED
      BY <1>1, <3>1 DEF StructType, OtherSilos
  <2>3. CASE StartFailsLimit(id)
    <3>1. PICK c \in {"alive", "zombie"} :
            silo' = [silo EXCEPT ![id].State = "Running", ![id].child = c, ![id].isSetup = TRUE]
      BY <2>3 DEF StartFailsLimit
    <3> QED
      BY <1>1, <3>1 DEF StructType, OtherSilos
  <2> QED
    BY <1>3, <2>1, <2>2, <2>3 DEF StartFails
<1> QED
  BY <1>2, <1>3

LEMMA ReturnEffect ==
  ASSUME SiloInv, NEW id \in SiloIDs, ReturnSlice(id)
  PROVE  OtherSilos(id) /\ silo'[id].child = silo[id].child
BY SaneFacts DEF ReturnSlice, GiveSliceBack, StructType, OtherSilos

\* Close kills: it returns without doing so only when the process had ended.
LEMMA CloseKills ==
  ASSUME SiloInv, NEW id \in SiloIDs, NEW err, Close(id, err)
  PROVE  OtherSilos(id) /\ CloseKilled(id)
<1> DEFINE s == silo[id]
           Past(step) == HasProcess(s) /\ step < CloseStep[err]
<1>1. /\ err \in CloseErrors(s)
      /\ silo' = IF Past(1)
                 THEN [silo EXCEPT ![id].State = "Finished", ![id].child = Killed(@)]
                 ELSE silo
  BY Zenon DEF Close
<1>2. silo \in [SiloIDs -> StructType] /\ (s.child = "alive" => s.State = "Running")
  BY SaneFacts
<1>3. ASSUME s.child = "alive" PROVE Past(1)
  <2>1. err \in {"none", "root", "nat", "bridge", "cgroup"}
    BY <1>1, <1>3 DEF CloseErrors
  <2> QED
    BY <1>2, <1>3, <2>1 DEF CloseStep, HasProcess
<1>4. Past(1) => s.State = "Running" /\ s.child # "none"
  BY DEF HasProcess
<1> HIDE DEF Past
<1>5. CASE Past(1)
  BY <1>1, <1>2, <1>4, <1>5 DEF StructType, Killed, OtherSilos, CloseKilled
<1>6. CASE ~Past(1)
  BY <1>1, <1>2, <1>3, <1>6 DEF StructType, OtherSilos, CloseKilled
<1> QED
  BY <1>5, <1>6

LEMMA ChildEffect ==
  ASSUME SiloInv, NEW id \in SiloIDs, NEW b \in {"alive", "killed", "zombie", "done"},
         NEW c \in {"zombie", "done", "reaped"}, SetChild(id, b, c)
  PROVE  ProcessesGoOn /\ silo'[id].child = c
<1>1. silo \in [SiloIDs -> StructType] /\ silo[id].child = b
  BY SaneFacts DEF SetChild
<1>2. silo' = [silo EXCEPT ![id].child = c]
  BY DEF SetChild
<1> QED
  BY <1>1, <1>2 DEF StructType, ProcessesGoOn

-----------------------------------------------------------------------------
\* A call for one silo leaves the addresses and the host resources of the others
\* alone.
OthersHost(id) ==
  \A j \in SiloIDs : j # id =>
    /\ held'[j] = held[j]
    /\ (j \in host'.bridge) <=> (j \in host.bridge)
    /\ (j \in host'.nat) <=> (j \in host.nat)
    /\ (j \in host'.root) <=> (j \in host.root)

LEMMA CreationHost ==
  ASSUME SiloInv, NEW id \in SiloIDs,
         \/ TakeInterface(id) \/ (\E req \in Requests : NewSilo(id, req))
         \/ InitSilo(id) \/ InitFails(id) \/ ReturnSlice(id)
  PROVE  OthersHost(id) /\ host'.bridge = host.bridge /\ host'.nat = host.nat
<1>0. host \in HostType /\ held \in [SiloIDs -> Slice \cup {<<>>}]
  BY SaneFacts
<1>1. CASE TakeInterface(id)
  BY <1>0, <1>1 DEF TakeInterface, PoolAlloc, OthersHost
<1>2. CASE ReturnSlice(id)
  BY <1>0, <1>2 DEF ReturnSlice, GiveSliceBack, OthersHost
<1>3. ASSUME NEW req \in Requests, NewSilo(id, req)
      PROVE  OthersHost(id) /\ host'.bridge = host.bridge /\ host'.nat = host.nat
  <2>1. UNCHANGED held /\ \E made : host' = [host EXCEPT !.root = With(@, id, made)]
    BY <1>3 DEF NewSilo, poolVars
  <2> QED
    BY <1>0, <2>1 DEF HostType, With, OthersHost
<1>4. CASE InitSilo(id) \/ InitFails(id)
  <2>1. UNCHANGED held
    BY <1>4 DEF InitSilo, InitFails, InitFailsTempDir, InitFailsBase, InitFailsFiles,
                InitFailsInvocation, siloVars, poolVars
  <2>2. UNCHANGED host \/ MakeRoot(id)
    BY <1>4 DEF InitSilo, InitFails, InitFailsTempDir, InitFailsBase, InitFailsFiles,
                InitFailsInvocation, siloVars
  <2> QED
    BY <1>0, <2>1, <2>2 DEF MakeRoot, HostType, With, OthersHost
<1> QED
  BY <1>1, <1>2, <1>3, <1>4

\* Start, when it succeeds, has set up the bridge; it never touches the root.
LEMMA StartHost ==
  ASSUME SiloInv, NEW id \in SiloIDs, Start(id) \/ StartFails(id)
  PROVE  /\ OthersHost(id) /\ host'.root = host.root
         /\ Start(id) => id \in host'.bridge
<1>0. host \in HostType
  BY SaneFacts
<1>1. UNCHANGED held
  BY DEF Start, StartFails, StartFailsExec, StartFailsNet, StartFailsLimit, poolVars
<1>2. ASSUME NEW cg, host' = [InterfaceUp(host, id, silo[id].inet) EXCEPT !.cgroup = cg]
      PROVE  OthersHost(id) /\ host'.root = host.root /\ id \in host'.bridge
  BY <1>0, <1>1, <1>2 DEF InterfaceUp, HostType, With, OthersHost
<1>3. ASSUME NEW made, host' = [host EXCEPT !.bridge = With(@, id, made)]
      PROVE  OthersHost(id) /\ host'.root = host.root
  BY <1>0, <1>1, <1>3 DEF HostType, With, OthersHost
<1>4. CASE Start(id) \/ StartFailsLimit(id)
  <2>1. \E cg : host' = [InterfaceUp(host, id, silo[id].inet) EXCEPT !.cgroup = cg]
    BY <1>4 DEF Start, StartFailsLimit
  <2> QED
    BY <1>2, <2>1
<1>5. CASE StartFailsNet(id)
  <2>1. silo[id].State = "Pending" /\ \E made : host' = [host EXCEPT !.bridge = With(@, id, made)]
    BY <1>5 DEF StartFailsNet
  <2>2. ~Start(id) \/ id \in host'.bridge
    BY <1>4, <1>2 DEF Start
  <2> QED
    BY <1>3, <2>1, <2>2
<1>6. CASE StartFailsExec(id)
  <2>1. UNCHANGED host
    BY <1>6 DEF StartFailsExec
  <2>2. ~Start(id) \/ id \in host'.bridge
    BY <1>4, <1>2 DEF Start
  <2> QED
    BY <1>1, <2>1, <2>2 DEF OthersHost
<1> QED
  BY <1>4, <1>5, <1>6 DEF StartFails

LEMMA CloseHost ==
  ASSUME SiloInv, NEW id \in SiloIDs, NEW err, Close(id, err)
  PROVE  /\ OthersHost(id)
         /\ err = "none" => id \notin host'.root
         /\ err = "none" /\ HasProcess(silo[id]) =>
              /\ held'[id] = <<>>
              /\ silo[id].isSetup /\ silo[id].inet => id \notin host'.nat
              /\ silo[id].isSetup => id \notin host'.bridge
<1> DEFINE s == silo[id]
           Past(step) == HasProcess(s) /\ step < CloseStep[err]
           NatStays == id \in host.nat /\ ~(Past(2) /\ s.isSetup /\ s.inet)
           BridgeStays == id \in host.bridge /\ ~(Past(3) /\ s.isSetup)
           RootStays == id \in host.root /\ ~(CloseStep["root"] < CloseStep[err])
           CGroupStays(left) == id \in host.cgroup /\ ~(Past(5) /\ s.cgroupSet /\ ~left)
<1>1. PICK left \in CGroupLeft(s) :
        host' = [host EXCEPT !.nat = With(@, id, NatStays), !.bridge = With(@, id, BridgeStays),
                             !.cgroup = With(@, id, CGroupStays(left)), !.root = With(@, id, RootStays)]
  BY Zenon DEF Close
<1>2. held' = IF Past(FreeStep) THEN [held EXCEPT ![id] = <<>>] ELSE held
  BY Zenon DEF Close
<1>3. host \in HostType /\ held \in [SiloIDs -> Slice \cup {<<>>}]
  BY SaneFacts
<1>4. /\ err = "none" => ~RootStays
      /\ err = "none" /\ HasProcess(s) =>
           /\ Past(FreeStep)
           /\ s.isSetup => ~BridgeStays
           /\ s.isSetup /\ s.inet => ~NatStays
  BY DEF CloseStep, FreeStep
<1> HIDE DEF Past, NatStays, BridgeStays, RootStays, CGroupStays
<1>5. /\ host'.nat = With(host.nat, id, NatStays)
      /\ host'.bridge = With(host.bridge, id, BridgeStays)
      /\ host'.root = With(host.root, id, RootStays)
  BY <1>1, <1>3 DEF HostType
<1>6. OthersHost(id)
  BY <1>2, <1>3, <1>5 DEF With, OthersHost
<1> QED
  BY <1>2, <1>3, <1>4, <1>5, <1>6 DEF With

\* startSiloInternal returns a slice it holds, of a silo that never got to Start:
\* the call, which asks nothing, is one the silo expects.
LEMMA GiveBackReturns ==
  ASSUME ServerInv, GiveBack
  PROVE  job.id \in SiloIDs /\ ReturnSlice(job.id)
BY DEF ServerInv, LockOwned, JobKnows, Launching, GiveBack, AtJob, ReturnSlice

-----------------------------------------------------------------------------
\* Every step of the server is a step of the silos or leaves them alone.

LEMMA JobDrivesSilos ==
  SiloInv /\ ServerInv /\ JobStep => [SiloNext]_siloVars
<1> SUFFICES ASSUME SiloInv, ServerInv, JobStep PROVE [SiloNext]_siloVars
  OBVIOUS
<1>0. LockOwned /\ JobKnows /\ SilosKnown
  BY DEF ServerInv
<1>1. CASE StartRefused \/ Register \/ SpawnWaiter \/ StopNotify
  BY <1>1 DEF StartRefused, Register, SpawnWaiter, StopNotify
<1>2. CASE StartInterface
  BY <1>2 DEF StartInterface, Fresh, SiloNext
<1>3. CASE StartNew
  <2>1. job.id \in SiloIDs
    BY <1>0, <1>3 DEF StartNew, AtJob, LockOwned
  <2> QED
    BY <1>3, <2>1 DEF StartNew, SiloNext
<1>4. CASE StartInit
  <2>1. job.id \in SiloIDs
    BY <1>0, <1>4 DEF StartInit, AtJob, LockOwned
  <2> QED
    BY <1>4, <2>1 DEF StartInit, SiloNext
<1>5. CASE StartLaunch
  <2>1. job.id \in SiloIDs
    BY <1>0, <1>5 DEF StartLaunch, AtJob, LockOwned
  <2> QED
    BY <1>5, <2>1 DEF StartLaunch, SiloNext
<1>6. CASE GiveBack
  BY <1>6, GiveBackReturns DEF SiloNext
<1>7. CASE CloseUninitialised
  <2>1. job.id \in SiloIDs /\ silo[job.id].State # "None"
    BY <1>0, <1>7 DEF CloseUninitialised, AtJob, LockOwned, JobKnows
  <2> QED
    BY <1>7, <2>1 DEF CloseUninitialised, SiloNext
<1>8. CASE Abandon
  <2>1. job.id \in SiloIDs /\ silo[job.id].State # "None"
    BY <1>0, <1>8 DEF Abandon, AtJob, LockOwned, JobKnows, Entering
  <2> QED
    BY <1>8, <2>1 DEF Abandon, SiloNext
<1>9. CASE StopClose
  <2>1. job.id \in SiloIDs /\ job.name \in Names /\ silos[job.name] = job.id
    BY <1>0, <1>9 DEF StopClose, AtJob, LockOwned, JobKnows, Owning
  <2>2. silo[job.id].State # "None"
    BY <1>0, <2>1, MetadataAssumption DEF SilosKnown
  <2> QED
    BY <1>9, <2>1, <2>2 DEF StopClose, SiloNext
<1> QED
  BY <1>1, <1>2, <1>3, <1>4, <1>5, <1>6, <1>7, <1>8, <1>9 DEF JobStep

LEMMA ServerDrivesSilosStep ==
  SiloInv /\ ServerInv /\ [Next]_vars => [SiloNext]_siloVars
<1> SUFFICES ASSUME SiloInv, ServerInv, [Next]_vars PROVE [SiloNext]_siloVars
  OBVIOUS
<1>1. CASE JobStep
  BY <1>1, JobDrivesSilos
<1>2. CASE \/ ServeList \/ \E n \in Names : ServeUp(n) \/ ServeDown(n)
           \/ MetaStep \/ CollectorRuns \/ Collect \/ CollectorReturns
           \/ Interrupt \/ CloseLock
  BY <1>2 DEF ServeList, ServeUp, ServeDown, MetaStep, CollectorRuns, Collect, CollectorReturns,
              Interrupt, CloseLock, vars
<1>3. CASE CloserStep
  BY <1>3 DEF CloserStep, CloseMetaSignal, CloseMetaWait, CloseFlag, CloseChannels,
              CloseNext, CloseUnlock, CloseWait, CloseServ
<1>4. ASSUME NEW id \in SiloIDs,
             WaiterStep(id) \/ ListenStep(id) \/ ChildExits(id) \/ ChildDies(id)
      PROVE  [SiloNext]_siloVars
  BY <1>4 DEF WaiterStep, WaitEnter, WaitWakes, WaitReaps, WaitNotify, Send, SendPanics,
              ListenStep, ChildExits, ChildDies, SiloNext
<1>5. CASE UNCHANGED vars
  BY <1>5 DEF vars
<1> QED
  BY <1>1, <1>2, <1>3, <1>4, <1>5 DEF Next

-----------------------------------------------------------------------------
\* The invariant is inductive.

\* the calls of startSiloInternal and stopSiloInternal
LEMMA JobKeepsServerInv ==
  ASSUME SiloInv, ServerInv, JobStep
  PROVE  ServerInv'
<1>0. ServerTypes /\ LockOwned /\ JobKnows /\ SilosKnown /\ ReportsTrue
  BY DEF ServerInv
<1>1. CASE StartRefused \/ Register \/ SpawnWaiter \/ StopNotify
  BY <1>0, <1>1, StartRefusedStep, RegisterStep, SpawnWaiterStep, StopNotifyStep
<1>2. CASE StartInterface
  <2>1. CASE TakeInterfaceFails /\ Unlock /\ UNCHANGED nameOf
    BY <1>0, <1>2, <2>1, NoInterfaceStep DEF TakeInterfaceFails
  <2>2. ASSUME NEW id \in Fresh, TakeInterface(id),
               nameOf' = [nameOf EXCEPT ![id] = job.name],
               job' = [job EXCEPT !.pc = "new", !.id = id], UNCHANGED lock
        PROVE  ServerInv'
    <3>1. id \in SiloIDs /\ silo[id].child = "none"
      BY <2>2 DEF Fresh, NoStruct
    <3>2. /\ OtherSilos(id) /\ silo'[id].State = "None" /\ silo'[id].child = "none"
          /\ silo'[id].slice # <<>>
      BY <2>2, <3>1, TakeEffect
    <3>3. job.pc = "start" /\ UNCHANGED <<lock, silos, waiter, collector, closer>>
      BY <1>2, <2>2 DEF StartInterface, AtJob
    <3> QED
      BY <1>0, <2>2, <3>1, <3>2, <3>3, InterfaceStep
  <2> QED
    BY <1>2, <2>1, <2>2 DEF StartInterface
<1>3. CASE StartNew
  <2>1. job.id \in SiloIDs
    BY <1>0, <1>3 DEF StartNew, AtJob, LockOwned
  <2>2. ASSUME NEW req \in Requests, NewSilo(job.id, req), Step("init") PROVE ServerInv'
    BY <1>0, <1>3, <2>1, <2>2, NewEffect, NewStep
  <2>3. CASE Step("giveBack") /\ UNCHANGED siloVars
    BY <1>0, <1>3, <2>1, <2>3, NewFailsStep DEF OtherSilos, siloVars
  <2> QED
    BY <1>3, <2>2, <2>3 DEF StartNew
<1>4. CASE StartInit
  <2>1. job.id \in SiloIDs
    BY <1>0, <1>4 DEF StartInit, AtJob, LockOwned
  <2>2. CASE InitSilo(job.id) /\ Step("launch")
    BY <1>0, <1>4, <2>1, <2>2, InitEffect, InitStep
  <2>3. CASE InitFails(job.id) /\ Step("closeUninitialised")
    BY <1>0, <1>4, <2>1, <2>3, InitEffect, InitFailsStep
  <2> QED
    BY <1>4, <2>2, <2>3 DEF StartInit
<1>5. CASE StartLaunch
  <2>1. job.id \in SiloIDs
    BY <1>0, <1>5 DEF StartLaunch, AtJob, LockOwned
  <2>2. CASE Start(job.id) /\ Step("register")
    BY <1>0, <1>5, <2>1, <2>2, StartEffect, LaunchStep
  <2>3. CASE StartFails(job.id) /\ Step("abandon")
    BY <1>0, <1>5, <2>1, <2>3, StartEffect, LaunchFailsStep
  <2> QED
    BY <1>5, <2>2, <2>3 DEF StartLaunch
<1>6. CASE GiveBack
  <2>1. job.id \in SiloIDs /\ ReturnSlice(job.id)
    BY <1>6, GiveBackReturns
  <2> QED
    BY <1>0, <1>6, <2>1, ReturnEffect, GiveBackStep
<1>7. CASE CloseUninitialised
  <2>1. job.id \in SiloIDs /\ Step("giveBack")
    BY <1>0, <1>7 DEF CloseUninitialised, AtJob, LockOwned
  <2>2. PICK err \in DOMAIN CloseStep : Close(job.id, err)
    BY <1>7 DEF CloseUninitialised
  <2>3. OtherSilos(job.id) /\ (silo[job.id].State # "Running" => silo'[job.id] = silo[job.id])
    BY <2>1, <2>2, CloseKills DEF CloseKilled
  <2> QED
    BY <1>0, <1>7, <2>1, <2>3, CloseUninitialisedStep
<1>8. CASE Abandon
  <2>1. job.id \in SiloIDs
    BY <1>0, <1>8 DEF Abandon, AtJob, LockOwned
  <2>2. PICK err \in DOMAIN CloseStep : Close(job.id, err)
    BY <1>8 DEF Abandon
  <2>3. OtherSilos(job.id) /\ CloseKilled(job.id)
    BY <2>1, <2>2, CloseKills
  <2> QED
    BY <1>0, <1>8, <2>3, AbandonStep
<1>9. CASE StopClose
  <2>1. job.id \in SiloIDs /\ job.pc = "close" /\ UNCHANGED <<nameOf, waiter>>
    BY <1>0, <1>9 DEF StopClose, AtJob, LockOwned
  <2>2. PICK err \in DOMAIN CloseStep :
          /\ Close(job.id, err)
          /\ silos' = IF err = "none" THEN [silos EXCEPT ![job.name] = None] ELSE silos
          /\ StopReturns(err = "none")
    BY <1>9 DEF StopClose
  <2>3. OtherSilos(job.id) /\ CloseKilled(job.id)
    BY <2>1, <2>2, CloseKills
  <2> DEFINE ok == err = "none"
  <2>4. /\ ok \in BOOLEAN /\ StopReturns(ok)
        /\ silos' = IF ok THEN [silos EXCEPT ![job.name] = None] ELSE silos
    BY <2>2
  <2> HIDE DEF ok
  <2> QED
    BY <1>0, <2>1, <2>3, <2>4, StopCloseStep
<1> QED
  BY <1>1, <1>2, <1>3, <1>4, <1>5, <1>6, <1>7, <1>8, <1>9 DEF JobStep

LEMMA ServerInvStep ==
  ASSUME SiloInv, ServerInv, [Next]_vars
  PROVE  ServerInv'
<1>0. ServerTypes /\ LockOwned /\ JobKnows /\ SilosKnown /\ ReportsTrue
  BY DEF ServerInv
<1>1. CASE JobStep
  BY <1>1, JobKeepsServerInv
<1>2. CASE \/ ServeList \/ MetaStep \/ UNCHANGED vars
           \/ Interrupt \/ CloseMetaSignal \/ CloseMetaWait \/ CloseFlag \/ CloseChannels
           \/ CloseWait \/ CloseServ
           \/ \E id \in SiloIDs : ListenStep(id) \/ SendPanics(id)
  BY <1>2, QuietSteps
<1>3. ASSUME NEW n \in Names, ServeUp(n) \/ ServeDown(n) PROVE ServerInv'
  BY <1>0, <1>3, ServeUpStep, ServeDownStep
<1>4. CASE CollectorRuns \/ Collect \/ CollectorReturns
  BY <1>0, <1>4, CollectorRunsStep, CollectStep, CollectorReturnsStep
<1>5. CASE CloseLock \/ CloseNext \/ CloseUnlock
  BY <1>0, <1>5, CloseLockStep, CloseNextStep, CloseUnlockStep
<1>6. ASSUME NEW id \in SiloIDs,
             \/ WaitEnter(id) \/ WaitWakes(id) \/ WaitReaps(id) \/ WaitNotify(id) \/ Send(id)
             \/ ChildExits(id) \/ ChildDies(id)
      PROVE  ServerInv'
  <2>1. CASE WaitEnter(id)
    BY <1>0, <2>1, SaneFacts, WaitEnterStep
  <2>2. CASE WaitNotify(id) \/ Send(id)
    BY <1>0, <2>2, WaitNotifyStep, SendStep
  <2>3. CASE WaitWakes(id)
    <3>1. /\ SetChild(id, "zombie", "done") /\ UNCHANGED <<lock, job, silos, nameOf, collector, closer>>
          /\ waiter' = [waiter EXCEPT ![id] = "reaping"]
      BY <2>3 DEF WaitWakes, WaitDone, SetWaiter
    <3>2. ProcessesGoOn /\ silo'[id].child = "done"
      BY <3>1, ChildEffect
    <3>3. /\ waiter' \in [SiloIDs -> {"none", "start", "wait", "reaping", "returned", "send", "over"}]
          /\ \A j \in SiloIDs : waiter'[j] # waiter[j] => Ended(j)'
      BY <1>0, <3>1, <3>2 DEF ServerTypes, Ended
    <3> QED
      BY <1>0, <3>1, <3>2, <3>3, ProcessStep
  <2>4. CASE WaitReaps(id)
    <3>1. /\ SetChild(id, "done", "reaped") /\ UNCHANGED <<lock, job, silos, nameOf, collector, closer>>
          /\ waiter' = [waiter EXCEPT ![id] = "returned"]
      BY <2>4 DEF WaitReaps, WaitReap, SetWaiter
    <3>2. ProcessesGoOn /\ silo'[id].child = "reaped"
      BY <3>1, ChildEffect
    <3>3. /\ waiter' \in [SiloIDs -> {"none", "start", "wait", "reaping", "returned", "send", "over"}]
          /\ \A j \in SiloIDs : waiter'[j] # waiter[j] => Ended(j)'
      BY <1>0, <3>1, <3>2 DEF ServerTypes, Ended
    <3> QED
      BY <1>0, <3>1, <3>2, <3>3, ProcessStep
  <2>5. CASE ChildExits(id)
    <3>1. /\ SetChild(id, "alive", "zombie") /\ UNCHANGED <<lock, job, silos, nameOf, collector, closer>>
          /\ waiter' = waiter
      BY <2>5 DEF ChildExits, Exit, serverVars
    <3>2. ProcessesGoOn /\ silo'[id].child = "zombie"
      BY <3>1, ChildEffect
    <3>3. /\ waiter' \in [SiloIDs -> {"none", "start", "wait", "reaping", "returned", "send", "over"}]
          /\ \A j \in SiloIDs : waiter'[j] # waiter[j] => Ended(j)'
      BY <1>0, <3>1, <3>2 DEF ServerTypes, Ended
    <3> QED
      BY <1>0, <3>1, <3>2, <3>3, ProcessStep
  <2>6. CASE ChildDies(id)
    <3>1. /\ SetChild(id, "killed", "zombie") /\ UNCHANGED <<lock, job, silos, nameOf, collector, closer>>
          /\ waiter' = waiter
      BY <2>6 DEF ChildDies, Die, serverVars
    <3>2. ProcessesGoOn /\ silo'[id].child = "zombie"
      BY <3>1, ChildEffect
    <3>3. /\ waiter' \in [SiloIDs -> {"none", "start", "wait", "reaping", "returned", "send", "over"}]
          /\ \A j \in SiloIDs : waiter'[j] # waiter[j] => Ended(j)'
      BY <1>0, <3>1, <3>2 DEF ServerTypes, Ended
    <3> QED
      BY <1>0, <3>1, <3>2, <3>3, ProcessStep
  <2> QED
    BY <1>6, <2>1, <2>2, <2>3, <2>4, <2>5, <2>6
<1> QED
  BY <1>1, <1>2, <1>3, <1>4, <1>5, <1>6 DEF Next, CloserStep, WaiterStep

-----------------------------------------------------------------------------
\* The results.

\* The invariants of the silos and of the server hold in every state.
THEOREM ServerInvariant == Spec => [](SiloInv /\ ServerInv)
<1>1. Init => SiloInv /\ ServerInv
  BY SiloInvInit, ServerInvInit DEF Init
<1>2. SiloInv /\ ServerInv /\ [Next]_vars => (SiloInv /\ ServerInv)'
  BY ServerInvStep, ServerDrivesSilosStep, SiloInvStep
<1> QED
  BY <1>1, <1>2, PTL DEF Spec

\* The steps of the server, as far as they touch the silos, are steps of the
\* silos, so that what is proved of the silos holds under the server.  A slice
\* that startSiloInternal returns, in particular, is one that it holds.
THEOREM ServerDrivesSilos == Spec => SiloSpec
<1>1. Init => SiloInit
  BY DEF Init
<1> QED
  BY <1>1, ServerInvariant, ServerDrivesSilosStep, PTL DEF Spec, SiloSpec

\* Silos that run under the server have no address in common.
THEOREM ServerSilosDisjoint == Spec => []LiveSilosDisjoint
  BY ServerDrivesSilos, RunningSilosDisjoint, PTL

\* Under the server too, whatever fails and however the goroutines interleave, the
\* pool sees allocations and, for each, at most one return of the same slice.
THEOREM ServerUsesPoolProperly == Spec => SilosUsePoolProperly
  BY ServerDrivesSilos, SilosImplementPool, PTL

\* The server knows of every process that runs: no failure of startSiloInternal
\* or stopSiloInternal leaves one behind that nobody can stop.
THEOREM ServerKnowsProcesses == Spec => []LiveSilosAreRegistered
<1>1. ServerInv => LiveSilosAreRegistered
  BY DEF ServerInv, SilosKnown, Entering, LiveSilosAreRegistered, Registered
<1> QED
  BY <1>1, ServerInvariant, PTL

\* Two silos of one name never run at the same time.
THEOREM ServerNamesUnique == Spec => []OneSiloPerName
<1>1. ServerInv => OneSiloPerName
  <2> SUFFICES ASSUME ServerInv, NEW i \in SiloIDs, NEW j \in SiloIDs,
                      silo[i].child = "alive", silo[j].child = "alive", nameOf[i] = nameOf[j]
               PROVE  i = j
    BY DEF OneSiloPerName
  <2>1. /\ nameOf[i] \in Names
        /\ silos[nameOf[i]] = i \/ (job.id = i /\ job.pc \in Entering)
        /\ silos[nameOf[i]] = j \/ (job.id = j /\ job.pc \in Entering)
    BY DEF ServerInv, SilosKnown
  <2>2. job.id \in {i, j} /\ job.pc \in Entering => silos[nameOf[i]] = None
    BY DEF ServerInv, JobKnows
  <2> QED
    BY <2>1, <2>2, MetadataAssumption
<1> QED
  BY <1>1, ServerInvariant, PTL

\* The collector never stops a silo that runs.
THEOREM CollectorStopsOnlyEnded == Spec => []CollectorSparesLive
<1>1. ServerInv => CollectorSparesLive
  BY DEF ServerInv, LockOwned, ReportsTrue, Ended, CollectorSparesLive
<1> QED
  BY <1>1, ServerInvariant, PTL

\* When the loop of Close is over no silo runs.  SilosKnown is what makes it so:
\* a process belongs to an entry of Server.silos or to a call under the lock,
\* and Close has the lock and has found no entry left.
THEOREM CloseStopsAll == Spec => CloseLoopStopsAll
<1>1. ServerInv /\ [Next]_vars =>
        [closer = "loop" /\ closer' = "wg" => \A id \in SiloIDs : silo[id].child # "alive"]_vars
  <2> SUFFICES ASSUME ServerInv, [Next]_vars, closer = "loop", closer' = "wg", NEW id \in SiloIDs
               PROVE  silo[id].child # "alive"
    OBVIOUS
  <2>1. CloseUnlock
    <3>1. CASE UNCHANGED vars \/ JobStep
      BY <3>1 DEF vars, serverVars, JobStep, StartRefused, StartInterface, StartNew, StartInit,
        StartLaunch, CloseUninitialised, GiveBack, Abandon, Register, SpawnWaiter, StopNotify,
        StopClose, StopReturns
    <3>2. CASE \/ ServeList \/ \E n \in Names : ServeUp(n) \/ ServeDown(n)
               \/ MetaStep \/ CollectorRuns \/ Collect \/ CollectorReturns
      BY <3>2 DEF vars, serverVars, ServeList, ServeUp, ServeDown, MetaStep, CollectorRuns,
        Collect, CollectorReturns
    <3>3. CASE Interrupt \/ CloseLock \/ CloserStep
      BY <3>3 DEF Interrupt, CloseLock, CloserStep, CloseMetaSignal, CloseMetaWait, CloseFlag,
        CloseChannels, CloseNext, CloseWait, CloseServ, AtClose
    <3>4. CASE \E j \in SiloIDs : WaiterStep(j) \/ ListenStep(j) \/ ChildExits(j) \/ ChildDies(j)
      BY <3>4 DEF serverVars, WaiterStep, WaitEnter, WaitWakes, WaitReaps, WaitNotify, SetWaiter,
        Send, SendPanics, ListenStep, ChildExits, ChildDies
    <3> QED
      BY <3>1, <3>2, <3>3, <3>4 DEF Next
  <2>2. job.pc = "none" /\ \A n \in Names : silos[n] = None
    BY <2>1 DEF CloseUnlock, NoJob
  <2>3. silo[id].child = "alive" =>
          nameOf[id] \in Names /\ (silos[nameOf[id]] = id \/ job.pc \in Entering)
    BY DEF ServerInv, SilosKnown
  <2> QED
    BY <2>2, <2>3, MetadataAssumption DEF Entering
<1> QED
  BY <1>1, ServerInvariant, PTL DEF Spec, CloseLoopStopsAll

\* An interface keeps its addresses until its bridge and its NAT rule are gone,
\* whichever of the server's calls tears it down.
THEOREM ServerAddressesOutliveInterface == Spec => []InterfaceKeepsAddresses
BY ServerDrivesSilos, AddressesOutliveInterface, PTL
=============================================================================
