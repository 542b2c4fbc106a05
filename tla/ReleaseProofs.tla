---------------------------- MODULE ReleaseProofs ---------------------------
(***************************************************************************)
(* What a silo leaves behind when nothing fails but on its way up.         *)
(* CleanInv is inductive as long as the process can be started and         *)
(* teardown does not fail.  Close then fails only while Wait is reaping    *)
(* the process, and the silo stays registered.                             *)
(***************************************************************************)
EXTENDS ServerProofs

\* no step of a Close fails on the side of the host
SureTeardown == Faults \cap TeardownFaults = {}

\* the process of a silo can be started as well
MendedFaults == SureTeardown /\ "exec" \notin Faults

Freed(id) ==
  /\ held[id] = <<>> /\ id \notin host.nat /\ id \notin host.root
  /\ silo[id].isSetup => id \notin host.bridge

Clean(id) ==
  /\ Registered(id) \/ (job.id = id /\ job.pc \in Launching \cup Entering) \/ Freed(id)
  /\ Registered(id) => silo[id].State = "Running"
  /\ id \in host.nat => silo[id].isSetup
  /\ silo[id].child \in {"done", "reaped"} => waiter[id] # "none"

CleanJob ==
  /\ job.pc \in Entering => waiter[job.id] = "none" /\ silo[job.id].child # "none"
  /\ job.pc \in {"new", "giveBack"} => job.id \notin host.root

CleanInv == (\A id \in SiloIDs : Clean(id)) /\ CleanJob

LEMMA CleanInvInit == Init => CleanInv
<1> SUFFICES ASSUME Init PROVE CleanInv
  OBVIOUS
<1>1. ASSUME NEW id \in SiloIDs PROVE Clean(id)
  <2>1. silo[id].child = "none" /\ ~silo[id].isSetup
    BY DEF Init, SiloInit, NoStruct
  <2>2. held[id] = <<>> /\ id \notin host.nat /\ id \notin host.root
    BY DEF Init, SiloInit, PoolInit
  <2>3. ~Registered(id)
    BY MetadataAssumption DEF Init, Registered
  <2> QED
    BY <2>1, <2>2, <2>3 DEF Clean, Freed
<1>2. CleanJob
  BY DEF Init, NoJob, CleanJob, Entering
<1> QED
  BY <1>1, <1>2 DEF CleanInv

\* The other silos are not touched by a call for one.
LEMMA CleanOthers ==
  ASSUME CleanInv, NEW id \in SiloIDs, OtherSilos(id), OthersHost(id),
         job.pc \in Launching \cup Entering => job.id = id,
         \A j \in SiloIDs : j # id => waiter'[j] = waiter[j] /\ (Registered(j)' <=> Registered(j)),
         Clean(id)', CleanJob'
  PROVE  CleanInv'
<1>1. ASSUME NEW j \in SiloIDs, j # id PROVE Clean(j)'
  <2>1. Clean(j)
    BY DEF CleanInv
  <2>2. /\ silo'[j] = silo[j] /\ held'[j] = held[j] /\ waiter'[j] = waiter[j]
        /\ Registered(j)' <=> Registered(j)
        /\ (j \in host'.bridge) <=> (j \in host.bridge)
        /\ (j \in host'.nat) <=> (j \in host.nat)
        /\ (j \in host'.root) <=> (j \in host.root)
    BY <1>1, Zenon DEF OtherSilos, OthersHost
  <2>3. Freed(j) => Freed(j)'
    BY <2>2 DEF Freed
  <2>4. Registered(j) \/ Freed(j)
    BY <1>1, <2>1 DEF Clean
  <2> QED
    BY <2>1, <2>2, <2>3, <2>4 DEF Clean
<1> QED
  BY <1>1 DEF CleanInv

\* Steps without a call to a silo, between calls.
LEMMA CleanBetween ==
  ASSUME CleanInv, ServerTypes, UNCHANGED <<silo, host, held, silos>>,
         \A j \in SiloIDs : waiter[j] # "none" => waiter'[j] # "none",
         job.pc \in Entering => waiter'[job.id] = waiter[job.id],
         \/ UNCHANGED job
         \/ job.pc \in {"none", "start", "stop"} /\ job'.pc \in {"none", "start", "stop", "close"}
  PROVE  CleanInv'
<1>1. ASSUME NEW j \in SiloIDs PROVE Clean(j)'
  <2>1. Clean(j) /\ (Registered(j)' <=> Registered(j)) /\ (Freed(j)' <=> Freed(j))
    BY DEF CleanInv, Registered, Freed
  <2>2. \/ UNCHANGED job
        \/ job.pc \notin Launching \cup Entering
    BY DEF Launching, Entering
  <2> QED
    BY <2>1, <2>2 DEF Clean
<1>2. CleanJob'
  BY DEF CleanInv, CleanJob, Entering
<1> QED
  BY <1>1, <1>2 DEF CleanInv

\* Steps of a process and of Wait.
LEMMA CleanChild ==
  ASSUME SiloInv, ServerInv, CleanInv, NEW id \in SiloIDs,
         WaitWakes(id) \/ WaitReaps(id) \/ ChildExits(id) \/ ChildDies(id)
  PROVE  CleanInv'
<1>1. UNCHANGED <<host, held, silos, job>>
  BY DEF WaitWakes, WaitReaps, ChildExits, ChildDies, WaitDone, WaitReap, Exit, Die, SetChild,
         SetWaiter, serverVars
<1>2. PICK c \in {"zombie", "done", "reaped"} :
        /\ silo[id].child # "none" /\ silo' = [silo EXCEPT ![id].child = c]
        /\ c = "zombie" => waiter' = waiter /\ silo[id].child \in {"alive", "killed"}
        /\ c # "zombie" => /\ waiter[id] # "none"
                           /\ waiter' = [waiter EXCEPT ![id] = IF c = "done" THEN "reaping" ELSE "returned"]
  <2>1. CASE WaitWakes(id)
    BY <2>1 DEF WaitWakes, WaitDone, SetChild, SetWaiter
  <2>2. CASE WaitReaps(id)
    BY <2>2 DEF WaitReaps, WaitReap, SetChild, SetWaiter
  <2>3. CASE ChildExits(id)
    BY <2>3 DEF ChildExits, Exit, SetChild, serverVars
  <2>4. CASE ChildDies(id)
    BY <2>4 DEF ChildDies, Die, SetChild, serverVars
  <2> QED
    BY <2>1, <2>2, <2>3, <2>4
<1>3. silo \in [SiloIDs -> StructType]
  BY SaneFacts
<1>4. /\ silo'[id].child = c /\ silo'[id].State = silo[id].State /\ silo'[id].isSetup = silo[id].isSetup
      /\ \A j \in SiloIDs : j # id => silo'[j] = silo[j]
  BY <1>2, <1>3 DEF StructType
<1>5. (c # "zombie" => waiter'[id] # "none") /\ \A j \in SiloIDs : j # id => waiter'[j] = waiter[j]
  BY <1>2 DEF ServerInv, ServerTypes
<1>6. ASSUME NEW j \in SiloIDs PROVE Clean(j)'
  <2>1. Clean(j) /\ (Registered(j)' <=> Registered(j)) /\ (Freed(j)' <=> Freed(j))
    BY <1>1, <1>4 DEF CleanInv, Registered, Freed
  <2> QED
    BY <1>1, <1>4, <1>5, <2>1 DEF Clean
<1>7. CleanJob'
  BY <1>1, <1>2, <1>4, <1>5 DEF ServerInv, LockOwned, CleanInv, CleanJob, Entering
<1> QED
  BY <1>6, <1>7 DEF CleanInv

\* startSiloInternal works on a silo that is not registered.
LEMMA JobUnregistered ==
  ASSUME ServerInv, job.pc \in Launching \cup Entering
  PROVE  job.id \in SiloIDs /\ ~Registered(job.id)
<1>1. job.id \in SiloIDs /\ job.name \in Names
  BY DEF ServerInv, LockOwned, Launching, Entering
<1>2. nameOf[job.id] = job.name /\ silos[job.name] = None
  BY DEF ServerInv, JobKnows
<1> QED
  BY <1>1, <1>2, MetadataAssumption DEF ServerInv, SilosKnown, Registered

LEMMA CleanTake ==
  ASSUME SiloInv, ServerInv, CleanInv, StartInterface
  PROVE  CleanInv'
<1>0. job.pc = "start" /\ UNCHANGED <<silos, waiter>>
  BY DEF StartInterface, AtJob
<1>1. CASE TakeInterfaceFails /\ Unlock
  <2>1. job'.pc = "none" /\ UNCHANGED <<silo, host, held>>
    BY <1>1 DEF TakeInterfaceFails, PoolAllocFails, Unlock, NoJob
  <2> QED
    BY <1>0, <2>1, CleanBetween DEF ServerInv, Entering
<1>2. ASSUME NEW id \in Fresh, TakeInterface(id), job' = [job EXCEPT !.pc = "new", !.id = id]
      PROVE  CleanInv'
  <2>1. id \in SiloIDs /\ silo[id].child = "none" /\ Clean(id)
    BY <1>2 DEF Fresh, NoStruct, CleanInv
  <2>2. ~Registered(id)
    BY <2>1, MetadataAssumption DEF ServerInv, SilosKnown, Registered
  <2>3. id \notin host.root /\ id \notin host.nat
    BY <1>0, <2>1, <2>2 DEF Clean, Freed, Launching, Entering
  <2>4. OtherSilos(id) /\ silo'[id].child = "none"
    BY <1>2, <2>1, TakeEffect
  <2>5. OthersHost(id) /\ UNCHANGED host
    BY <1>2, <2>1, CreationHost DEF TakeInterface
  <2>6. job'.pc = "new" /\ job'.id = id
    BY <1>2 DEF ServerInv, ServerTypes
  <2>7. \A j \in SiloIDs : Registered(j)' <=> Registered(j)
    BY <1>0 DEF Registered
  <2>8. Clean(id)' /\ CleanJob'
    BY <2>1, <2>2, <2>3, <2>4, <2>5, <2>6, <2>7 DEF Clean, CleanJob, Launching, Entering
  <2> QED
    BY <1>0, <2>1, <2>4, <2>5, <2>7, <2>8, CleanOthers DEF Launching, Entering
<1> QED
  BY <1>1, <1>2 DEF StartInterface

\* The calls on a silo until its process is started.
LEMMA CleanLaunching ==
  ASSUME SiloInv, ServerInv, CleanInv, MendedFaults, StartNew \/ StartInit \/ StartLaunch
  PROVE  CleanInv'
<1>0. /\ job.pc \in {"new", "init", "launch"} /\ UNCHANGED <<silos, waiter>>
      /\ job \in [pc : JobPCs, name : Names \cup {None}, id : SiloIDs \cup {None}]
  BY DEF StartNew, StartInit, StartLaunch, AtJob, ServerInv, ServerTypes
<1> DEFINE id == job.id
<1>1. id \in SiloIDs /\ ~Registered(id) /\ silo[id].child = "none" /\ waiter[id] = "none"
  BY <1>0, JobUnregistered DEF ServerInv, JobKnows, ReportsTrue, Launching
<1>2. \A j \in SiloIDs : Registered(j)' <=> Registered(j)
  BY <1>0 DEF Registered
<1>3. silo[id].State \in {"None", "Setup", "Pending"} /\ id \notin host.nat
  BY <1>0, <1>1, SaneFacts DEF ServerInv, JobKnows
<1>4. ASSUME OtherSilos(id), OthersHost(id), job'.id = id,
             job'.pc \in Launching \cup Entering,
             silo'[id].child \notin {"done", "reaped"},
             job'.pc \in Entering => silo'[id].child # "none",
             id \in host'.nat => silo'[id].isSetup,
             job'.pc \in {"new", "giveBack"} => id \notin host'.root
      PROVE  CleanInv'
  <2>1. Clean(id)'
    BY <1>1, <1>2, <1>4 DEF Clean
  <2>2. CleanJob'
    BY <1>0, <1>1, <1>4 DEF CleanJob
  <2> QED
    BY <1>0, <1>1, <1>2, <1>4, <2>1, <2>2, CleanOthers
<1>5. ASSUME NEW pc, Step(pc) PROVE job'.id = id /\ job'.pc = pc
  BY <1>0, <1>5 DEF Step
<1>6. CASE StartNew
  <2>1. ASSUME NEW req \in Requests, NewSilo(id, req), Step("init") PROVE CleanInv'
    <3>1. OtherSilos(id) /\ silo'[id].child = "none"
      BY <1>1, <2>1, NewEffect
    <3>2. OthersHost(id) /\ id \notin host'.nat
      BY <1>1, <1>3, <2>1, CreationHost
    <3> HIDE DEF id
    <3>3. job'.id = id /\ job'.pc = "init"
      BY <1>5, <2>1
    <3>4. "init" \in Launching /\ "init" \notin Entering \cup {"new", "giveBack"}
      BY DEF Launching, Entering
    <3> QED
      BY <1>4, <3>1, <3>2, <3>3, <3>4
  <2>2. CASE Step("giveBack") /\ UNCHANGED siloVars
    <3>1. id \notin host.root
      BY <1>6 DEF StartNew, AtJob, CleanInv, CleanJob
    <3>2. OtherSilos(id) /\ OthersHost(id) /\ UNCHANGED <<silo, host>>
      BY <2>2 DEF siloVars, OtherSilos, OthersHost
    <3> HIDE DEF id
    <3> QED
      <4>1. job'.id = id /\ job'.pc = "giveBack"
        BY <1>5, <2>2
      <4>2. "giveBack" \in Launching /\ "giveBack" \notin Entering
        BY DEF Launching, Entering
      <4> QED
        BY <1>1, <1>3, <1>4, <3>1, <3>2, <4>1, <4>2
  <2> QED
    BY <1>6, <2>1, <2>2 DEF StartNew
<1>7. CASE StartInit
  <2>1. PICK pc \in {"launch", "closeUninitialised"} : Step(pc)
    BY <1>7 DEF StartInit
  <2>2. InitSilo(id) \/ InitFails(id)
    BY <1>7 DEF StartInit
  <2>3. OtherSilos(id) /\ silo'[id].child = "none"
    BY <1>1, <2>2, InitEffect
  <2>4. OthersHost(id) /\ id \notin host'.nat
    BY <1>1, <1>3, <2>2, CreationHost
  <2> HIDE DEF id
  <2> QED
    BY <1>4, <1>5, <2>1, <2>3, <2>4 DEF Launching, Entering
<1>8. CASE StartLaunch
  <2>1. PICK pc \in {"register", "abandon"} : Step(pc)
    BY <1>8 DEF StartLaunch
  <2>2. Start(id) \/ StartFailsNet(id) \/ StartFailsLimit(id)
    BY <1>8 DEF StartLaunch, StartFails, StartFailsExec, MendedFaults
  <2>3. OtherSilos(id) /\ OthersHost(id)
    BY <1>1, <2>2, StartEffect, StartHost DEF StartFails
  <2>4. silo'[id].child \in {"alive", "zombie"} /\ (id \in host'.nat => silo'[id].isSetup)
    <3> HIDE DEF id
    <3>1. silo \in [SiloIDs -> StructType] /\ host \in HostType
      BY <1>1, SaneFacts
    <3>2. CASE Start(id)
      BY <1>1, <3>1, <3>2 DEF Start, StructType
    <3>3. CASE StartFailsNet(id)
      <4>1. PICK c \in {"alive", "zombie"} :
              silo' = [silo EXCEPT ![id].State = "Running", ![id].child = c]
        BY <3>3 DEF StartFailsNet
      <4>2. host'.nat = host.nat
        BY <3>1, <3>3 DEF StartFailsNet, HostType
      <4> QED
        BY <1>1, <1>3, <3>1, <4>1, <4>2 DEF StructType
    <3>4. CASE StartFailsLimit(id)
      <4>1. PICK c \in {"alive", "zombie"} :
              silo' = [silo EXCEPT ![id].State = "Running", ![id].child = c, ![id].isSetup = TRUE]
        BY <3>4 DEF StartFailsLimit
      <4> QED
        BY <1>1, <3>1, <4>1 DEF StructType
    <3> QED
      BY <2>2, <3>2, <3>3, <3>4
  <2> HIDE DEF id
  <2> QED
    BY <1>4, <1>5, <2>1, <2>3, <2>4 DEF Launching, Entering
<1> QED
  BY <1>6, <1>7, <1>8

\* Close without failures of the host: it gives up only when the process is just
\* being reaped, and has then changed nothing.
LEMMA CloseMended ==
  ASSUME SiloInv, SureTeardown, NEW id \in SiloIDs, NEW err, Close(id, err)
  PROVE  /\ err = "none" \/ (err = "pid" /\ HasProcess(silo[id]) /\ silo[id].child = "done")
         /\ err = "pid" => silo' = silo /\ held' = held
         /\ silo'[id].isSetup = silo[id].isSetup /\ silo'[id].child \in {silo[id].child, "killed"}
         /\ host'.nat \subseteq host.nat
<1> DEFINE s == silo[id]
           Past(step) == HasProcess(s) /\ step < CloseStep[err]
           NatStays == id \in host.nat /\ ~(Past(2) /\ s.isSetup /\ s.inet)
<1>1. /\ err \in CloseErrors(s)
      /\ silo' = IF Past(1)
                 THEN [silo EXCEPT ![id].State = "Finished", ![id].child = Killed(@)]
                 ELSE silo
      /\ held' = IF Past(FreeStep) THEN [held EXCEPT ![id] = <<>>] ELSE held
  BY Zenon DEF Close
<1>2. \E br, cg, rt :
        host' = [host EXCEPT !.nat = With(@, id, NatStays), !.bridge = br, !.cgroup = cg, !.root = rt]
  <2>1. PICK left \in CGroupLeft(s) :
          host' = [host EXCEPT
            !.nat    = With(@, id, NatStays),
            !.bridge = With(@, id, id \in @ /\ ~(Past(3) /\ s.isSetup)),
            !.cgroup = With(@, id, id \in @ /\ ~(Past(5) /\ s.cgroupSet /\ ~left)),
            !.root   = With(@, id, id \in @ /\ ~(CloseStep["root"] < CloseStep[err]))]
    BY Zenon DEF Close
  <2> HIDE DEF NatStays, Past
  <2> QED
    BY <2>1
<1>3. host \in HostType /\ silo \in [SiloIDs -> StructType]
  BY SaneFacts
<1>4. err = "none" \/ (err = "pid" /\ HasProcess(s) /\ s.child = "done")
  BY <1>1 DEF CloseErrors, SureTeardown, TeardownFaults
<1>5. err = "pid" => ~Past(1) /\ ~Past(FreeStep)
  <2>1. CloseStep["pid"] = 1 /\ FreeStep \in Nat /\ FreeStep >= 1
    BY DEF CloseStep, FreeStep
  <2> QED
    BY <2>1
<1>6. NatStays => id \in host.nat
  OBVIOUS
<1> HIDE DEF Past, NatStays
<1>7. host'.nat = With(host.nat, id, NatStays)
  BY <1>2, <1>3 DEF HostType
<1>8. silo'[id].isSetup = silo[id].isSetup /\ silo'[id].child \in {silo[id].child, "killed"}
  BY <1>1, <1>3 DEF StructType, Killed
<1> QED
  BY <1>1, <1>4, <1>5, <1>6, <1>7, <1>8 DEF With

\* A Close that returns no error frees what the silo had.
LEMMA CloseFrees ==
  ASSUME SiloInv, CleanInv, SureTeardown, NEW id \in SiloIDs, Close(id, "none"),
         HasProcess(silo[id])
  PROVE  Freed(id)'
<1>1. /\ held'[id] = <<>> /\ id \notin host'.root
      /\ silo[id].isSetup /\ silo[id].inet => id \notin host'.nat
      /\ silo[id].isSetup => id \notin host'.bridge
  BY CloseHost
<1>2. silo'[id].isSetup = silo[id].isSetup /\ (id \in host'.nat => id \in host.nat)
  BY CloseMended
<1>3. id \in host.nat => silo[id].isSetup /\ silo[id].inet
  BY SaneFacts DEF CleanInv, Clean
<1> QED
  BY <1>1, <1>2, <1>3 DEF Freed

\* The ways out of startSiloInternal after a failure.
LEMMA CleanGivesUp ==
  ASSUME SiloInv, SiloInv', ServerInv, CleanInv, SureTeardown, NEW id, id = job.id,
         CloseUninitialised \/ GiveBack \/ Abandon
  PROVE  CleanInv'
<1>0. /\ job.pc \in {"closeUninitialised", "giveBack", "abandon"} /\ UNCHANGED <<silos, waiter>>
      /\ job \in [pc : JobPCs, name : Names \cup {None}, id : SiloIDs \cup {None}]
  BY DEF CloseUninitialised, GiveBack, Abandon, AtJob, ServerInv, ServerTypes
<1>1. id \in SiloIDs /\ ~Registered(id) /\ Clean(id)
  BY <1>0, JobUnregistered DEF Launching, Entering, CleanInv
<1>2. \A j \in SiloIDs : Registered(j)' <=> Registered(j)
  BY <1>0 DEF Registered
<1>3. CASE CloseUninitialised
  <2>1. /\ job.pc = "closeUninitialised" /\ job'.pc = "giveBack" /\ job'.id = id
        /\ silo[id].State \in {"Setup", "InternalError"} /\ silo[id].child = "none"
    BY <1>0, <1>3 DEF CloseUninitialised, AtJob, Step, ServerInv, JobKnows, Launching
  <2>2. PICK err : Close(id, err)
    BY <1>3 DEF CloseUninitialised
  <2>3. err = "none"
    BY <1>1, <2>1, <2>2, CloseMended
  <2>4. OthersHost(id) /\ id \notin host'.root
    BY <1>1, <2>2, <2>3, CloseHost
  <2>5. OtherSilos(id) /\ silo'[id] = silo[id]
    BY <1>1, <2>1, <2>2, CloseKills DEF CloseKilled
  <2>6. id \notin host'.nat
    BY <1>1, <2>1, <2>2, CloseMended, SaneFacts
  <2>7. Clean(id)' /\ CleanJob'
    BY <1>1, <1>2, <2>1, <2>4, <2>5, <2>6 DEF Clean, CleanJob, Launching, Entering
  <2> QED
    BY <1>0, <1>1, <1>2, <2>4, <2>5, <2>7, CleanOthers
<1>4. CASE GiveBack
  <2>1. job.pc = "giveBack" /\ job'.pc = "none" /\ ReturnSlice(id)
    BY <1>4, GiveBackReturns DEF GiveBack, AtJob, Unlock, NoJob
  <2>2. OtherSilos(id) /\ silo'[id].child = silo[id].child /\ UNCHANGED host
    BY <1>1, <2>1, ReturnEffect DEF ReturnSlice, GiveSliceBack
  <2>3. OthersHost(id)
    BY <1>1, <2>1, CreationHost
  <2>4. silo'[id].State = "Dropped" /\ held'[id] = <<>>
    BY <1>1, <2>1, SaneFacts DEF ReturnSlice, GiveSliceBack, StructType
  <2>5. ~silo'[id].isSetup /\ id \notin host'.nat
    <3>1. /\ silo'[id].isSetup => silo'[id].State \in {"Running", "Finished"}
          /\ id \in host'.nat => silo'[id].State \in {"Running", "Finished"}
      BY <1>1 DEF SiloInv, SilosSane, Sane
    <3> QED
      BY <2>4, <3>1
  <2>6. id \notin host'.root
    BY <2>1, <2>2 DEF CleanInv, CleanJob
  <2>7. Clean(id)' /\ CleanJob'
    BY <1>0, <1>1, <1>2, <2>1, <2>2, <2>4, <2>5, <2>6 DEF Clean, CleanJob, Freed, Entering
  <2> QED
    BY <1>0, <1>1, <1>2, <2>2, <2>3, <2>7, CleanOthers
<1>5. CASE Abandon
  <2>1. job.pc = "abandon" /\ job'.pc = "none"
    BY <1>5 DEF Abandon, AtJob, Unlock, NoJob
  <2>2. PICK err : Close(id, err)
    BY <1>5 DEF Abandon
  <2>3. HasProcess(silo[id]) /\ silo[id].child \notin {"done", "reaped"} /\ waiter[id] = "none"
    BY <1>1, <2>1 DEF CleanInv, CleanJob, Clean, HasProcess, Entering, ServerInv, JobKnows
  <2>4. err = "none"
    BY <1>1, <2>2, <2>3, CloseMended
  <2>5. Freed(id)' /\ OthersHost(id) /\ OtherSilos(id)
    BY <1>1, <2>2, <2>3, <2>4, CloseFrees, CloseHost, CloseKills
  <2>6. silo'[id].child \notin {"done", "reaped"}
    BY <1>1, <2>2, <2>3, CloseMended
  <2>7. Clean(id)' /\ CleanJob'
    BY <1>1, <1>2, <2>1, <2>5, <2>6 DEF Clean, CleanJob, Freed, Entering
  <2> QED
    BY <1>0, <1>1, <1>2, <2>5, <2>7, CleanOthers
<1> QED
  BY <1>3, <1>4, <1>5

\* A silo is entered, and its waiter is spawned.
LEMMA CleanEnters ==
  ASSUME SiloInv, ServerInv, CleanInv, NEW id, id = job.id, Register \/ SpawnWaiter
  PROVE  CleanInv'
<1>0. /\ UNCHANGED <<silo, host, held>> /\ id \in SiloIDs /\ job.name \in Names
      /\ job.pc \in {"register", "spawn"} /\ job'.pc \in {"none", "spawn"}
      /\ waiter \in [SiloIDs -> {"none", "start", "wait", "reaping", "returned", "send", "over"}]
      /\ silos \in [Names -> SiloIDs \cup {None}]
  BY DEF Register, SpawnWaiter, AtJob, siloVars, ServerInv, LockOwned, ServerTypes, Step, Unlock, NoJob
<1>1. OtherSilos(id) /\ OthersHost(id) /\ Clean(id)
  BY <1>0 DEF OtherSilos, OthersHost, CleanInv
<1>2. CleanJob'
  BY <1>0 DEF CleanJob, Entering
<1>3. CASE Register
  <2>1. silos' = [silos EXCEPT ![job.name] = id] /\ waiter' = waiter /\ silos[job.name] = None
    BY <1>3 DEF Register, AtJob, ServerInv, JobKnows, Entering
  <2>2. \A j \in SiloIDs : j # id => (Registered(j)' <=> Registered(j))
    BY <1>0, <2>1, MetadataAssumption DEF Registered
  <2>3. Registered(id)' /\ silo[id].State = "Running"
    BY <1>0, <1>3, <2>1 DEF Register, AtJob, ServerInv, JobKnows, Registered, Entering
  <2>4. Clean(id)'
    BY <1>0, <1>1, <2>1, <2>3 DEF Clean
  <2> QED
    BY <1>0, <1>1, <1>2, <2>1, <2>2, <2>4, CleanOthers
<1>4. CASE SpawnWaiter
  <2>1. waiter' = [waiter EXCEPT ![id] = "start"] /\ silos' = silos /\ silos[job.name] = id
    BY <1>4 DEF SpawnWaiter, AtJob, ServerInv, JobKnows, Owning
  <2>2. \A j \in SiloIDs : Registered(j)' <=> Registered(j)
    BY <2>1 DEF Registered
  <2>3. waiter'[id] = "start" /\ \A j \in SiloIDs : j # id => waiter'[j] = waiter[j]
    BY <1>0, <2>1
  <2>4. Registered(id)
    BY <1>0, <2>1 DEF Registered
  <2>5. Clean(id)'
    BY <1>0, <1>1, <2>2, <2>3, <2>4 DEF Clean
  <2> QED
    BY <1>0, <1>1, <1>2, <2>2, <2>3, <2>5, CleanOthers
<1> QED
  BY <1>3, <1>4

\* stopSiloInternal takes the silo off the server only after a Close without error.
LEMMA CleanStops ==
  ASSUME SiloInv, ServerInv, CleanInv, SureTeardown, NEW id, id = job.id, StopClose
  PROVE  CleanInv'
<1>0. /\ job.pc = "close" /\ id \in SiloIDs /\ job.name \in Names /\ waiter' = waiter
      /\ silos[job.name] = id /\ silos \in [Names -> SiloIDs \cup {None}]
  BY DEF StopClose, AtJob, ServerInv, LockOwned, JobKnows, Owning, ServerTypes
<1>1. Registered(id) /\ Clean(id)
  BY <1>0 DEF Registered, CleanInv
<1>2. HasProcess(silo[id]) /\ nameOf[id] = job.name
  <2>1. silos[job.name] # None
    BY <1>0, MetadataAssumption
  <2>2. nameOf[id] = job.name /\ silo[id].child # "none"
    BY <1>0, <2>1 DEF ServerInv, SilosKnown
  <2>3. silo[id].State = "Running"
    BY <1>1 DEF Clean
  <2> QED
    BY <2>2, <2>3 DEF HasProcess
<1>3. PICK err : /\ Close(id, err)
                 /\ silos' = IF err = "none" THEN [silos EXCEPT ![job.name] = None] ELSE silos
                 /\ StopReturns(err = "none")
  BY DEF StopClose
<1>4. OtherSilos(id) /\ OthersHost(id)
  BY <1>0, <1>3, CloseKills, CloseHost
<1>5. job'.pc \in {"none", "start"}
  <2>1. \/ job' = NoJob
        \/ job' = [pc |-> "start", name |-> job.name, id |-> None]
    BY <1>3 DEF StopReturns, Unlock
  <2> QED
    BY <2>1 DEF NoJob
<1>6. CleanJob'
  BY <1>5 DEF CleanJob, Entering
<1>7. \A j \in SiloIDs : j # id => (Registered(j)' <=> Registered(j))
  BY <1>0, <1>3, MetadataAssumption DEF Registered
<1>8. silo'[id].child \in {"done", "reaped"} => waiter'[id] # "none"
  BY <1>0, <1>1, <1>3, CloseMended DEF Clean
<1>9. Clean(id)'
  <2>1. CASE err = "none"
    <3>1. Freed(id)'
      BY <1>0, <1>2, <1>3, <2>1, CloseFrees
    <3>2. ~Registered(id)'
      <4>1. silos' = [silos EXCEPT ![job.name] = None] /\ id # None
        BY <1>0, <1>3, <2>1, MetadataAssumption
      <4>2. \A n \in Names : silos[n] # None => nameOf[silos[n]] = n
        BY DEF ServerInv, SilosKnown
      <4>3. \A n \in Names : silos[n] = id => n = job.name
        BY <1>2, <4>1, <4>2, Zenon
      <4>4. \A n \in Names : silos'[n] # id
        BY <1>0, <4>1, <4>3
      <4> QED
        BY <4>4 DEF Registered
    <3> QED
      BY <1>8, <3>1, <3>2 DEF Clean, Freed
  <2>2. CASE err # "none"
    <3>1. silo' = silo /\ (id \in host'.nat => id \in host.nat)
      BY <1>0, <1>3, <2>2, CloseMended
    <3>2. Registered(id)'
      BY <1>0, <1>3, <2>2 DEF Registered
    <3> QED
      BY <1>1, <1>8, <3>1, <3>2 DEF Clean
  <2> QED
    BY <2>1, <2>2
<1> QED
  BY <1>0, <1>4, <1>6, <1>7, <1>9, CleanOthers DEF Launching, Entering

LEMMA CleanInvStep ==
  ASSUME SiloInv, SiloInv', ServerInv, CleanInv, MendedFaults, [Next]_vars
  PROVE  CleanInv'
<1>0. ServerTypes /\ SureTeardown
  BY DEF ServerInv, MendedFaults
<1>1. CASE StartInterface \/ StartNew \/ StartInit \/ StartLaunch
  BY <1>1, CleanTake, CleanLaunching
<1>2. CASE CloseUninitialised \/ GiveBack \/ Abandon
  BY <1>0, <1>2, CleanGivesUp
<1>3. CASE Register \/ SpawnWaiter
  BY <1>3, CleanEnters
<1>4. CASE StopClose
  BY <1>0, <1>4, CleanStops
<1>5. ASSUME NEW id \in SiloIDs,
             WaitWakes(id) \/ WaitReaps(id) \/ ChildExits(id) \/ ChildDies(id)
      PROVE  CleanInv'
  BY <1>5, CleanChild
<1>6. ASSUME NEW id \in SiloIDs, WaitEnter(id) \/ WaitNotify(id) \/ Send(id)
      PROVE  CleanInv'
  <2>1. PICK w : waiter[id] # "none" /\ w # "none" /\ waiter' = [waiter EXCEPT ![id] = w]
    BY <1>6 DEF WaitEnter, WaitNotify, Send, SetWaiter
  <2>2. UNCHANGED <<silo, host, held, silos, job>>
    BY <1>6 DEF WaitEnter, WaitNotify, Send, SetWaiter, siloVars
  <2>3. job.pc \in Entering => job.id # id
    BY <2>1 DEF CleanInv, CleanJob
  <2>4. /\ \A j \in SiloIDs : waiter[j] # "none" => waiter'[j] # "none"
        /\ job.pc \in Entering => waiter'[job.id] = waiter[job.id]
    BY <1>0, <2>1, <2>3 DEF ServerTypes
  <2> QED
    BY <1>0, <2>2, <2>4, CleanBetween
<1>7. CASE \/ StartRefused \/ StopNotify \/ Collect \/ CloseNext
           \/ \E n \in Names : ServeUp(n) \/ ServeDown(n)
  <2>1. UNCHANGED <<silo, host, held, silos, waiter>>
    BY <1>7 DEF StartRefused, StopNotify, Collect, CloseNext, ServeUp, ServeDown, siloVars
  <2>2. \/ UNCHANGED job
        \/ job.pc \in {"none", "start", "stop"} /\ job'.pc \in {"none", "start", "stop", "close"}
    <3>1. CASE StartRefused
      BY <3>1 DEF StartRefused, AtJob, Unlock, NoJob
    <3>2. CASE StopNotify
      BY <1>0, <3>2 DEF StopNotify, AtJob, Step, ServerTypes
    <3>3. CASE Collect \/ \E n \in Names : ServeUp(n) \/ ServeDown(n)
      <4>1. job.pc = "none"
        BY <3>3 DEF Collect, ServeUp, ServeDown, ServerInv, LockOwned
      <4>2. UNCHANGED job \/ job'.pc \in {"start", "stop"}
        BY <3>3 DEF Collect, ServeUp, ServeDown
      <4> QED
        BY <4>1, <4>2
    <3>4. CASE CloseNext
      BY <3>4, SMTT(20) DEF CloseNext, NoJob
    <3> QED
      BY <1>7, <3>1, <3>2, <3>3, <3>4
  <2> QED
    BY <1>0, <2>1, <2>2, CleanBetween
<1>8. CASE \/ ServeList \/ MetaStep \/ UNCHANGED vars
           \/ Interrupt \/ CloseMetaSignal \/ CloseMetaWait \/ CloseFlag \/ CloseChannels
           \/ CloseLock \/ CloseUnlock \/ CloseWait \/ CloseServ
           \/ CollectorRuns \/ CollectorReturns
           \/ \E id \in SiloIDs : ListenStep(id) \/ SendPanics(id)
  <2>1. UNCHANGED <<silo, host, held, silos, waiter, job>>
    BY <1>8 DEF ServeList, MetaStep, Interrupt, CloseMetaSignal, CloseMetaWait, CloseFlag,
      CloseChannels, CloseLock, CloseUnlock, CloseWait, CloseServ, CollectorRuns, CollectorReturns,
      ListenStep, SendPanics, vars, serverVars, siloVars
  <2> QED
    BY <1>0, <2>1, CleanBetween
<1> QED
  BY <1>1, <1>2, <1>3, <1>4, <1>5, <1>6, <1>7, <1>8 DEF Next, JobStep, CloserStep, WaiterStep

\* Between requests a silo that is not registered has given back its addresses,
\* its NAT rule and its root, whatever failed on its way up, if only the process
\* of a silo can always be started and teardown never fails.  Both conditions are
\* needed: after a failed exec Close finds no process and skips the teardown, and
\* after a failed teardown Close stops half way.  The bridge is gone as well if
\* the setup of the interface was completed; of one left half made, and of the
\* control group, the theorem says nothing.
THEOREM MendedServerReleases ==
  ASSUME MendedFaults
  PROVE  Spec => []UnregisteredReleased
<1>1. Spec => []CleanInv
  <2>1. SiloInv /\ SiloInv' /\ ServerInv /\ CleanInv /\ [Next]_vars => CleanInv'
    BY CleanInvStep
  <2> QED
    BY <2>1, CleanInvInit, ServerInvariant, PTL DEF Spec
<1>2. ServerInv /\ CleanInv => UnregisteredReleased
  BY DEF ServerInv, LockOwned, NoJob, CleanInv, Clean, Freed, UnregisteredReleased, Launching, Entering
<1> QED
  BY <1>1, <1>2, ServerInvariant, PTL

-----------------------------------------------------------------------------
(***************************************************************************)
(* Who takes a silo off the server.  Watch is inductive as long as         *)
(* teardown does not fail: a stop that fails has found Wait reaping the    *)
(* process, so that waitNotifySilo is still to report the silo.            *)
(***************************************************************************)
Watch(id) ==
  /\ Registered(id) => silo[id].State = "Running"
  /\ silo[id].child = "done" => waiter[id] = "reaping"
  /\ Registered(id) /\ waiter[id] = "none" => job.id = id /\ job.pc = "spawn"
  /\ Registered(id) /\ waiter[id] = "over" => serverClosing \/ Reported(id)
  /\ Reported(id) => waiter[id] = "over"

\* startSiloInternal has a process and has not spawned its waiter yet
Unwatched == Entering \cup {"spawn"}

WatchInv ==
  /\ \A id \in SiloIDs : Watch(id)
  /\ job.pc \in Unwatched => waiter[job.id] = "none"

LEMMA WatchInvInit == Init => WatchInv
<1> SUFFICES ASSUME Init PROVE WatchInv
  OBVIOUS
<1>1. ASSUME NEW id \in SiloIDs PROVE Watch(id)
  <2>1. silo[id].child = "none" /\ waiter[id] = "none" /\ ~Reported(id)
    BY DEF Init, SiloInit, NoStruct, Reported
  <2>2. ~Registered(id)
    BY MetadataAssumption DEF Init, Registered
  <2> QED
    BY <2>1, <2>2 DEF Watch
<1>2. job.pc \notin Unwatched
  BY DEF Init, NoJob, Unwatched, Entering
<1> QED
  BY <1>1, <1>2 DEF WatchInv

\* What a step must not do to a silo it is not about.
WatchKeeps(j) ==
  /\ Registered(j)' => Registered(j)
  /\ waiter'[j] = waiter[j]
  /\ Reported(j)' <=> Reported(j)
  /\ Registered(j) => silo'[j].State = silo[j].State
  /\ silo'[j].child = "done" => silo[j].child = "done"
  /\ job.id = j /\ job.pc = "spawn" => job' = job

LEMMA WatchKept ==
  ASSUME NEW j \in SiloIDs, Watch(j), WatchKeeps(j), serverClosing => serverClosing'
  PROVE  Watch(j)'
BY DEF Watch, WatchKeeps

\* Steps that are about one silo.
LEMMA WatchOne ==
  ASSUME WatchInv, NEW id \in SiloIDs, Watch(id)', serverClosing => serverClosing',
         \A j \in SiloIDs : j # id => WatchKeeps(j),
         job'.pc \in Unwatched => waiter'[job'.id] = "none"
  PROVE  WatchInv'
<1>1. ASSUME NEW j \in SiloIDs PROVE Watch(j)'
  <2>1. CASE j = id
    BY <2>1
  <2>2. CASE j # id
    <3>1. Watch(j) /\ WatchKeeps(j)
      BY <2>2 DEF WatchInv
    <3> QED
      BY <3>1, WatchKept, Zenon
  <2> QED
    BY <2>1, <2>2
<1> QED
  BY <1>1 DEF WatchInv

\* Steps that are about none.
LEMMA WatchQuiet ==
  ASSUME WatchInv, UNCHANGED <<silos, waiter>>, serverClosing => serverClosing',
         \A j \in SiloIDs : Reported(j)' <=> Reported(j),
         \A j \in SiloIDs : /\ Registered(j) => silo'[j].State = silo[j].State
                            /\ silo'[j].child = "done" => silo[j].child = "done",
         job.pc = "spawn" => job' = job,
         job'.pc \in Unwatched => waiter[job'.id] = "none"
  PROVE  WatchInv'
<1>1. ASSUME NEW j \in SiloIDs PROVE Watch(j)'
  <2>1. WatchKeeps(j)
    BY DEF WatchKeeps, Registered
  <2>2. Watch(j)
    BY DEF WatchInv
  <2> QED
    BY <2>1, <2>2, WatchKept, Zenon
<1>2. job'.pc \in Unwatched => waiter'[job'.id] = "none"
  OBVIOUS
<1> QED
  BY <1>1, <1>2 DEF WatchInv

\* startSiloInternal before the silo is entered: it is not registered yet.
LEMMA WatchStarting ==
  ASSUME SiloInv, ServerInv, WatchInv, SureTeardown,
         \/ StartInterface \/ StartNew \/ StartInit \/ StartLaunch
         \/ CloseUninitialised \/ GiveBack \/ Abandon
  PROVE  WatchInv'
<1>0. /\ UNCHANGED <<silos, waiter, collector, serverClosing>>
      /\ job.pc \in {"start"} \cup Launching \cup Entering
      /\ job \in [pc : JobPCs, name : Names \cup {None}, id : SiloIDs \cup {None}]
  BY DEF StartInterface, StartNew, StartInit, StartLaunch, CloseUninitialised, GiveBack, Abandon,
         AtJob, ServerInv, ServerTypes, Launching, Entering
<1>1. ASSUME NEW id \in SiloIDs, ~Registered(id), OtherSilos(id),
             silo'[id].child = "done" => silo[id].child = "done",
             job'.pc \in Unwatched => waiter[job'.id] = "none"
      PROVE  WatchInv'
  <2>1. \A j \in SiloIDs : Reported(j)' <=> Reported(j)
    BY <1>0 DEF Reported
  <2>2. \A j \in SiloIDs : /\ Registered(j) => silo'[j].State = silo[j].State
                           /\ silo'[j].child = "done" => silo[j].child = "done"
    BY <1>1 DEF OtherSilos
  <2>3. job.pc # "spawn"
    BY <1>0 DEF Launching, Entering
  <2> QED
    BY <1>0, <1>1, <2>1, <2>2, <2>3, WatchQuiet
<1>2. CASE StartInterface
  <2>1. CASE TakeInterfaceFails /\ Unlock
    <3>1. silo' = silo /\ job'.pc = "none"
      BY <2>1 DEF TakeInterfaceFails, PoolAllocFails, Unlock, NoJob
    <3>2. job.pc # "spawn" /\ job'.pc \notin Unwatched
      BY <1>0, <3>1 DEF Launching, Entering, Unwatched
    <3>3. \A j \in SiloIDs : Reported(j)' <=> Reported(j)
      BY <1>0 DEF Reported
    <3> QED
      BY <1>0, <3>1, <3>2, <3>3, WatchQuiet
  <2>2. ASSUME NEW id \in Fresh, TakeInterface(id), job' = [job EXCEPT !.pc = "new", !.id = id]
        PROVE  WatchInv'
    <3>1. id \in SiloIDs /\ silo[id].child = "none"
      BY <2>2 DEF Fresh, NoStruct
    <3>2. ~Registered(id)
      BY <3>1, MetadataAssumption DEF ServerInv, SilosKnown, Registered
    <3>3. OtherSilos(id) /\ silo'[id].child = "none"
      BY <2>2, <3>1, TakeEffect
    <3>4. job'.pc \notin Unwatched
      BY <1>0, <2>2 DEF Unwatched, Entering
    <3> QED
      BY <1>1, <3>1, <3>2, <3>3, <3>4
  <2> QED
    BY <1>2, <2>1, <2>2 DEF StartInterface
<1> DEFINE id == job.id
<1>3. job.pc \in Launching \cup Entering => id \in SiloIDs /\ ~Registered(id)
  BY JobUnregistered
<1>4. ASSUME NEW pc, Step(pc) PROVE job'.id = id /\ job'.pc = pc
  BY <1>0, <1>4 DEF Step
<1>5. job.pc \in Launching => silo[id].child = "none" /\ waiter[id] = "none"
  BY <1>3 DEF ServerInv, JobKnows, ReportsTrue
<1>6. CASE StartNew \/ StartInit \/ StartLaunch
  <2>1. job.pc \in Launching
    BY <1>6 DEF StartNew, StartInit, StartLaunch, AtJob, Launching
  <2>2. job'.id = id
    BY <1>4, <1>6 DEF StartNew, StartInit, StartLaunch
  <2>3. OtherSilos(id) /\ silo'[id].child # "done"
    <3>1. CASE StartNew
      <4>1. (\E req \in Requests : NewSilo(id, req)) \/ UNCHANGED siloVars
        BY <3>1 DEF StartNew
      <4> QED
        BY <1>3, <1>5, <2>1, <4>1, NewEffect DEF siloVars, OtherSilos
    <3>2. CASE StartInit
      <4>1. InitSilo(id) \/ InitFails(id)
        BY <3>2 DEF StartInit
      <4> QED
        BY <1>3, <1>5, <2>1, <4>1, InitEffect
    <3>3. CASE StartLaunch
      <4>1. Start(id) \/ StartFails(id)
        BY <3>3 DEF StartLaunch
      <4> QED
        BY <1>3, <1>5, <2>1, <4>1, StartEffect
    <3> QED
      BY <1>6, <3>1, <3>2, <3>3
  <2> HIDE DEF id
  <2> QED
    BY <1>1, <1>3, <1>5, <2>1, <2>2, <2>3
<1>7. CASE CloseUninitialised \/ Abandon
  <2>1. job.pc \in Launching \cup Entering /\ job'.pc \in {"giveBack", "none"}
    BY <1>0, <1>7 DEF CloseUninitialised, Abandon, AtJob, Step, Unlock, NoJob, Launching, Entering
  <2>2. PICK err : Close(id, err)
    BY <1>7 DEF CloseUninitialised, Abandon
  <2>3. OtherSilos(id) /\ silo'[id].child \in {silo[id].child, "killed"}
    BY <1>3, <2>1, <2>2, CloseKills, CloseMended
  <2>4. job'.pc \notin Unwatched
    BY <2>1 DEF Unwatched, Entering
  <2> HIDE DEF id
  <2> QED
    BY <1>1, <1>3, <2>1, <2>3, <2>4
<1>8. CASE GiveBack
  <2>1. job.pc = "giveBack" /\ job'.pc = "none" /\ ReturnSlice(id)
    BY <1>8, GiveBackReturns DEF GiveBack, AtJob, Unlock, NoJob
  <2>2. id \in SiloIDs /\ ~Registered(id) /\ job'.pc \notin Unwatched
    BY <1>3, <2>1 DEF Launching, Entering, Unwatched
  <2>3. OtherSilos(id) /\ silo'[id].child = silo[id].child
    BY <2>1, <2>2, ReturnEffect
  <2> HIDE DEF id
  <2> QED
    BY <1>1, <2>2, <2>3
<1> QED
  BY <1>2, <1>6, <1>7, <1>8

\* A silo is entered, and its waiter is spawned.
LEMMA WatchEnters ==
  ASSUME SiloInv, ServerInv, WatchInv, NEW id, id = job.id, Register \/ SpawnWaiter
  PROVE  WatchInv'
<1>0. /\ UNCHANGED <<silo, collector, serverClosing>> /\ id \in SiloIDs /\ job.name \in Names
      /\ job \in [pc : JobPCs, name : Names \cup {None}, id : SiloIDs \cup {None}]
      /\ waiter \in [SiloIDs -> {"none", "start", "wait", "reaping", "returned", "send", "over"}]
      /\ silos \in [Names -> SiloIDs \cup {None}]
  BY DEF Register, SpawnWaiter, AtJob, siloVars, ServerInv, LockOwned, ServerTypes
<1>1. Watch(id) /\ waiter[id] = "none"
  BY <1>0 DEF WatchInv, Register, SpawnWaiter, AtJob, Unwatched, Entering
<1>2. \A j \in SiloIDs : Reported(j)' <=> Reported(j)
  BY <1>0 DEF Reported
<1>3. CASE Register
  <2>1. /\ silos' = [silos EXCEPT ![job.name] = id] /\ waiter' = waiter /\ silos[job.name] = None
        /\ job'.pc = "spawn" /\ job'.id = id /\ silo[id].State = "Running" /\ job.pc = "register"
    BY <1>0, <1>3 DEF Register, AtJob, Step, ServerInv, JobKnows, Entering
  <2>2. \A j \in SiloIDs : j # id => (Registered(j)' => Registered(j))
    BY <1>0, <2>1, MetadataAssumption DEF Registered
  <2>3. \A j \in SiloIDs : j # id => WatchKeeps(j)
    BY <1>0, <1>2, <2>1, <2>2 DEF WatchKeeps
  <2>4. Watch(id)'
    BY <1>0, <1>1, <1>2, <2>1 DEF Watch
  <2> QED
    BY <1>0, <1>1, <2>1, <2>3, <2>4, WatchOne
<1>4. CASE SpawnWaiter
  <2>1. /\ waiter' = [waiter EXCEPT ![id] = "start"] /\ silos' = silos /\ job'.pc = "none"
        /\ job.pc = "spawn"
    BY <1>4 DEF SpawnWaiter, AtJob, Unlock, NoJob
  <2>2. \A j \in SiloIDs : Registered(j)' <=> Registered(j)
    BY <2>1 DEF Registered
  <2>3. waiter'[id] = "start" /\ \A j \in SiloIDs : j # id => waiter'[j] = waiter[j]
    BY <1>0, <2>1
  <2>4. \A j \in SiloIDs : j # id => WatchKeeps(j)
    BY <1>0, <1>2, <2>2, <2>3 DEF WatchKeeps
  <2>5. Watch(id)'
    BY <1>0, <1>1, <1>2, <2>2, <2>3 DEF Watch
  <2>6. job'.pc \notin Unwatched
    BY <2>1 DEF Unwatched, Entering
  <2> QED
    BY <1>0, <2>4, <2>5, <2>6, WatchOne
<1> QED
  BY <1>3, <1>4

\* A stop takes the silo off the server, or its waiter is still to report it.
LEMMA WatchStops ==
  ASSUME SiloInv, ServerInv, WatchInv, SureTeardown, NEW id, id = job.id, StopClose
  PROVE  WatchInv'
<1>0. /\ job.pc = "close" /\ id \in SiloIDs /\ job.name \in Names
      /\ UNCHANGED <<waiter, serverClosing>>
      /\ silos[job.name] = id /\ silos \in [Names -> SiloIDs \cup {None}]
  BY DEF StopClose, AtJob, ServerInv, LockOwned, JobKnows, Owning, ServerTypes
<1>1. Registered(id) /\ Watch(id)
  BY <1>0 DEF Registered, WatchInv
<1>2. PICK err : /\ Close(id, err)
                 /\ silos' = IF err = "none" THEN [silos EXCEPT ![job.name] = None] ELSE silos
                 /\ StopReturns(err = "none")
  BY DEF StopClose
<1>3. /\ OtherSilos(id) /\ silo'[id].child \in {silo[id].child, "killed"}
      /\ err = "none" \/ (err = "pid" /\ silo[id].child = "done" /\ silo' = silo)
  BY <1>0, <1>2, CloseKills, CloseMended
<1>4. job'.pc \notin Unwatched
  <2>1. \/ job' = NoJob
        \/ job' = [pc |-> "start", name |-> job.name, id |-> None]
    BY <1>2 DEF StopReturns, Unlock
  <2> QED
    BY <2>1 DEF NoJob, Unwatched, Entering
<1>5. \A j \in SiloIDs : j # id => (Registered(j)' <=> Registered(j))
  BY <1>0, <1>2, MetadataAssumption DEF Registered
<1>6. /\ \A j \in SiloIDs : j # id => (Reported(j)' <=> Reported(j))
      /\ Reported(id)' => Reported(id)
  <2>1. CASE lock = "collector"
    <3>1. collector'.pc = "recv" /\ collector.id = id
      BY <1>0, <1>2, <2>1 DEF StopReturns, ServerInv, ReportsTrue
    <3> QED
      BY <3>1 DEF Reported
  <2>2. CASE lock # "collector"
    BY <1>2, <2>2 DEF StopReturns, Reported
  <2> QED
    BY <2>1, <2>2
<1>7. \A j \in SiloIDs : j # id => WatchKeeps(j)
  BY <1>0, <1>3, <1>5, <1>6 DEF WatchKeeps, OtherSilos
<1>8. Watch(id)'
  <2>1. CASE err = "none"
    <3>1. ~Registered(id)'
      <4>1. silos' = [silos EXCEPT ![job.name] = None] /\ id # None
        BY <1>0, <1>2, <2>1, MetadataAssumption
      <4>2. \A n \in Names : silos[n] # None => nameOf[silos[n]] = n
        BY DEF ServerInv, SilosKnown
      <4>3. nameOf[id] = job.name
        BY <1>0, <4>1, <4>2, Zenon
      <4>4. \A n \in Names : silos[n] = id => n = job.name
        BY <4>1, <4>2, <4>3, Zenon
      <4>5. \A n \in Names : silos'[n] # id
        BY <1>0, <4>1, <4>4
      <4> QED
        BY <4>5 DEF Registered
    <3> QED
      BY <1>0, <1>1, <1>3, <1>6, <3>1 DEF Watch
  <2>2. CASE err # "none"
    <3>1. silo' = silo /\ waiter[id] = "reaping" /\ silo[id].State = "Running"
      BY <1>1, <1>3, <2>2 DEF Watch
    <3> QED
      BY <1>0, <1>1, <1>6, <3>1 DEF Watch
  <2> QED
    BY <2>1, <2>2
<1> QED
  BY <1>0, <1>4, <1>7, <1>8, WatchOne

\* waitNotifySilo goes on; only the collector takes its report.
LEMMA WatchWaits ==
  ASSUME SiloInv, ServerInv, WatchInv, NEW id \in SiloIDs,
         WaitEnter(id) \/ WaitWakes(id) \/ WaitReaps(id) \/ WaitNotify(id) \/ Send(id)
  PROVE  WatchInv'
<1>0. /\ UNCHANGED <<silos, job, serverClosing>>
      /\ waiter \in [SiloIDs -> {"none", "start", "wait", "reaping", "returned", "send", "over"}]
      /\ collector \in [pc : {"spawned", "recv", "got", "stopping", "exited"}, id : SiloIDs \cup {None}]
      /\ silo \in [SiloIDs -> StructType]
  BY SaneFacts DEF WaitEnter, WaitWakes, WaitReaps, WaitNotify, Send, SetWaiter, ServerInv, ServerTypes
<1>1. PICK w, c :
        /\ waiter' = [waiter EXCEPT ![id] = w]
        /\ silo' = [silo EXCEPT ![id].child = c]
        /\ \/ waiter[id] = "start" /\ w \in {"wait", "returned"} /\ c = silo[id].child
           \/ waiter[id] = "wait" /\ w = "reaping" /\ c = "done"
           \/ waiter[id] = "reaping" /\ w = "returned" /\ c = "reaped"
           \/ waiter[id] = "returned" /\ w = "send" /\ c = silo[id].child
           \/ waiter[id] = "returned" /\ w = "over" /\ c = silo[id].child /\ serverClosing
           \/ waiter[id] = "send" /\ w = "over" /\ c = silo[id].child
  <2>0. silo = [silo EXCEPT ![id].child = silo[id].child]
    BY <1>0 DEF StructType
  <2>1. CASE WaitEnter(id)
    BY <2>0, <2>1, Zenon DEF WaitEnter, SetWaiter, siloVars
  <2>2. CASE WaitWakes(id)
    BY <2>2 DEF WaitWakes, WaitDone, SetChild, SetWaiter
  <2>3. CASE WaitReaps(id)
    BY <2>3 DEF WaitReaps, WaitReap, SetChild, SetWaiter
  <2>4. CASE WaitNotify(id)
    BY <2>0, <2>4, Zenon DEF WaitNotify, SetWaiter, siloVars
  <2>5. CASE Send(id)
    BY <2>0, <2>5, Zenon DEF Send, siloVars
  <2> QED
    BY <2>1, <2>2, <2>3, <2>4, <2>5
<1>2. /\ \/ ~Send(id) /\ collector' = collector
         \/ Send(id) /\ collector.pc = "recv" /\ collector' = [pc |-> "got", id |-> id]
      /\ Send(id) => waiter[id] = "send"
  BY DEF WaitEnter, WaitWakes, WaitReaps, WaitNotify, Send, SetWaiter
<1>3. /\ \A j \in SiloIDs : j # id => (Reported(j)' <=> Reported(j))
      /\ Reported(id)' => Reported(id) \/ Send(id)
      /\ Send(id) => Reported(id)'
  BY <1>2 DEF Reported
<1>4. /\ waiter'[id] = w /\ \A j \in SiloIDs : j # id => waiter'[j] = waiter[j]
      /\ silo'[id].child = c /\ silo'[id].State = silo[id].State
      /\ \A j \in SiloIDs : j # id => silo'[j] = silo[j]
  BY <1>0, <1>1 DEF StructType
<1>5. \A j \in SiloIDs : Registered(j)' <=> Registered(j)
  BY <1>0 DEF Registered
<1>6. Watch(id) /\ waiter[id] # "none"
  BY <1>1 DEF WatchInv
<1>7. \A j \in SiloIDs : j # id => WatchKeeps(j)
  BY <1>0, <1>3, <1>4, <1>5 DEF WatchKeeps
<1>8. Watch(id)'
  <2>1. ~Reported(id)
    BY <1>1, <1>6 DEF Watch
  <2>2. w = "over" => serverClosing' \/ Reported(id)'
    <3>1. waiter[id] = "send" => Send(id)
      BY DEF WaitEnter, WaitWakes, WaitReaps, WaitNotify, SetWaiter
    <3> QED
      BY <1>0, <1>1, <1>3, <3>1
  <2>3. Reported(id)' => w = "over"
    BY <1>1, <1>2, <1>3, <2>1
  <2>4. c = "done" => w = "reaping"
    BY <1>1, <1>6 DEF Watch
  <2>5. w # "none"
    BY <1>1
  <2>6. Registered(id)' => silo'[id].State = "Running"
    BY <1>4, <1>5, <1>6 DEF Watch
  <2> QED
    BY <1>4, <2>2, <2>3, <2>4, <2>5, <2>6 DEF Watch
<1>9. job'.pc \in Unwatched => waiter'[job'.id] = "none"
  <2>1. job.pc \in Unwatched => waiter[job.id] = "none" /\ job.id \in SiloIDs
    BY DEF WatchInv, ServerInv, LockOwned, Unwatched, Entering
  <2> QED
    BY <1>0, <1>4, <1>6, <2>1
<1> QED
  BY <1>0, <1>7, <1>8, <1>9, WatchOne

\* The collector puts a report away only if the silo is not on the server.
LEMMA WatchCollects ==
  ASSUME ServerInv, WatchInv, Collect
  PROVE  WatchInv'
<1>0. /\ UNCHANGED <<silo, silos, waiter, serverClosing>> /\ job.pc = "none"
      /\ collector.pc = "got" /\ collector.id \in SiloIDs
      /\ collector \in [pc : {"spawned", "recv", "got", "stopping", "exited"}, id : SiloIDs \cup {None}]
  BY DEF Collect, siloVars, ServerInv, ServerTypes, LockOwned, ReportsTrue, Ended
<1>1. \A j \in SiloIDs : Registered(j)' <=> Registered(j)
  BY <1>0 DEF Registered
<1>2. job'.pc \notin Unwatched
  BY <1>0 DEF Collect, Unwatched, Entering
<1>3. CASE silos[nameOf[collector.id]] = collector.id
  <2>1. collector' = [collector EXCEPT !.pc = "stopping"]
    BY <1>3 DEF Collect
  <2>2. collector'.pc = "stopping" /\ collector'.id = collector.id
    BY <1>0, <2>1
  <2>3. \A j \in SiloIDs : Reported(j)' <=> Reported(j)
    BY <1>0, <2>2 DEF Reported
  <2> QED
    BY <1>0, <1>2, <2>3, WatchQuiet
<1>4. CASE silos[nameOf[collector.id]] # collector.id
  <2>1. PICK id \in SiloIDs : id = collector.id
    BY <1>0
  <2>2. collector'.pc = "recv"
    BY <1>4 DEF Collect
  <2>3. \A j \in SiloIDs : j # id => (Reported(j)' <=> Reported(j))
    BY <2>1, <2>2 DEF Reported
  <2>4. ~Registered(id)
    <3>1. SUFFICES ASSUME NEW n \in Names, silos[n] = id PROVE FALSE
      BY DEF Registered
    <3>2. silos[n] # None
      BY <3>1, MetadataAssumption
    <3>3. nameOf[silos[n]] = n
      BY <3>2 DEF ServerInv, SilosKnown
    <3> QED
      BY <1>4, <2>1, <3>1, <3>3
  <2>5. Watch(id)'
    BY <1>0, <1>1, <2>2, <2>4 DEF WatchInv, Watch, Reported
  <2>6. \A j \in SiloIDs : j # id => WatchKeeps(j)
    BY <1>0, <1>1, <2>3 DEF WatchKeeps
  <2> QED
    BY <1>0, <1>2, <2>5, <2>6, WatchOne
<1> QED
  BY <1>3, <1>4

LEMMA WatchInvStep ==
  ASSUME SiloInv, ServerInv, WatchInv, SureTeardown, [Next]_vars
  PROVE  WatchInv'
<1>0. ServerTypes
  BY DEF ServerInv
<1>1. CASE \/ StartInterface \/ StartNew \/ StartInit \/ StartLaunch
           \/ CloseUninitialised \/ GiveBack \/ Abandon
  BY <1>1, WatchStarting
<1>2. CASE Register \/ SpawnWaiter
  BY <1>2, WatchEnters
<1>3. CASE StopClose
  BY <1>3, WatchStops
<1>4. CASE Collect
  BY <1>4, WatchCollects
<1>5. ASSUME NEW id \in SiloIDs,
             WaitEnter(id) \/ WaitWakes(id) \/ WaitReaps(id) \/ WaitNotify(id) \/ Send(id)
      PROVE  WatchInv'
  BY <1>5, WatchWaits
<1>6. CASE StartRefused \/ StopNotify \/ CloseNext \/ \E n \in Names : ServeUp(n) \/ ServeDown(n)
  <2>1. UNCHANGED <<silo, silos, waiter, collector, serverClosing>>
    BY <1>6 DEF StartRefused, StopNotify, CloseNext, ServeUp, ServeDown, siloVars
  <2>2. job.pc # "spawn" /\ job'.pc \in {"none", "start", "stop", "close"}
    <3>1. CASE StartRefused
      BY <3>1 DEF StartRefused, AtJob, Unlock, NoJob
    <3>2. CASE StopNotify
      BY <1>0, <3>2 DEF StopNotify, AtJob, Step, ServerTypes
    <3>3. CASE \E n \in Names : ServeUp(n) \/ ServeDown(n)
      <4>1. job.pc = "none"
        BY <3>3 DEF ServeUp, ServeDown, ServerInv, LockOwned
      <4>2. job'.pc \in {"start", "stop"}
        BY <3>3 DEF ServeUp, ServeDown
      <4> QED
        BY <4>1, <4>2
    <3>4. CASE CloseNext
      BY <3>4, SMTT(20) DEF CloseNext, NoJob
    <3> QED
      BY <1>6, <3>1, <3>2, <3>3, <3>4
  <2>3. job'.pc \notin Unwatched
    BY <2>2 DEF Unwatched, Entering
  <2>4. \A j \in SiloIDs : Reported(j)' <=> Reported(j)
    BY <2>1 DEF Reported
  <2> QED
    BY <2>1, <2>2, <2>3, <2>4, WatchQuiet
<1>7. ASSUME NEW id \in SiloIDs, ChildExits(id) \/ ChildDies(id) PROVE WatchInv'
  <2>1. silo' = [silo EXCEPT ![id].child = "zombie"] /\ UNCHANGED serverVars
    BY <1>7 DEF ChildExits, ChildDies, Exit, Die, SetChild
  <2>2. silo \in [SiloIDs -> StructType]
    BY SaneFacts
  <2>3. \A j \in SiloIDs : /\ silo'[j].State = silo[j].State
                           /\ silo'[j].child = "done" => silo[j].child = "done"
    BY <2>1, <2>2 DEF StructType
  <2>4. UNCHANGED <<silos, waiter, collector, serverClosing, job>>
    BY <2>1 DEF serverVars
  <2>5. \A j \in SiloIDs : Reported(j)' <=> Reported(j)
    BY <2>4 DEF Reported
  <2> QED
    BY <2>3, <2>4, <2>5, WatchQuiet DEF WatchInv
<1>8. CASE \/ ServeList \/ MetaStep \/ UNCHANGED vars
           \/ Interrupt \/ CloseMetaSignal \/ CloseMetaWait \/ CloseFlag \/ CloseChannels
           \/ CloseLock \/ CloseUnlock \/ CloseWait \/ CloseServ
           \/ CollectorRuns \/ CollectorReturns
           \/ \E id \in SiloIDs : ListenStep(id) \/ SendPanics(id)
  <2>1. UNCHANGED <<silo, silos, waiter, job>>
    BY <1>8 DEF ServeList, MetaStep, Interrupt, CloseMetaSignal, CloseMetaWait, CloseFlag,
      CloseChannels, CloseLock, CloseUnlock, CloseWait, CloseServ, CollectorRuns, CollectorReturns,
      ListenStep, SendPanics, vars, serverVars, siloVars
  <2>2. /\ serverClosing' = serverClosing \/ serverClosing' = TRUE
        /\ UNCHANGED collector \/ CollectorRuns \/ CollectorReturns
    BY <1>8 DEF ServeList, MetaStep, Interrupt, CloseMetaSignal, CloseMetaWait, CloseFlag,
      CloseChannels, CloseLock, CloseUnlock, CloseWait, CloseServ, CollectorRuns, CollectorReturns,
      ListenStep, SendPanics, vars, serverVars
  <2>3. serverClosing => serverClosing'
    BY <2>2, Zenon
  <2>4. \A j \in SiloIDs : Reported(j)' <=> Reported(j)
    <3>1. CASE UNCHANGED collector
      BY <3>1 DEF Reported
    <3>2. CASE CollectorRuns
      <4>1. collector.pc = "spawned" /\ collector'.pc = "recv"
        BY <1>0, <3>2 DEF CollectorRuns, ServerTypes
      <4> QED
        BY <4>1 DEF Reported
    <3>3. CASE CollectorReturns
      BY <3>3 DEF CollectorReturns, Reported
    <3> QED
      BY <2>2, <3>1, <3>2, <3>3
  <2> QED
    BY <2>1, <2>3, <2>4, WatchQuiet DEF WatchInv
<1> QED
  BY <1>1, <1>2, <1>3, <1>4, <1>5, <1>6, <1>7, <1>8 DEF Next, JobStep, CloserStep, WaiterStep

\* If teardown does not fail, every silo on the server is watched, whatever
\* fails on the way up and whoever stops silos meanwhile, until the server
\* closes.  The condition is needed: a teardown that fails in the collector
\* leaves a silo on the server that nobody reports again.
THEOREM WatchedUntilGone ==
  ASSUME SureTeardown
  PROVE  Spec => []RegisteredIsWatched
<1>1. Spec => [](ServerInv /\ WatchInv)
  <2>1. SiloInv /\ ServerInv /\ WatchInv /\ [Next]_vars => WatchInv'
    BY WatchInvStep
  <2> QED
    BY <2>1, WatchInvInit, ServerInvariant, PTL DEF Spec
<1>2. ServerInv /\ WatchInv => RegisteredIsWatched
  <2> SUFFICES ASSUME ServerInv, WatchInv, NEW id \in SiloIDs, Registered(id), ~serverClosing
               PROVE  \/ waiter[id] \in {"start", "wait", "reaping", "returned", "send"}
                      \/ job.id = id /\ job.pc = "spawn"
                      \/ Reported(id)
    BY DEF RegisteredIsWatched
  <2>1. waiter[id] \in {"none", "start", "wait", "reaping", "returned", "send", "over"}
    BY DEF ServerInv, ServerTypes
  <2>2. Watch(id)
    BY DEF WatchInv
  <2> QED
    BY <2>1, <2>2 DEF Watch
<1> QED
  BY <1>1, <1>2, PTL
=============================================================================
