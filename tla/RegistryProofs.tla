--------------------------- MODULE RegistryProofs ---------------------------
(***************************************************************************)
(* The server implements the registry of names: every step of the server   *)
(* is one step of module Registry on the phases, the running processes and *)
(* the names, or changes none of them.  It also keeps what LossProofs shows*)
(* of the pool, since it drives the pool as it expects, and with what      *)
(* ReleaseProofs shows of silos that are given up it accounts for every    *)
(* address.                                                                *)
(***************************************************************************)
EXTENDS ReleaseProofs, LossProofs

\* startSiloInternal is about to enter the silo in Server.silos, or to close it
AtEntry(id) == job.id = id /\ job.pc \in {"register", "abandon"}

\* the silos that change, if any, do not change their place in the registry
SeenAlike(id) ==
  /\ (silo'[id].child = "none") <=> (silo[id].child = "none")
  /\ (silo'[id].child = "alive") <=> (silo[id].child = "alive")
  /\ silo[id].child # "none" => nameOf'[id] = nameOf[id] /\ (AtEntry(id)' <=> AtEntry(id))

\* What a step changes in the registry.

LEMMA NothingSeen ==
  ASSUME UNCHANGED silos, \A id \in SiloIDs : SeenAlike(id)
  PROVE  UNCHANGED R!vars
<1>1. \A id \in SiloIDs : Registered(id)' <=> Registered(id)
  BY DEF Registered
<1>2. [id \in SiloIDs |-> Phase(id)]' = [id \in SiloIDs |-> Phase(id)]
  <2>1. ASSUME NEW id \in SiloIDs PROVE Phase(id)' = Phase(id)
    BY <1>1, <2>1 DEF SeenAlike, Phase, Started, AtEntry
  <2> QED
    BY <2>1
<1>3. {id \in SiloIDs : silo[id].child = "alive"}' = {id \in SiloIDs : silo[id].child = "alive"}
  BY DEF SeenAlike
<1>4. [id \in SiloIDs |-> IF Started(id) THEN nameOf[id] ELSE None]'
        = [id \in SiloIDs |-> IF Started(id) THEN nameOf[id] ELSE None]
  BY DEF SeenAlike, Started
<1> QED
  BY <1>2, <1>3, <1>4 DEF R!vars

\* Start has started a process, under a name that nobody has.
LEMMA LaunchSeen ==
  ASSUME ServerTypes, SilosKnown, NEW id \in SiloIDs, NEW n \in Names, nameOf[id] = n, silos[n] = None,
         UNCHANGED <<silos, nameOf>>, OtherSilos(id),
         silo[id].child = "none", silo'[id].child \in {"alive", "zombie"},
         \A j \in SiloIDs : ~AtEntry(j), AtEntry(id)'
  PROVE  R!Launch(id, n)
<1>1. \A j \in SiloIDs : (Registered(j)' <=> Registered(j)) /\ (Registered(j) => nameOf[j] # n)
  BY MetadataAssumption DEF Registered, SilosKnown
<1>2. ~Registered(id)
  BY MetadataAssumption DEF Registered, SilosKnown
<1>3. \A j \in SiloIDs : j # id => ~AtEntry(j)'
  BY DEF AtEntry
<1>4. /\ Phase(id) = "new" /\ Phase(id)' = "started"
      /\ \A j \in SiloIDs : j # id => Phase(j)' = Phase(j)
  BY <1>1, <1>2, <1>3 DEF Phase, Started, AtEntry, OtherSilos
<1>5. \A j \in SiloIDs : Phase(j) \in {"started", "listed"} => Started(j) /\ nameOf[j] # n
  <2>1. \A j \in SiloIDs : Registered(j) => Started(j)
    BY MetadataAssumption, SMTT(20) DEF Registered, SilosKnown, Started
  <2> QED
    BY <1>1, <2>1 DEF Phase, AtEntry
<1>6. Started(id)' /\ \A j \in SiloIDs : j # id => (Started(j)' <=> Started(j))
  BY DEF Started, OtherSilos
<1>7. [j \in SiloIDs |-> Phase(j)]' = [[j \in SiloIDs |-> Phase(j)] EXCEPT ![id] = "started"]
  BY <1>4
<1>8. [j \in SiloIDs |-> IF Started(j) THEN nameOf[j] ELSE None]'
        = [[j \in SiloIDs |-> IF Started(j) THEN nameOf[j] ELSE None] EXCEPT ![id] = n]
  BY <1>6
<1>9. {j \in SiloIDs : silo[j].child = "alive"}'
        \in {{j \in SiloIDs : silo[j].child = "alive"},
             {j \in SiloIDs : silo[j].child = "alive"} \cup {id}}
  <2>1. CASE silo'[id].child = "alive"
    BY <2>1 DEF OtherSilos
  <2>2. CASE silo'[id].child # "alive"
    BY <2>2 DEF OtherSilos
  <2> QED
    BY <2>1, <2>2
<1> QED
  BY <1>4, <1>5, <1>7, <1>8, <1>9 DEF R!Launch, R!Present

\* The silo gets its name on the server.
LEMMA EnterSeen ==
  ASSUME ServerTypes, SilosKnown, NEW id \in SiloIDs, NEW n \in Names, nameOf[id] = n, silos[n] = None,
         silos' = [silos EXCEPT ![n] = id], UNCHANGED <<silo, nameOf>>,
         silo[id].child # "none", AtEntry(id), \A j \in SiloIDs : ~AtEntry(j)'
  PROVE  R!Enter(id)
<1>1. Registered(id)' /\ ~Registered(id)
  BY MetadataAssumption, SMTT(20) DEF Registered, SilosKnown, ServerTypes
<1>2. \A j \in SiloIDs : j # id => (Registered(j)' <=> Registered(j))
  BY MetadataAssumption DEF Registered, ServerTypes
<1>3. /\ Phase(id) = "started" /\ Phase(id)' = "listed"
      /\ \A j \in SiloIDs : j # id => Phase(j)' = Phase(j)
  BY <1>1, <1>2 DEF Phase, Started, AtEntry
<1> QED
  BY <1>3 DEF R!Enter, Started

\* A silo leaves the server, or is closed before it has got its name.
LEMMA LeaveSeen ==
  ASSUME NEW id \in SiloIDs, UNCHANGED nameOf, OtherSilos(id),
         silo[id].child # "none", silo'[id].child \notin {"none", "alive"},
         Registered(id) \/ AtEntry(id), ~Registered(id)',
         \A j \in SiloIDs : j # id => (Registered(j)' <=> Registered(j)) /\ ~AtEntry(j),
         \A j \in SiloIDs : ~AtEntry(j)'
  PROVE  R!Leave(id)
<1>1. /\ Phase(id) \in {"started", "listed"} /\ Phase(id)' = "gone"
      /\ \A j \in SiloIDs : j # id => Phase(j)' = Phase(j)
  BY DEF Phase, Started, AtEntry, OtherSilos
<1>2. \A j \in SiloIDs : Started(j)' <=> Started(j)
  BY DEF Started, OtherSilos
<1>3. {j \in SiloIDs : silo[j].child = "alive"}' = {j \in SiloIDs : silo[j].child = "alive"} \ {id}
  BY DEF OtherSilos
<1>4. [j \in SiloIDs |-> Phase(j)]' = [[j \in SiloIDs |-> Phase(j)] EXCEPT ![id] = "gone"]
  BY <1>1
<1>5. [j \in SiloIDs |-> IF Started(j) THEN nameOf[j] ELSE None]'
        = [j \in SiloIDs |-> IF Started(j) THEN nameOf[j] ELSE None]
  BY <1>2
<1> QED
  BY <1>1, <1>3, <1>4, <1>5 DEF R!Leave, R!Present

\* A process ends while its silo stays where it is.
LEMMA EndSeen ==
  ASSUME NEW id \in SiloIDs, UNCHANGED <<silos, nameOf>>,
         \A j \in SiloIDs : j # id => SeenAlike(j),
         silo[id].child = "alive", silo'[id].child \notin {"none", "alive"},
         AtEntry(id)' <=> AtEntry(id)
  PROVE  R!End(id)
<1>1. \A j \in SiloIDs : Registered(j)' <=> Registered(j)
  BY DEF Registered
<1>2. \A j \in SiloIDs : Phase(j)' = Phase(j)
  BY <1>1 DEF Phase, Started, AtEntry, SeenAlike
<1>3. \A j \in SiloIDs : Started(j)' <=> Started(j)
  BY DEF Started, SeenAlike
<1>4. {j \in SiloIDs : silo[j].child = "alive"}' = {j \in SiloIDs : silo[j].child = "alive"} \ {id}
  BY DEF SeenAlike
<1>5. [j \in SiloIDs |-> IF Started(j) THEN nameOf[j] ELSE None]'
        = [j \in SiloIDs |-> IF Started(j) THEN nameOf[j] ELSE None]
  BY <1>3
<1>6. [j \in SiloIDs |-> Phase(j)]' = [j \in SiloIDs |-> Phase(j)]
  BY <1>2
<1> QED
  BY <1>4, <1>5, <1>6 DEF R!End

\* Steps of the server that the registry does not see.

LEMMA QuietUnseen ==
  ASSUME UNCHANGED <<silo, silos, nameOf>>,
         UNCHANGED job \/ (\A id \in SiloIDs : ~AtEntry(id) /\ ~AtEntry(id)')
  PROVE  UNCHANGED R!vars
<1>1. \A id \in SiloIDs : AtEntry(id)' <=> AtEntry(id)
  BY DEF AtEntry
<1> QED
  BY <1>1, NothingSeen DEF SeenAlike

\* everything but the calls of startSiloInternal and stopSiloInternal
LEMMA OthersImplementRegistry ==
  ASSUME SiloInv, ServerInv, [Next]_vars, ~JobStep
  PROVE  [R!Next]_(R!vars)
<1>0. LockOwned
  BY DEF ServerInv
<1>1. CASE \/ ServeList \/ MetaStep \/ UNCHANGED vars
           \/ Interrupt \/ CloseMetaSignal \/ CloseMetaWait \/ CloseFlag \/ CloseChannels
           \/ CloseWait \/ CloseServ \/ CloseLock \/ CloseUnlock
           \/ CollectorRuns \/ CollectorReturns
           \/ \E id \in SiloIDs : ListenStep(id) \/ SendPanics(id) \/ WaitEnter(id)
                                  \/ WaitNotify(id) \/ Send(id)
  <2>1. UNCHANGED <<silo, silos, nameOf, job>>
    BY <1>1 DEF ServeList, MetaStep, vars, siloVars, serverVars, Interrupt, CloseMetaSignal,
         CloseMetaWait, CloseFlag, CloseChannels, CloseWait, CloseServ, CloseLock, CloseUnlock,
         CollectorRuns, CollectorReturns, ListenStep, SendPanics, WaitEnter, WaitNotify, Send,
         SetWaiter
  <2> QED
    BY <2>1, QuietUnseen
<1>2. CASE Collect \/ CloseNext \/ \E n \in Names : ServeUp(n) \/ ServeDown(n)
  <2>1. UNCHANGED <<silo, silos, nameOf>> /\ job.pc \in {"none"}
    BY <1>0, <1>2 DEF Collect, CloseNext, ServeUp, ServeDown, siloVars, NoJob, LockOwned
  <2>2. job'.pc \in {"none", "start", "stop"}
    BY <1>2, <2>1 DEF Collect, CloseNext, ServeUp, ServeDown
  <2> QED
    BY <2>1, <2>2, QuietUnseen DEF AtEntry
<1>3. ASSUME NEW id \in SiloIDs, WaitWakes(id) \/ WaitReaps(id) \/ ChildDies(id)
      PROVE  UNCHANGED R!vars
  <2>1. UNCHANGED <<silos, nameOf, job>>
    BY <1>3 DEF WaitWakes, WaitReaps, ChildDies, SetWaiter, serverVars
  <2>2. PICK b \in {"killed", "zombie", "done"}, c \in {"zombie", "done", "reaped"} :
          SetChild(id, b, c)
    BY <1>3 DEF WaitWakes, WaitReaps, ChildDies, WaitDone, WaitReap, Die
  <2>3. silo[id].child \notin {"none", "alive"} /\ silo'[id].child \notin {"none", "alive"}
        /\ OtherSilos(id)
    BY <2>2, SaneFacts DEF SetChild, OtherSilos, StructType
  <2>4. \A j \in SiloIDs : SeenAlike(j)
    BY <2>1, <2>3 DEF SeenAlike, OtherSilos, AtEntry
  <2> QED
    BY <2>1, <2>4, NothingSeen
<1>4. ASSUME NEW id \in SiloIDs, ChildExits(id) PROVE R!Next
  <2>1. UNCHANGED <<silos, nameOf, job>> /\ SetChild(id, "alive", "zombie")
    BY <1>4 DEF ChildExits, Exit, serverVars
  <2>2. silo[id].child = "alive" /\ silo'[id].child = "zombie" /\ OtherSilos(id)
    BY <2>1, SaneFacts DEF SetChild, OtherSilos, StructType
  <2>3. R!End(id)
    BY <2>1, <2>2, EndSeen DEF SeenAlike, OtherSilos, AtEntry
  <2> QED
    BY <2>3 DEF R!Next
<1> QED
  BY <1>1, <1>2, <1>3, <1>4 DEF Next, CloserStep, WaiterStep

\* The calls of startSiloInternal and stopSiloInternal.

LEMMA JobImplementsRegistry ==
  ASSUME SiloInv, ServerInv, JobStep
  PROVE  [R!Next]_(R!vars)
<1>0. ServerTypes /\ LockOwned /\ JobKnows /\ SilosKnown
  BY DEF ServerInv
<1>1. CASE StartRefused \/ SpawnWaiter \/ StopNotify
  <2>1. UNCHANGED <<silo, silos, nameOf>> /\ job.pc \in {"start", "spawn", "stop"}
    BY <1>1 DEF StartRefused, SpawnWaiter, StopNotify, AtJob, siloVars
  <2>2. job'.pc \in {"none", "close"}
    BY <1>0, <1>1 DEF ServerTypes, StartRefused, SpawnWaiter, StopNotify, Unlock, NoJob, Step
  <2> QED
    BY <2>1, <2>2, QuietUnseen DEF AtEntry
<1>2. CASE StartInterface
  <2>1. UNCHANGED silos /\ job.pc = "start" /\ job'.pc \in {"none", "new"}
    <3>1. UNCHANGED silos /\ job.pc = "start"
      BY <1>2 DEF StartInterface, AtJob
    <3>2. job' = NoJob \/ \E id \in Fresh : job' = [job EXCEPT !.pc = "new", !.id = id]
      BY <1>2 DEF StartInterface, Unlock
    <3>3. job' = NoJob => job'.pc = "none"
      BY DEF NoJob
    <3>4. (\E id \in Fresh : job' = [job EXCEPT !.pc = "new", !.id = id]) => job'.pc = "new"
      BY <1>0 DEF ServerTypes
    <3> QED
      BY <3>1, <3>2, <3>3, <3>4
  <2>2. \A j \in SiloIDs : SeenAlike(j)
    <3>1. CASE TakeInterfaceFails /\ UNCHANGED nameOf
      BY <2>1, <3>1 DEF TakeInterfaceFails, SeenAlike, AtEntry
    <3>2. ASSUME NEW id \in Fresh, TakeInterface(id), nameOf' = [nameOf EXCEPT ![id] = job.name]
          PROVE  \A j \in SiloIDs : SeenAlike(j)
      <4>1. id \in SiloIDs /\ silo[id].child = "none"
        BY <3>2 DEF Fresh, NoStruct
      <4>2. OtherSilos(id) /\ silo'[id].child = "none"
        BY <3>2, <4>1, TakeEffect
      <4>3. \A j \in SiloIDs : j # id => nameOf'[j] = nameOf[j]
        BY <1>0, <3>2 DEF ServerTypes
      <4> QED
        BY <2>1, <4>1, <4>2, <4>3 DEF SeenAlike, AtEntry, OtherSilos
    <3> QED
      BY <1>2, <3>1, <3>2 DEF StartInterface
  <2> QED
    BY <2>1, <2>2, NothingSeen
<1>3. CASE StartNew \/ StartInit \/ CloseUninitialised \/ GiveBack
  <2>1. /\ UNCHANGED <<silos, nameOf>> /\ job.id \in SiloIDs
        /\ job.pc \in {"new", "init", "closeUninitialised", "giveBack"}
        /\ job'.pc \in {"none", "init", "launch", "closeUninitialised", "giveBack"}
    BY <1>0, <1>3 DEF LockOwned, ServerTypes, StartNew, StartInit, CloseUninitialised, GiveBack,
                      AtJob, Step, Unlock, NoJob
  <2>2. OtherSilos(job.id) /\ silo'[job.id].child = silo[job.id].child
    <3>1. CASE StartNew
      BY <2>1, <3>1, NewEffect DEF StartNew, siloVars, OtherSilos
    <3>2. CASE StartInit
      BY <2>1, <3>2, InitEffect DEF StartInit
    <3>3. CASE CloseUninitialised
      <4>1. silo[job.id].State # "Running"
        BY <1>0, <3>3 DEF JobKnows, CloseUninitialised, AtJob
      <4> QED
        BY <2>1, <3>3, <4>1, CloseKills DEF CloseUninitialised, CloseKilled
    <3>4. CASE GiveBack
      BY <3>4, GiveBackReturns, ReturnEffect
    <3> QED
      BY <1>3, <3>1, <3>2, <3>3, <3>4
  <2>3. \A j \in SiloIDs : SeenAlike(j)
    BY <2>1, <2>2 DEF SeenAlike, AtEntry, OtherSilos
  <2> QED
    BY <2>1, <2>3, NothingSeen
<1>4. CASE StartLaunch
  <2>0. PICK id \in SiloIDs, n \in Names : id = job.id /\ n = job.name
    BY <1>0, <1>4 DEF LockOwned, StartLaunch, AtJob
  <2>1. /\ job.pc = "launch" /\ job.id = id /\ job.name = n
        /\ silos[n] = None /\ nameOf[id] = n /\ silo[id].child = "none"
        /\ UNCHANGED <<silos, nameOf>>
    BY <1>0, <1>4, <2>0 DEF LockOwned, JobKnows, Launching, StartLaunch, AtJob
  <2>2. job'.pc \in {"register", "abandon"} /\ job'.id = id
    BY <1>0, <1>4, <2>0 DEF ServerTypes, StartLaunch, Step
  <2>3. OtherSilos(id) /\ silo'[id].child \in {"none", "alive", "zombie"}
    BY <1>4, <2>1, StartEffect DEF StartLaunch
  <2>4. CASE silo'[id].child = "none"
    <3>1. \A j \in SiloIDs : SeenAlike(j)
      BY <2>1, <2>2, <2>3, <2>4 DEF SeenAlike, AtEntry, OtherSilos
    <3> QED
      BY <2>1, <3>1, NothingSeen
  <2>5. CASE silo'[id].child # "none"
    <3>1. (\A j \in SiloIDs : ~AtEntry(j)) /\ AtEntry(id)'
      BY <2>1, <2>2 DEF AtEntry
    <3>2. R!Launch(id, n)
      BY <1>0, <2>1, <2>3, <2>5, <3>1, LaunchSeen
    <3> QED
      BY <2>1, <3>2 DEF R!Next
  <2> QED
    BY <2>4, <2>5
<1>5. CASE Register
  <2>1. /\ job.pc = "register" /\ job.id \in SiloIDs /\ job.name \in Names
        /\ silos[job.name] = None /\ nameOf[job.id] = job.name /\ silo[job.id].child # "none"
        /\ silos' = [silos EXCEPT ![job.name] = job.id] /\ UNCHANGED <<silo, nameOf>>
    BY <1>0, <1>5 DEF LockOwned, JobKnows, Entering, Register, AtJob, siloVars
  <2>2. job'.pc = "spawn"
    BY <1>0, <1>5 DEF ServerTypes, Register, Step
  <2>3. AtEntry(job.id) /\ \A j \in SiloIDs : ~AtEntry(j)'
    BY <2>1, <2>2 DEF AtEntry
  <2>4. R!Enter(job.id)
    BY <1>0, <2>1, <2>3, EnterSeen
  <2> QED
    BY <2>1, <2>4 DEF R!Next
<1>6. CASE Abandon
  <2>0. PICK id \in SiloIDs : id = job.id
    BY <1>0, <1>6 DEF LockOwned, Abandon, AtJob
  <2>1. /\ job.pc = "abandon" /\ job.id = id /\ job.name \in Names
        /\ silos[job.name] = None /\ nameOf[id] = job.name
        /\ job' = NoJob /\ UNCHANGED <<silos, nameOf>>
    BY <1>0, <1>6, <2>0 DEF LockOwned, JobKnows, Entering, Abandon, AtJob, Unlock
  <2>2. OtherSilos(id) /\ CloseKilled(id)
    BY <1>6, <2>1, CloseKills DEF Abandon
  <2>3. /\ AtEntry(id) /\ \A j \in SiloIDs : j # id => ~AtEntry(j)
        /\ \A j \in SiloIDs : ~AtEntry(j)'
    BY <2>1 DEF AtEntry, NoJob
  <2>4. CASE silo[id].child = "none"
    <3>1. \A j \in SiloIDs : SeenAlike(j)
      BY <2>1, <2>2, <2>3, <2>4 DEF SeenAlike, OtherSilos, CloseKilled
    <3> QED
      BY <2>1, <3>1, NothingSeen
  <2>5. CASE silo[id].child # "none"
    <3>1. ~Registered(id)' /\ \A j \in SiloIDs : Registered(j)' <=> Registered(j)
      BY <1>0, <2>1, MetadataAssumption, SMTT(20) DEF Registered, SilosKnown
    <3>2. silo'[id].child \notin {"none", "alive"}
      BY <2>2, <2>5 DEF CloseKilled
    <3>3. R!Leave(id)
      BY <2>1, <2>2, <2>3, <2>5, <3>1, <3>2, LeaveSeen
    <3> QED
      BY <2>1, <3>3 DEF R!Next
  <2> QED
    BY <2>4, <2>5
<1>7. CASE StopClose
  <2>0. PICK id \in SiloIDs : id = job.id
    BY <1>0, <1>7 DEF LockOwned, StopClose, AtJob
  <2>1. /\ job.pc = "close" /\ job.id = id /\ job.name \in Names
        /\ silos[job.name] = id /\ UNCHANGED nameOf
    BY <1>0, <1>7, <2>0 DEF LockOwned, JobKnows, Owning, StopClose, AtJob
  <2>2. silo[id].child # "none"
    BY <1>0, <2>1, MetadataAssumption DEF SilosKnown
  <2>3. PICK err \in DOMAIN CloseStep :
          /\ Close(id, err)
          /\ silos' = IF err = "none" THEN [silos EXCEPT ![job.name] = None] ELSE silos
          /\ StopReturns(err = "none")
    BY <1>7, <2>0 DEF StopClose
  <2>4. OtherSilos(id) /\ silo'[id].child \notin {"none", "alive"}
    BY <2>1, <2>2, <2>3, CloseKills DEF CloseKilled
  <2>5. \A j \in SiloIDs : ~AtEntry(j) /\ ~AtEntry(j)'
    <3>1. job' = NoJob \/ job' = [pc |-> "start", name |-> job.name, id |-> None]
      BY <2>3 DEF StopReturns, Unlock
    <3>2. job'.pc \in {"none", "start"}
      BY <3>1 DEF NoJob
    <3> QED
      BY <2>1, <3>2 DEF AtEntry
  <2>6. CASE err = "none"
    <3>1. silos' = [silos EXCEPT ![job.name] = None]
      BY <2>3, <2>6
    <3>2. Registered(id) /\ ~Registered(id)'
      BY <1>0, <2>1, <3>1, MetadataAssumption, SMTT(20) DEF Registered, SilosKnown, ServerTypes
    <3>3. \A j \in SiloIDs : j # id => (Registered(j)' <=> Registered(j))
      BY <1>0, <2>1, <3>1, MetadataAssumption DEF Registered, ServerTypes
    <3>4. R!Leave(id)
      BY <2>1, <2>2, <2>4, <2>5, <3>2, <3>3, LeaveSeen
    <3> QED
      BY <2>1, <3>4 DEF R!Next
  <2>7. CASE err # "none"
    <3>1. UNCHANGED silos
      BY <2>3, <2>7
    <3>2. \A j \in SiloIDs : j # id => SeenAlike(j)
      BY <2>1, <2>4, <2>5 DEF SeenAlike, OtherSilos
    <3>3. CASE silo[id].child = "alive"
      <4>1. R!End(id)
        BY <2>1, <2>4, <2>5, <3>1, <3>2, <3>3, EndSeen
      <4> QED
        BY <2>1, <4>1 DEF R!Next
    <3>4. CASE silo[id].child # "alive"
      <4>1. SeenAlike(id)
        BY <2>1, <2>2, <2>4, <2>5, <3>4 DEF SeenAlike
      <4> QED
        BY <3>1, <3>2, <4>1, NothingSeen
    <3> QED
      BY <3>3, <3>4
  <2> QED
    BY <2>6, <2>7
<1> QED
  BY <1>1, <1>2, <1>3, <1>4, <1>5, <1>6, <1>7 DEF JobStep

\* The server implements the registry: a name goes to one silo at a time, its
\* last owner having ended, and no silo comes back once it has left.
THEOREM ServerImplementsRegistry == Spec => ImplementsRegistry
<1>1. Init => R!Init
  <2> SUFFICES ASSUME Init PROVE R!Init
    OBVIOUS
  <2>1. \A id \in SiloIDs : silo[id].child = "none"
    BY DEF Init, SiloInit, NoStruct
  <2>2. \A id \in SiloIDs : ~Registered(id)
    BY MetadataAssumption DEF Init, Registered
  <2> QED
    BY <2>1, <2>2 DEF R!Init, Phase, Started
<1>2. SiloInv /\ ServerInv /\ [Next]_vars => [R!Next]_(R!vars)
  BY JobImplementsRegistry, OthersImplementRegistry
<1> QED
  BY <1>1, <1>2, ServerInvariant, PTL DEF Spec, ImplementsRegistry, R!Spec

\* What is shown of the pool holds under the server: apart from the slices that
\* are with some silo, registered or given up, IPInterface loses three addresses
\* at most, and none before the pool is exhausted for the first time.
LEMMA ServerPoolLoss == Spec => [](LossBounded /\ WholeSlicesUntilExhausted)
BY ServerUsesPoolProperly, LittleIsLost, SlicesStayWhole, PTL DEF SilosUsePoolProperly

\* If the process of a silo can always be started and teardown never fails, what
\* is astray is what IPInterface has lost.
LEMMA AstrayIsLost ==
  ASSUME UnregisteredReleased, lock = "free", Up
  PROVE  Astray = Lost
<1>1. \A id \in SiloIDs : ~Registered(id) => Range(held[id]) = {}
  BY DEF UnregisteredReleased, Range
<1>2. Loaned = UNION {Range(held[id]) : id \in {i \in SiloIDs : Registered(i)}}
  BY <1>1 DEF Loaned
<1> QED
  BY <1>2 DEF Astray, Lost

\* Under those conditions every address that was handed out is, between requests,
\* free or with a registered silo, until the pool is exhausted for the first time:
\* no way out of startSiloInternal or stopSiloInternal loses one.
THEOREM ServerAccountsForAddresses ==
  ASSUME MendedFaults
  PROVE  Spec => []AddressesAccountedFor
<1>1. UnregisteredReleased /\ WholeSlicesUntilExhausted => AddressesAccountedFor
  BY AstrayIsLost DEF AddressesAccountedFor, WholeSlicesUntilExhausted
<1> QED
  BY <1>1, ServerPoolLoss, MendedServerReleases, PTL

\* And ever after all but three are: over its whole life the server loses no more
\* than what the failure paths of IPInterface do at the end of the subnet.
THEOREM ServerLosesLittle ==
  ASSUME MendedFaults
  PROVE  Spec => [](lock = "free" /\ Up => Cardinality(Astray) <= 3)
<1>1. UnregisteredReleased /\ LossBounded => (lock = "free" /\ Up => Cardinality(Astray) <= 3)
  BY AstrayIsLost DEF LossBounded
<1> QED
  BY <1>1, ServerPoolLoss, MendedServerReleases, PTL

\* Under the server IPInterface refuses an interface only when every slice the
\* subnet has room for is on loan to a silo, whatever was given back before.
THEOREM ServerRefusesOnlyWhenFull == Spec => []RefusesOnlyWhenFull
BY ServerUsesPoolProperly, RefusedOnlyWhenFull, PTL DEF SilosUsePoolProperly

\* The bridge and the silo have addresses in one /30 for every pool that keeps
\* its blocks, over the whole life of the daemon.
THEOREM ServerSlicesAreBlocks == KeepsBlocks => (Spec => []SliceIsABlock)
<1>1. Spec => PoolSpec
  BY ServerUsesPoolProperly, PTL DEF SilosUsePoolProperly
<1> QED
  BY <1>1, SlicesAreBlocks, PTL
=============================================================================
