------------------------------- MODULE Server -------------------------------
(***************************************************************************)
(* The colexd server (colexd/serv.go) over the address pool, the silos and *)
(* the metadata service.  Its goroutines are                               *)
(*   - the request handlers, each under Server.lock from end to end;       *)
(*   - collectorRoutine, which takes the lock for each silo reported done; *)
(*   - waitNotifySilo, one per silo that was started;                      *)
(*   - Close, called by main on a signal.                                  *)
(* lock names the goroutine that holds Server.lock and job is the call it  *)
(* is in: startSiloInternal or stopSiloInternal, one step per call made.   *)
(***************************************************************************)
EXTENDS Metadata

CONSTANT
  Interrupts   \* the daemon may be told to shut down

ASSUME ServerAssumption == Interrupts \in BOOLEAN

VARIABLES
  lock,           \* holder of Server.lock: free, up, down, collector, close
  job,            \* the call in progress under the lock
  silos,          \* Server.silos: the ID registered under a name, or None
  nameOf,         \* Silo.Name
  waiter,         \* the waitNotifySilo goroutine of each silo
  collector,      \* collectorRoutine
  closer,         \* Server.Close
  serverClosing,  \* Server.closing
  doneClosed,     \* siloDoneNotify and done are closed
  status          \* the daemon process: up, panicked, exited

serverVars == <<lock, job, silos, nameOf, waiter, collector, closer,
                serverClosing, doneClosed, status>>
vars == <<siloVars, metaVars, serverVars>>

NoJob == [pc |-> "none", name |-> None, id |-> None]

Init ==
  /\ SiloInit
  /\ MetaInit
  /\ lock = "free"
  /\ job = NoJob
  /\ silos = [n \in Names |-> None]
  /\ nameOf = [id \in SiloIDs |-> None]
  /\ waiter = [id \in SiloIDs |-> "none"]
  /\ collector = [pc |-> "spawned", id |-> None]
  /\ closer = "none"
  /\ serverClosing = FALSE
  /\ doneClosed = FALSE
  /\ status = "up"

Up == status = "up"
Fresh == {id \in SiloIDs : silo[id] = NoStruct}
Step(pc) == job' = [job EXCEPT !.pc = pc]
Unlock == lock' = "free" /\ job' = NoJob

(***************************************************************************)
(* Requests.  A request that is refused before anything is done (decode    *)
(* errors, unknown silos) and a list request change nothing.               *)
(***************************************************************************)
ServeList == Up /\ lock = "free" /\ UNCHANGED vars

ServeDown(n) ==
  /\ Up /\ lock = "free"
  /\ silos[n] # None
  /\ lock' = "down"
  /\ job' = [pc |-> "stop", name |-> n, id |-> silos[n]]
  /\ UNCHANGED <<siloVars, metaVars, silos, nameOf, waiter, collector, closer,
                 serverClosing, doneClosed, status>>

\* the silo of that name is not stopped first
ServeUpKeepsOld(n) ==
  /\ Up /\ lock = "free"
  /\ pool.lastFromPool <= SubnetLast + MaxOverrun
  /\ lock' = "up"
  /\ job' = [pc |-> "start", name |-> n, id |-> None]
  /\ UNCHANGED <<siloVars, metaVars, silos, nameOf, waiter, collector, closer,
                 serverClosing, doneClosed, status>>

\* Bounded by the cursor values the model has left.
ServeUp(n) ==
  /\ Up /\ lock = "free"
  /\ pool.lastFromPool <= SubnetLast + MaxOverrun
  /\ lock' = "up"
  /\ job' = IF silos[n] # None
            THEN [pc |-> "stop", name |-> n, id |-> silos[n]]
            ELSE [pc |-> "start", name |-> n, id |-> None]
  /\ UNCHANGED <<siloVars, metaVars, silos, nameOf, waiter, collector, closer,
                 serverClosing, doneClosed, status>>

(***************************************************************************)
(* startSiloInternal.                                                      *)
(***************************************************************************)
AtJob(pc) == Up /\ job.pc = pc

\* limits too low, an unknown base or an unknown bind
StartRefused ==
  /\ AtJob("start")
  /\ Unlock
  /\ UNCHANGED <<siloVars, metaVars, silos, nameOf, waiter, collector, closer,
                 serverClosing, doneClosed, status>>

StartInterface ==
  /\ AtJob("start")
  /\ \/ /\ TakeInterfaceFails
        /\ Unlock
        /\ UNCHANGED nameOf
     \/ \E id \in Fresh :
          /\ TakeInterface(id)
          /\ nameOf' = [nameOf EXCEPT ![id] = job.name]
          /\ job' = [job EXCEPT !.pc = "new", !.id = id]
          /\ UNCHANGED lock
  /\ UNCHANGED <<metaVars, silos, waiter, collector, closer, serverClosing, doneClosed, status>>

StartNew ==
  /\ AtJob("new")
  /\ \/ \E req \in Requests : NewSilo(job.id, req) /\ Step("init")
     \/ "rand" \in Faults /\ Step("giveBack") /\ UNCHANGED siloVars
  /\ UNCHANGED <<metaVars, lock, silos, nameOf, waiter, collector, closer,
                 serverClosing, doneClosed, status>>

StartInit ==
  /\ AtJob("init")
  /\ \/ InitSilo(job.id) /\ Step("launch")
     \/ InitFails(job.id) /\ Step("closeUninitialised")
  /\ UNCHANGED <<metaVars, lock, silos, nameOf, waiter, collector, closer,
                 serverClosing, doneClosed, status>>

StartLaunch ==
  /\ AtJob("launch")
  /\ \/ Start(job.id) /\ Step("register")
     \/ StartFails(job.id) /\ Step("abandon")
  /\ UNCHANGED <<metaVars, lock, silos, nameOf, waiter, collector, closer,
                 serverClosing, doneClosed, status>>

\* silo.Close after Init failed; its error is logged only
CloseUninitialised ==
  /\ AtJob("closeUninitialised")
  /\ \E err \in DOMAIN CloseStep : Close(job.id, err)
  /\ Step("giveBack")
  /\ UNCHANGED <<metaVars, lock, silos, nameOf, waiter, collector, closer,
                 serverClosing, doneClosed, status>>

\* the slice is forgotten
GiveBackForgets ==
  /\ AtJob("giveBack")
  /\ Unlock
  /\ UNCHANGED <<siloVars, metaVars, silos, nameOf, waiter, collector, closer,
                 serverClosing, doneClosed, status>>

\* ipPool.FreeAssignment(network.Slice)
GiveBack ==
  /\ AtJob("giveBack")
  /\ GiveSliceBack(job.id)
  /\ Unlock
  /\ UNCHANGED <<metaVars, silos, nameOf, waiter, collector, closer,
                 serverClosing, doneClosed, status>>

\* as after a failed Init: the slice is returned here, instead of a Close
AbandonGivesBack ==
  /\ AtJob("abandon")
  /\ pool' = FreeAssignment(pool, silo[job.id].slice)
  /\ held' = [held EXCEPT ![job.id] = <<>>]
  /\ Unlock
  /\ UNCHANGED <<silo, host, metaVars, silos, nameOf, waiter, collector, closer,
                 serverClosing, doneClosed, status>>

\* as after a failed Init: the slice is returned here, after a Close
AbandonReturnsTwice ==
  /\ AtJob("abandon")
  /\ \E err \in DOMAIN CloseStep : Close(job.id, err)
  /\ Step("giveBack")
  /\ UNCHANGED <<metaVars, lock, silos, nameOf, waiter, collector, closer,
                 serverClosing, doneClosed, status>>

\* the silo is forgotten without a Close
AbandonWithoutClose ==
  /\ AtJob("abandon")
  /\ Unlock
  /\ UNCHANGED <<siloVars, metaVars, silos, nameOf, waiter, collector, closer,
                 serverClosing, doneClosed, status>>

\* silo.Close after Start failed; its error is logged only
Abandon ==
  /\ AtJob("abandon")
  /\ \E err \in DOMAIN CloseStep : Close(job.id, err)
  /\ Unlock
  /\ UNCHANGED <<metaVars, silos, nameOf, waiter, collector, closer,
                 serverClosing, doneClosed, status>>

Register ==
  /\ AtJob("register")
  /\ silos' = [silos EXCEPT ![job.name] = job.id]
  /\ HostEvent("started", job.name, job.id)
  /\ Step("spawn")
  /\ UNCHANGED <<siloVars, lock, nameOf, waiter, collector, closer,
                 serverClosing, doneClosed, status>>

\* HostEvent has returned: go waitNotifySilo(silo, s)
SpawnWaiter ==
  /\ AtJob("spawn") /\ event = NoEvent
  /\ waiter' = [waiter EXCEPT ![job.id] = "start"]
  /\ Unlock
  /\ UNCHANGED <<siloVars, metaVars, silos, nameOf, collector, closer,
                 serverClosing, doneClosed, status>>

(***************************************************************************)
(* stopSiloInternal, and what each of its callers does with the result.    *)
(***************************************************************************)
StopNotify ==
  /\ AtJob("stop")
  /\ HostEvent("stopped", job.name, job.id)
  /\ Step("close")
  /\ UNCHANGED <<siloVars, lock, silos, nameOf, waiter, collector, closer,
                 serverClosing, doneClosed, status>>

StopReturns(ok) ==
  /\ IF ok /\ lock = "up" THEN job' = [pc |-> "start", name |-> job.name, id |-> None] /\ UNCHANGED lock
     ELSE IF ok /\ lock = "close" THEN job' = NoJob /\ UNCHANGED lock
     ELSE Unlock
  /\ collector' = IF lock = "collector" THEN [pc |-> "recv", id |-> None] ELSE collector
  /\ closer' = IF lock = "close" /\ ~ok THEN "failed" ELSE closer
  /\ status' = IF lock = "close" /\ ~ok THEN "exited" ELSE status

StopClose ==
  /\ AtJob("close") /\ event = NoEvent
  /\ \E err \in DOMAIN CloseStep :
       /\ Close(job.id, err)
       /\ silos' = IF err = "none" THEN [silos EXCEPT ![job.name] = None] ELSE silos
       /\ StopReturns(err = "none")
  /\ UNCHANGED <<metaVars, nameOf, waiter, serverClosing, doneClosed>>

(***************************************************************************)
(* waitNotifySilo: Wait, look at Server.closing, send.  Wait returns at    *)
(* once when the silo is not Running any more.                             *)
(***************************************************************************)
SetWaiter(id, from, to) ==
  /\ Up /\ waiter[id] = from
  /\ waiter' = [waiter EXCEPT ![id] = to]
  /\ UNCHANGED <<metaVars, lock, job, silos, nameOf, collector, closer,
                 serverClosing, doneClosed, status>>

WaitEnter(id) ==
  /\ SetWaiter(id, "start", IF silo[id].State = "Running" THEN "wait" ELSE "returned")
  /\ UNCHANGED siloVars
WaitWakes(id) == SetWaiter(id, "wait", "reaping") /\ WaitDone(id)
WaitReaps(id) == SetWaiter(id, "reaping", "returned") /\ WaitReap(id)
WaitNotify(id) ==
  /\ SetWaiter(id, "returned", IF serverClosing THEN "over" ELSE "send")
  /\ UNCHANGED siloVars

\* a report that the collector is not ready for is dropped
SendOrDrop(id) ==
  /\ Up /\ waiter[id] = "send" /\ ~doneClosed
  /\ waiter' = [waiter EXCEPT ![id] = "over"]
  /\ collector' = IF collector.pc = "recv" THEN [pc |-> "got", id |-> id] ELSE collector
  /\ UNCHANGED <<siloVars, metaVars, lock, job, silos, nameOf, closer,
                 serverClosing, doneClosed, status>>

\* the send completes when the collector receives
Send(id) ==
  /\ Up /\ waiter[id] = "send" /\ ~doneClosed
  /\ collector.pc = "recv"
  /\ waiter' = [waiter EXCEPT ![id] = "over"]
  /\ collector' = [pc |-> "got", id |-> id]
  /\ UNCHANGED <<siloVars, metaVars, lock, job, silos, nameOf, closer,
                 serverClosing, doneClosed, status>>

\* a send on a closed channel, waiting since before the close or not
SendPanics(id) ==
  /\ Up /\ waiter[id] = "send" /\ doneClosed
  /\ status' = "panicked"
  /\ UNCHANGED <<siloVars, metaVars, lock, job, silos, nameOf, waiter, collector, closer,
                 serverClosing, doneClosed>>

WaiterStep(id) ==
  \/ WaitEnter(id) \/ WaitWakes(id) \/ WaitReaps(id) \/ WaitNotify(id)
  \/ Send(id) \/ SendPanics(id)

(***************************************************************************)
(* collectorRoutine.                                                       *)
(***************************************************************************)
CollectorRuns ==
  /\ Up /\ collector.pc = "spawned"
  /\ collector' = [collector EXCEPT !.pc = "recv"]
  /\ UNCHANGED <<siloVars, metaVars, lock, job, silos, nameOf, waiter, closer,
                 serverClosing, doneClosed, status>>

\* whoever has the name now is stopped
CollectAnyID ==
  LET n == nameOf[collector.id]
  IN  /\ Up /\ collector.pc = "got" /\ lock = "free"
      /\ IF silos[n] # None
         THEN /\ lock' = "collector"
              /\ job' = [pc |-> "stop", name |-> n, id |-> silos[n]]
              /\ collector' = [collector EXCEPT !.pc = "stopping"]
         ELSE /\ collector' = [pc |-> "recv", id |-> None]
              /\ UNCHANGED <<lock, job>>
      /\ UNCHANGED <<siloVars, metaVars, silos, nameOf, waiter, closer,
                     serverClosing, doneClosed, status>>

\* The silo is stopped if the name still belongs to the one that was reported.
Collect ==
  LET n == nameOf[collector.id]
  IN  /\ Up /\ collector.pc = "got" /\ lock = "free"
      /\ IF silos[n] = collector.id
         THEN /\ lock' = "collector"
              /\ job' = [pc |-> "stop", name |-> n, id |-> silos[n]]
              /\ collector' = [collector EXCEPT !.pc = "stopping"]
         ELSE /\ collector' = [pc |-> "recv", id |-> None]
              /\ UNCHANGED <<lock, job>>
      /\ UNCHANGED <<siloVars, metaVars, silos, nameOf, waiter, closer,
                     serverClosing, doneClosed, status>>

CollectorReturns ==
  /\ Up /\ collector.pc = "recv" /\ doneClosed
  /\ collector' = [pc |-> "exited", id |-> None]
  /\ UNCHANGED <<siloVars, metaVars, lock, job, silos, nameOf, waiter, closer,
                 serverClosing, doneClosed, status>>

(***************************************************************************)
(* Close, and the end of the process that follows its return.              *)
(***************************************************************************)
AtClose(from, to) == Up /\ closer = from /\ closer' = to

Interrupt ==
  /\ Interrupts
  /\ AtClose("none", "metaSignal")
  /\ MetaCloseFlag
  /\ UNCHANGED <<siloVars, lock, job, silos, nameOf, waiter, collector,
                 serverClosing, doneClosed, status>>

CloseMetaSignal ==
  /\ AtClose("metaSignal", "metaWait")
  /\ MetaCloseSignal
  /\ UNCHANGED <<siloVars, lock, job, silos, nameOf, waiter, collector,
                 serverClosing, doneClosed, status>>

CloseMetaWait ==
  /\ AtClose("metaWait", "flag")
  /\ MetaWaitOver
  /\ UNCHANGED <<siloVars, metaVars, lock, job, silos, nameOf, waiter, collector,
                 serverClosing, doneClosed, status>>

CloseFlag ==
  /\ AtClose("flag", "channels")
  /\ serverClosing' = TRUE
  /\ UNCHANGED <<siloVars, metaVars, lock, job, silos, nameOf, waiter, collector,
                 doneClosed, status>>

CloseChannels ==
  /\ AtClose("channels", "lock")
  /\ doneClosed' = TRUE
  /\ UNCHANGED <<siloVars, metaVars, lock, job, silos, nameOf, waiter, collector,
                 serverClosing, status>>

CloseLock ==
  /\ lock = "free"
  /\ AtClose("lock", "loop")
  /\ lock' = "close"
  /\ UNCHANGED <<siloVars, metaVars, job, silos, nameOf, waiter, collector,
                 serverClosing, doneClosed, status>>

CloseNext ==
  /\ Up /\ closer = "loop" /\ job = NoJob
  /\ \E n \in Names : /\ silos[n] # None
                     /\ job' = [pc |-> "stop", name |-> n, id |-> silos[n]]
  /\ UNCHANGED <<siloVars, metaVars, lock, silos, nameOf, waiter, collector, closer,
                 serverClosing, doneClosed, status>>

CloseUnlock ==
  /\ AtClose("loop", "wg") /\ job = NoJob
  /\ \A n \in Names : silos[n] = None
  /\ lock' = "free"
  /\ UNCHANGED <<siloVars, metaVars, job, silos, nameOf, waiter, collector,
                 serverClosing, doneClosed, status>>

\* the collector is in the wait group from its first line on
CloseWait ==
  /\ AtClose("wg", "serv")
  /\ collector.pc \in {"spawned", "exited"}
  /\ UNCHANGED <<siloVars, metaVars, lock, job, silos, nameOf, waiter, collector,
                 serverClosing, doneClosed, status>>

CloseServ ==
  /\ AtClose("serv", "returned")
  /\ status' = "exited"
  /\ UNCHANGED <<siloVars, metaVars, lock, job, silos, nameOf, waiter, collector,
                 serverClosing, doneClosed>>

(***************************************************************************)
(* The next-state relation.                                                *)
(***************************************************************************)
JobStep ==
  \/ StartRefused \/ StartInterface \/ StartNew \/ StartInit \/ StartLaunch
  \/ CloseUninitialised \/ GiveBack \/ Abandon \/ Register \/ SpawnWaiter
  \/ StopNotify \/ StopClose

MetaStep == Up /\ EventStep /\ UNCHANGED <<siloVars, serverVars>>
ListenStep(id) == Up /\ ListenerStep(id) /\ UNCHANGED <<siloVars, serverVars>>

CloserStep ==
  \/ CloseMetaSignal \/ CloseMetaWait \/ CloseFlag \/ CloseChannels
  \/ CloseNext \/ CloseUnlock \/ CloseWait \/ CloseServ

\* the children outlive the daemon
ChildExits(id) == Exit(id) /\ UNCHANGED <<metaVars, serverVars>>
ChildDies(id) == Die(id) /\ UNCHANGED <<metaVars, serverVars>>

Next ==
  \/ ServeList
  \/ \E n \in Names : ServeUp(n) \/ ServeDown(n)
  \/ JobStep
  \/ MetaStep
  \/ CollectorRuns \/ Collect \/ CollectorReturns
  \/ Interrupt \/ CloseLock \/ CloserStep
  \/ \E id \in SiloIDs :
       WaiterStep(id) \/ ListenStep(id) \/ ChildExits(id) \/ ChildDies(id)

Spec == Init /\ [][Next]_vars

\* Goroutines that can run do run.  A goroutine that waits for Server.lock, or
\* in a send, is not passed over for ever: sync.Mutex hands the lock to a waiter
\* that has starved and a channel serves its senders in order.  Nothing is
\* assumed of clients, of signals or of the programs inside silos.
Fairness ==
  /\ WF_vars(JobStep) /\ WF_vars(MetaStep) /\ WF_vars(CloserStep)
  /\ WF_vars(CollectorRuns) /\ WF_vars(CollectorReturns)
  /\ SF_vars(Collect) /\ SF_vars(CloseLock)
  /\ \A id \in SiloIDs : /\ WF_vars(WaiterStep(id)) /\ SF_vars(Send(id))
                        /\ WF_vars(ListenStep(id)) /\ WF_vars(ChildDies(id))

FairSpec == Spec /\ Fairness

(***************************************************************************)
(* Properties.                                                             *)
(***************************************************************************)

\* Types of the server's state.
TypeOK ==
  /\ SiloTypeOK /\ MetaTypeOK
  /\ lock \in {"free", "up", "down", "collector", "close"}
  /\ job \in [pc : {"none", "start", "new", "init", "launch", "closeUninitialised", "giveBack",
                    "abandon", "register", "spawn", "stop", "close"},
              name : Names \cup {None}, id : SiloIDs \cup {None}]
  /\ silos \in [Names -> SiloIDs \cup {None}]
  /\ nameOf \in [SiloIDs -> Names \cup {None}]
  /\ waiter \in [SiloIDs -> {"none", "start", "wait", "reaping", "returned", "send", "over"}]
  /\ collector \in [pc : {"spawned", "recv", "got", "stopping", "exited"},
                    id : SiloIDs \cup {None}]
  /\ closer \in {"none", "metaSignal", "metaWait", "flag", "channels", "lock", "loop", "wg",
                 "serv", "returned", "failed"}
  /\ serverClosing \in BOOLEAN /\ doneClosed \in BOOLEAN
  /\ status \in {"up", "panicked", "exited"}

Registered(id) == \E n \in Names : silos[n] = id

\* The life of a silo as a client of the server may understand it.
Started(id) == silo[id].child # "none"
Phase(id) ==
  IF Registered(id) THEN "listed"
  ELSE IF ~Started(id) THEN "new"
  ELSE IF job.id = id /\ job.pc \in {"register", "abandon"} THEN "started"
  ELSE "gone"

R == INSTANCE Registry
       WITH phase <- [id \in SiloIDs |-> Phase(id)],
            alive <- {id \in SiloIDs : silo[id].child = "alive"},
            name  <- [id \in SiloIDs |-> IF Started(id) THEN nameOf[id] ELSE None]

\* README: "Names are unique on each host, so if you `colex-cli up` again, the
\* existing silo will be stopped and replaced".  The server implements the
\* registry: a name is given to a silo only when its last owner is gone with
\* its process, and no silo comes back, whatever fails and whoever is first.
ImplementsRegistry == R!Spec

\* The process of a silo runs only while the server knows of it: it is in
\* Server.silos, or startSiloInternal is about to enter or to close it.  No
\* failure on the way up or down leaves a process nobody can stop.
LiveSilosAreRegistered ==
  \A id \in SiloIDs : silo[id].child = "alive" =>
    Registered(id) \/ (job.id = id /\ job.pc \in {"register", "abandon"})

\* README: "Names are unique on each host, so if you `colex-cli up` again, the
\* existing silo will be stopped and replaced": two silos of one name never run
\* at the same time, whichever handler, collector or failure comes between.
OneSiloPerName ==
  \A i, j \in SiloIDs :
    silo[i].child = "alive" /\ silo[j].child = "alive" /\ nameOf[i] = nameOf[j] => i = j

\* The collector stops a silo only after its process has ended: a report that
\* is late, because the silo was replaced by one of the same name meanwhile,
\* does not bring the new one down.
CollectorSparesLive ==
  lock = "collector" /\ job.pc \in {"stop", "close"} => silo[job.id].child # "alive"

\* Between requests the metadata service lists every silo that runs and none
\* that is not registered, and its two maps agree (HostEvent is called in the
\* order of the changes to Server.silos).
MetadataCurrent ==
  lock = "free" /\ ~isClosing /\ Up =>
    /\ \A n \in Names : silosByName[n] # None => silos[n] = silosByName[n]
    /\ \A n \in Names : silos[n] # None /\ silo[silos[n]].child = "alive"
                         => silosByName[n] = silos[n]
    /\ silosByID = {silosByName[n] : n \in Names} \ {None}

\* No fixed host names, or one for every question at an address of no silo.
HostMaps == {[q \in {} |-> -1], [q \in Questions |-> -1]}

\* A silo that asks the metadata service is taken for itself and for no other:
\* no entry of a silo that is gone has an address that was given away since.
\* Its own data, its own address and that of its own bridge are what it gets, and
\* its own statistics unless reading them fails.
CallerIsIdentified ==
  event = NoEvent /\ ~isClosing /\ Up =>
    \A id \in silosByID : silo[id].child = "alive" =>
      LET me == SiloIP(silo[id].slice)
          First(hosts, ask) == {Head(r) : r \in ServeDNS(hosts, me, [ask |-> ask, name |-> None])}
      IN  /\ ServeHTTP(me, "self", id, {}) = {Answer(200, {id})}
          /\ ServeHTTP(me, "stats", id, {}) = {Answer(200, {id}), Answer(500, {})}
          /\ \A hosts \in HostMaps : /\ First(hosts, "self") = {me}
                                     /\ First(hosts, "host") = {BridgeIP(silo[id].slice)}

\* A name leads to the silo that has it: an address that is served for
\* <name>.silo. and belongs to a silo that runs is one of a silo of that name,
\* and what a silo is told about is on the server, in the middle of any request.
NamesLeadHome ==
  event = NoEvent /\ ~isClosing /\ Up =>
    \A id \in SiloIDs : silo[id].child = "alive" =>
      LET me == SiloIP(silo[id].slice)
      IN  /\ \A n \in Names, hosts \in HostMaps :
               <<me>> \in ServeDNS(hosts, me, [ask |-> "silo", name |-> n]) => nameOf[id] = n
          /\ \A path \in {"list", "silo"}, ref \in SiloIDs :
               \A r \in ServeHTTP(me, path, ref, SiloIDs) : \A i \in r.about : Registered(i)

\* serv.go:571 "we tell the metadata service first so it has a chance to stop
\* listeners on the bridge interface": a bridge is taken down only after every
\* listener on it has closed, unless the metadata service is closing itself.
ListenersStopBeforeBridge ==
  ~isClosing => \A id \in SiloIDs : silo[id].isSetup /\ id \notin host.bridge =>
    \A l \in DOMAIN listeners[id] : listeners[id][l] = "closed"

\* stopSiloInternal is not held up by the metadata service while that is not
\* closing: the send on shouldShutdown is to a listener that will receive, and
\* the loop over Gosched is for one that was told, also in a second stop of a
\* silo whose first one failed.
StopMeetsListener ==
  ~isClosing =>
    /\ event.pc = "stopped" /\ MoreListeners =>
         listeners[event.id][event.l] \in {"spawned", "select"}
    /\ event.pc = "spin" =>
         /\ event.l \in DOMAIN listeners[event.id]
         /\ listeners[event.id][event.l] \in {"closing", "closed"}

\* As long as processes can be started and teardown does not fail, a silo that is
\* not registered has given back its addresses, its NAT rule and its root
\* directory, whatever failed on its way up, including one whose program ended
\* while it was being started.  Its bridge is gone if the setup of the interface
\* was completed; one that was left half made stays, and so may a control group.
UnregisteredReleased ==
  lock = "free" /\ Up =>
    \A id \in SiloIDs : ~Registered(id) =>
      /\ held[id] = <<>>
      /\ id \notin host.nat /\ id \notin host.root
      /\ silo[id].isSetup => id \notin host.bridge

\* Addresses the pool has handed out that are neither free nor with a silo on the
\* server, to which a down request could bring them back.
Astray ==
  (Issued \cap (SubnetFirst..(SubnetLast - 1)))
    \ (Free \cup UNION {Range(held[id]) : id \in {i \in SiloIDs : Registered(i)}})

\* As long as processes can be started and teardown does not fail, the server
\* loses no address before the pool is exhausted for the first time, whatever
\* fails on the way up: of FreeAssignment after Init, Close after a failed Start
\* and stopSiloInternal exactly one returns what IPInterface has handed out.
AddressesAccountedFor ==
  lock = "free" /\ Up /\ ~Exhausted => Astray = {}

\* serv.go:129 "Close shuts down the server, terminating and releasing all
\* resources": once Close has returned, no silo runs.
CloseTerminatesSilos ==
  closer = "returned" => \A id \in SiloIDs : silo[id].child # "alive"

\* Close itself leaves nothing behind: when its loop is over no silo runs,
\* neither one that was registered nor one on its way up or down meanwhile.
CloseLoopStopsAll ==
  [][closer = "loop" /\ closer' = "wg" => \A id \in SiloIDs : silo[id].child # "alive"]_vars

\* serv.go:129 "Close shuts down the server": shutting down does not crash it.
NoPanic == status # "panicked"

\* serv.go:129 "Close shuts down the server": a shutdown, once begun, ends.
ShutdownEnds == closer # "none" ~> status # "up"

\* A shutdown ends if no HostEvent call is under way when the metadata service
\* starts to close: none that comes later waits for a listener, and neither the
\* lock nor the collector can then hold Close up.
ShutdownEndsUnlessMidEvent == (isClosing /\ event = NoEvent) ~> status # "up"

\* The collector has been told of a silo and is not done with it.
Reported(id) == collector.id = id /\ collector.pc \in {"got", "stopping"}

\* As long as teardown does not fail, a silo that is registered has somebody who
\* will take it off when its program ends: waitNotifySilo is still to report it,
\* or is about to be spawned, or the collector has the report in its hands.  No
\* report is used up by a stop that fails because Wait is reaping the process.
RegisteredIsWatched ==
  \A id \in SiloIDs : Registered(id) =>
    \/ waiter[id] \in {"start", "wait", "reaping", "returned", "send"}
    \/ job.id = id /\ job.pc = "spawn"
    \/ Reported(id)
    \/ serverClosing

\* A silo whose program has ended is taken off the server in the end, also when
\* a stop in between failed because Wait was just reaping the process.
ExitedSiloCollected ==
  \A id \in SiloIDs :
    (Registered(id) /\ silo[id].child \in {"zombie", "done", "reaped"}) ~> ~Registered(id)
=============================================================================
