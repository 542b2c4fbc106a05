--------------------------- MODULE MetadataProofs ---------------------------
(***************************************************************************)
(* The metadata service under the server, for any number of names and      *)
(* silos and any failures: between two requests it lists the silos that    *)
(* run, a silo that asks is taken for itself, a name leads to the silo     *)
(* that has it, and a bridge outlives the listeners on it.                 *)
(*                                                                         *)
(* The inductive invariant says which call of the server a HostEvent call  *)
(* in progress belongs to (EventFits), what that call may rely on and what *)
(* it leaves behind (JobFits), that the two maps describe silos that are   *)
(* in Server.silos and not torn down (EntriesTrue), and which listeners    *)
(* are closed (ListenersFit).  It holds until the service is told to       *)
(* close: HostEvent then returns at once and the maps are left as they     *)
(* are.                                                                    *)
(***************************************************************************)
EXTENDS ServerProofs

MetaTypes ==
  /\ MetaTypeOK
  /\ event.pc = "idle" => event = NoEvent
  /\ event.pc # "idle" => event.name \in Names /\ event.id \in SiloIDs

EventFits ==
  /\ event.pc = "started" => job.pc = "spawn"
  /\ event.pc \in {"stopped", "spin"} => job.pc = "close"
  /\ event.pc # "idle" => event.name = job.name /\ event.id = job.id

JobFits ==
  /\ job.pc \in {"register", "spawn"} => silo[job.id].State = "Running" /\ job.id \in host.bridge
  /\ job.pc = "close" /\ event.pc = "idle" => silosByName[job.name] = None /\ job.id \notin silosByID

\* startSiloInternal has not told the service yet, stopSiloInternal may have
Untold(n) == job.name = n /\ (event.pc = "started" \/ job.pc = "close")

EntriesTrue ==
  /\ \A n \in Names : silosByName[n] # None => silos[n] = silosByName[n] /\ silosByName[n] \in silosByID
  /\ \A id \in silosByID : /\ nameOf[id] \in Names /\ silosByName[nameOf[id]] = id
                           /\ silo[id].State = "Running" /\ id \in host.bridge
  /\ \A n \in Names : silos[n] # None /\ silo[silos[n]].child = "alive" =>
       silosByName[n] = silos[n] \/ Untold(n)

ListenersFit ==
  /\ \A id \in SiloIDs \ silosByID : \A l \in DOMAIN listeners[id] : listeners[id][l] = "closed"
  /\ event.pc \in {"stopped", "spin"} /\ event.id \in silosByID =>
       \A l \in DOMAIN listeners[event.id] : l < event.l => listeners[event.id][l] = "closed"

MetaKnown == EventFits /\ JobFits /\ EntriesTrue /\ ListenersFit

\* The inductive invariant of the metadata service.
MetaInv == MetaTypes /\ (~isClosing => MetaKnown)

LEMMA MetaInvInit ==
  Init => MetaInv
<1> SUFFICES ASSUME Init PROVE MetaInv
  OBVIOUS
<1>1. MetaTypes
  <2>1. listeners \in [SiloIDs -> Seq({"spawned", "select", "closing", "closed"})]
    BY DEF Init, MetaInit
  <2> QED
    BY <2>1, Zenon DEF Init, MetaInit, MetaTypes, MetaTypeOK, NoEvent
<1>2. EventFits /\ JobFits
  BY DEF Init, MetaInit, EventFits, JobFits, NoEvent, NoJob
<1>3. EntriesTrue
  BY DEF Init, MetaInit, EntriesTrue
<1>4. ListenersFit
  BY DEF Init, MetaInit, ListenersFit, NoEvent
<1> QED
  BY <1>1, <1>2, <1>3, <1>4 DEF MetaInv, MetaKnown

-----------------------------------------------------------------------------
\* The types.

\* One element of a sequence changes.
LEMMA SeqUpdate ==
  ASSUME NEW T, NEW s \in Seq(T), NEW l, NEW x \in T
  PROVE  /\ [s EXCEPT ![l] = x] \in Seq(T)
         /\ DOMAIN [s EXCEPT ![l] = x] = DOMAIN s
         /\ \A m \in DOMAIN s : [s EXCEPT ![l] = x][m] = IF m = l THEN x ELSE s[m]
<1>1. Len(s) \in Nat /\ s \in [1..Len(s) -> T]
  OBVIOUS
<1>2. [s EXCEPT ![l] = x] \in [1..Len(s) -> T]
  BY <1>1, Zenon
<1>3. [s EXCEPT ![l] = x] \in Seq(T)
  BY <1>1, <1>2, SeqOfFunction
<1> QED
  BY <1>1, <1>3

\* One listener of one silo goes on.
ListenerStates == {"spawned", "select", "closing", "closed"}

LEMMA ListenersUpdate ==
  ASSUME MetaTypeOK, NEW id \in SiloIDs, NEW l, NEW x \in ListenerStates,
         listeners' = [listeners EXCEPT ![id][l] = x]
  PROVE  /\ listeners' \in [SiloIDs -> Seq(ListenerStates)]
         /\ \A j \in SiloIDs : DOMAIN listeners'[j] = DOMAIN listeners[j]
         /\ \A j \in SiloIDs : \A m \in DOMAIN listeners[j] :
              listeners'[j][m] = IF j = id /\ m = l THEN x ELSE listeners[j][m]
<1> DEFINE t == [listeners[id] EXCEPT ![l] = x]
<1>1. listeners \in [SiloIDs -> Seq(ListenerStates)] /\ listeners[id] \in Seq(ListenerStates)
  BY DEF MetaTypeOK, ListenerStates
<1>2. /\ t \in Seq(ListenerStates) /\ DOMAIN t = DOMAIN listeners[id]
      /\ \A m \in DOMAIN listeners[id] : t[m] = IF m = l THEN x ELSE listeners[id][m]
  BY <1>1, SeqUpdate, Zenon
<1>3. listeners' = [listeners EXCEPT ![id] = t]
  OBVIOUS
<1> HIDE DEF t
<1>4. listeners'[id] = t /\ \A j \in SiloIDs : j # id => listeners'[j] = listeners[j]
  BY <1>1, <1>3
<1>5. listeners' \in [SiloIDs -> Seq(ListenerStates)]
  BY <1>1, <1>2, <1>3, Zenon
<1> QED
  BY <1>2, <1>4, <1>5, Zenon

\* The only steps that touch the service's variables.
TouchesMeta ==
  \/ Register \/ StopNotify \/ MetaStep \/ Interrupt \/ CloseMetaSignal
  \/ \E id \in SiloIDs : ListenStep(id)

LEMMA OthersLeaveMeta ==
  ASSUME [Next]_vars, ~TouchesMeta
  PROVE  UNCHANGED metaVars
<1>1. CASE JobStep
  BY <1>1, Zenon DEF TouchesMeta, JobStep, StartRefused, StartInterface, StartNew, StartInit, StartLaunch,
              CloseUninitialised, GiveBack, Abandon, SpawnWaiter, StopClose
<1>2. CASE ServeList \/ UNCHANGED vars
  BY <1>2 DEF ServeList, vars
<1>3. CASE \/ \E n \in Names : ServeUp(n) \/ ServeDown(n)
           \/ CollectorRuns \/ Collect \/ CollectorReturns \/ CloseLock
  BY <1>3 DEF ServeUp, ServeDown, CollectorRuns, Collect, CollectorReturns, CloseLock
<1>4. CASE CloserStep
  BY <1>4 DEF TouchesMeta, CloserStep, CloseMetaWait, CloseFlag, CloseChannels, CloseNext,
              CloseUnlock, CloseWait, CloseServ
<1>5. ASSUME NEW id \in SiloIDs, WaiterStep(id) \/ ChildExits(id) \/ ChildDies(id)
      PROVE  UNCHANGED metaVars
  BY <1>5 DEF WaiterStep, WaitEnter, WaitWakes, WaitReaps, WaitNotify, Send, SendPanics,
              SetWaiter, ChildExits, ChildDies
<1> QED
  BY <1>1, <1>2, <1>3, <1>4, <1>5 DEF Next, TouchesMeta

LEMMA MetaTypesStep ==
  ASSUME ServerInv, MetaTypes, [Next]_vars
  PROVE  MetaTypes'
<1>0. LockOwned /\ ServerTypes
  BY DEF ServerInv
<1>1. CASE ~TouchesMeta
  BY <1>1, OthersLeaveMeta DEF metaVars, MetaTypes, MetaTypeOK
<1>2. CASE Interrupt \/ CloseMetaSignal
  BY <1>2, Zenon DEF Interrupt, CloseMetaSignal, MetaCloseFlag, MetaCloseSignal, MetaTypes, MetaTypeOK
<1>3. CASE Register \/ StopNotify
  <2>1. /\ job.name \in Names /\ job.id \in SiloIDs
        /\ \E kind \in {"started", "stopped"} : HostEvent(kind, job.name, job.id)
    BY <1>0, <1>3 DEF Register, StopNotify, AtJob, LockOwned
  <2>2. UNCHANGED <<isClosing, closing, silosByName, silosByID, listeners>>
    BY <2>1 DEF HostEvent
  <2>3. \/ event' = NoEvent
        \/ \E kind \in {"started", "stopped"} :
             event' = [pc |-> kind, name |-> job.name, id |-> job.id, l |-> 1]
    BY <2>1 DEF HostEvent
  <2> QED
    BY <2>1, <2>2, <2>3 DEF MetaTypes, MetaTypeOK, NoEvent
<1>4. CASE EventSiloStarted
  <2>1. /\ event.name \in Names /\ event.id \in SiloIDs /\ event' = NoEvent
        /\ silosByName' = [silosByName EXCEPT ![event.name] = event.id]
        /\ silosByID' = silosByID \cup {event.id} /\ UNCHANGED <<isClosing, closing>>
    BY <1>4 DEF EventSiloStarted, MetaTypes
  <2>2. PICK ls \in Listening : listeners' = [listeners EXCEPT ![event.id] = ls]
    BY <1>4, Zenon DEF EventSiloStarted
  <2>3. ls \in Seq(ListenerStates)
    <3>1. "spawned" \in ListenerStates
      BY DEF ListenerStates
    <3>2. ls = <<"spawned", "spawned">> \/ ls = <<"spawned">> \/ ls = <<>>
      BY DEF Listening
    <3>3. \A x \in ListenerStates : <<x, x>> \in Seq(ListenerStates) /\ <<x>> \in Seq(ListenerStates)
      OBVIOUS
    <3>4. <<>> \in Seq(ListenerStates)
      OBVIOUS
    <3> QED
      BY <3>1, <3>2, <3>3, <3>4, Zenon
  <2>4. listeners' \in [SiloIDs -> Seq(ListenerStates)]
    BY <2>2, <2>3, Zenon DEF MetaTypes, MetaTypeOK, ListenerStates
  <2> QED
    BY <2>1, <2>4 DEF MetaTypes, MetaTypeOK, NoEvent, ListenerStates
<1>5. CASE EventStopSignal
  <2>1. /\ event.pc = "stopped" /\ event.id \in SiloIDs /\ event.name \in Names
        /\ event' = [event EXCEPT !.pc = "spin"]
        /\ listeners' = [listeners EXCEPT ![event.id][event.l] = "closing"]
        /\ UNCHANGED <<isClosing, closing, silosByName, silosByID>>
    BY <1>5 DEF EventStopSignal, MetaTypes
  <2>2. listeners' \in [SiloIDs -> Seq(ListenerStates)]
    BY <2>1, ListenersUpdate, Zenon DEF MetaTypes, ListenerStates
  <2> QED
    BY <2>1, <2>2, Zenon DEF MetaTypes, MetaTypeOK, ListenerStates
<1>6. CASE EventStopSpin
  <2>1. /\ event.pc = "spin" /\ event' = [event EXCEPT !.pc = "stopped", !.l = @ + 1]
        /\ UNCHANGED <<isClosing, closing, silosByName, silosByID, listeners>>
    BY <1>6 DEF EventStopSpin
  <2>2. event.name \in Names /\ event.id \in SiloIDs /\ event.l \in Nat
    BY <2>1 DEF MetaTypes, MetaTypeOK
  <2>3. event' = [pc |-> "stopped", name |-> event.name, id |-> event.id, l |-> event.l + 1]
    BY <2>1, Zenon DEF MetaTypes, MetaTypeOK
  <2> QED
    BY <2>1, <2>2, <2>3 DEF MetaTypes, MetaTypeOK
<1>7. CASE EventStopDone
  BY <1>7 DEF EventStopDone, MetaTypes, MetaTypeOK, NoEvent
<1>8. ASSUME NEW id \in SiloIDs, ListenStep(id) PROVE MetaTypes'
  <2>1. PICK l \in DOMAIN listeners[id], x \in ListenerStates :
          /\ listeners' = [listeners EXCEPT ![id][l] = x]
          /\ UNCHANGED <<isClosing, closing, silosByName, silosByID, event>>
    BY <1>8 DEF ListenStep, ListenerStep, ListenerWaits, ListenerGlobal, ListenerCloses,
                SetListener, ListenerStates
  <2>2. listeners' \in [SiloIDs -> Seq(ListenerStates)]
    BY <2>1, ListenersUpdate, Zenon DEF MetaTypes
  <2> QED
    BY <2>1, <2>2 DEF MetaTypes, MetaTypeOK, ListenerStates
<1> QED
  BY <1>1, <1>2, <1>3, <1>4, <1>5, <1>6, <1>7, <1>8 DEF TouchesMeta, MetaStep, EventStep

-----------------------------------------------------------------------------
\* Steps that leave the variables of the service alone.

\* A silo on its way up has no entry.
LEMMA JobNotEntered ==
  ASSUME ServerInv, EntriesTrue, job.pc \in Launching \cup Entering
  PROVE  job.id \notin silosByID
<1>1. /\ job.id \in SiloIDs /\ job.name \in Names
      /\ silos[job.name] = None /\ nameOf[job.id] = job.name
  BY DEF ServerInv, LockOwned, JobKnows, Launching, Entering
<1> QED
  BY <1>1, MetadataAssumption DEF EntriesTrue

\* No HostEvent call is in progress but under the two calls that make one.
LEMMA EventIdle ==
  ASSUME MetaTypes, EventFits, job.pc \notin {"spawn", "close"}
  PROVE  event.pc = "idle" /\ event = NoEvent
BY DEF MetaTypes, MetaTypeOK, EventFits

LEMMA EntriesKept ==
  ASSUME ServerTypes, MetaTypes, EntriesTrue, UNCHANGED metaVars,
         \A id \in silosByID : /\ nameOf'[id] = nameOf[id] /\ silo'[id].State = silo[id].State
                               /\ id \in host.bridge => id \in host'.bridge,
         \A n \in Names : silosByName[n] # None => silos'[n] = silos[n],
         \A n \in Names : silos'[n] # None /\ silo'[silos'[n]].child = "alive" =>
           /\ silos[n] = silos'[n] /\ silo[silos[n]].child = "alive"
           /\ Untold(n) => Untold(n)'
  PROVE  EntriesTrue'
<1>0. UNCHANGED <<silosByName, silosByID, event>>
  BY DEF metaVars
<1>1. ASSUME NEW n \in Names, silosByName[n] # None
      PROVE  silos'[n] = silosByName[n] /\ silosByName[n] \in silosByID
  BY <1>1 DEF EntriesTrue
<1>2. ASSUME NEW id \in silosByID
      PROVE  /\ nameOf'[id] \in Names /\ silosByName[nameOf'[id]] = id
             /\ silo'[id].State = "Running" /\ id \in host'.bridge
  BY <1>2 DEF EntriesTrue
<1>3. ASSUME NEW n \in Names, silos'[n] # None, silo'[silos'[n]].child = "alive"
      PROVE  silosByName[n] = silos'[n] \/ Untold(n)'
  BY <1>3 DEF EntriesTrue
<1> QED
  BY <1>0, <1>1, <1>2, <1>3, Zenon DEF EntriesTrue

LEMMA ListenersKept ==
  ASSUME ListenersFit, UNCHANGED metaVars
  PROVE  ListenersFit'
BY DEF ListenersFit, metaVars

\* Everything the invariant speaks of stays as it is.
LEMMA NothingMeta ==
  ASSUME MetaKnown,
         \/ ServeList \/ UNCHANGED vars
         \/ CloseMetaWait \/ CloseFlag \/ CloseChannels \/ CloseLock \/ CloseUnlock
         \/ CloseWait \/ CloseServ \/ CollectorRuns \/ CollectorReturns
         \/ CloseMetaSignal
         \/ \E id \in SiloIDs : SendPanics(id) \/ WaitEnter(id) \/ WaitNotify(id) \/ Send(id)
  PROVE  MetaKnown'
<1>1. UNCHANGED <<silo, host, silos, nameOf, job, silosByName, silosByID, listeners, event>>
  BY Zenon DEF ServeList, vars, siloVars, metaVars, serverVars, CloseMetaWait, CloseFlag, CloseChannels,
         CloseLock, CloseUnlock, CloseWait, CloseServ, CollectorRuns, CollectorReturns,
         CloseMetaSignal, MetaCloseSignal, SendPanics, WaitEnter, WaitNotify, Send, SetWaiter
<1>2. EventFits' /\ JobFits'
  BY <1>1 DEF MetaKnown, EventFits, JobFits
<1>3. EntriesTrue'
  BY <1>1 DEF MetaKnown, EntriesTrue, Untold
<1>4. ListenersFit'
  BY <1>1 DEF MetaKnown, ListenersFit
<1> QED
  BY <1>2, <1>3, <1>4 DEF MetaKnown

\* A request, the collector or Close begins with a silo, or a request ends.
LEMMA MetaJobBegins ==
  ASSUME ServerInv, MetaTypes, MetaKnown, UNCHANGED metaVars,
         \/ StartRefused \/ Collect \/ CloseNext \/ \E n \in Names : ServeUp(n) \/ ServeDown(n)
  PROVE  MetaKnown'
<1>0. ServerTypes /\ LockOwned /\ EventFits /\ EntriesTrue /\ ListenersFit
  BY DEF ServerInv, MetaKnown
<1>1. UNCHANGED <<silo, host, silos, nameOf>> /\ job.pc \in {"none", "start"}
  BY <1>0 DEF StartRefused, AtJob, Collect, CloseNext, ServeUp, ServeDown, siloVars, NoJob, LockOwned
<1>2. job'.pc \in {"none", "start", "stop"}
  BY <1>1 DEF StartRefused, Unlock, NoJob, Collect, CloseNext, ServeUp, ServeDown
<1>3. event.pc = "idle" /\ UNCHANGED event
  BY <1>0, <1>1, EventIdle DEF metaVars
<1>4. EventFits' /\ JobFits'
  BY <1>2, <1>3 DEF EventFits, JobFits
<1>5. \A n \in Names : ~Untold(n)
  BY <1>1, <1>3 DEF Untold
<1>6. EntriesTrue'
  BY <1>0, <1>1, <1>5, EntriesKept
<1> QED
  BY <1>0, <1>4, <1>6, ListenersKept DEF MetaKnown

\* A process ends, or is reaped.
LEMMA MetaChild ==
  ASSUME SiloInv, ServerInv, MetaTypes, MetaKnown, UNCHANGED metaVars, NEW id \in SiloIDs,
         WaitWakes(id) \/ WaitReaps(id) \/ ChildExits(id) \/ ChildDies(id)
  PROVE  MetaKnown'
<1>0. ServerTypes /\ LockOwned /\ EventFits /\ JobFits /\ EntriesTrue /\ ListenersFit
  BY DEF ServerInv, MetaKnown
<1>1. UNCHANGED <<host, silos, nameOf, job, silosByName, silosByID, event>>
  BY DEF metaVars, WaitWakes, WaitReaps, ChildExits, ChildDies, SetWaiter, serverVars,
         WaitDone, WaitReap, Exit, Die, SetChild
<1>2. ProcessesGoOn
  <2>1. PICK b \in {"alive", "killed", "zombie", "done"}, c \in {"zombie", "done", "reaped"} :
          SetChild(id, b, c)
    BY DEF WaitWakes, WaitReaps, ChildExits, ChildDies, WaitDone, WaitReap, Exit, Die
  <2> QED
    BY <2>1, ChildEffect
<1>3. EventFits' /\ JobFits'
  <2>1. job.pc \in {"register", "spawn"} => job.id \in SiloIDs
    BY <1>0 DEF LockOwned
  <2> QED
    BY <1>0, <1>1, <1>2, <2>1 DEF EventFits, JobFits, ProcessesGoOn
<1>4. EntriesTrue'
  <2>1. silosByID \subseteq SiloIDs
    BY DEF MetaTypes, MetaTypeOK
  <2>2. \A n \in Names : silos[n] # None => silos[n] \in SiloIDs
    BY <1>0 DEF ServerTypes
  <2>3. \A n : Untold(n)' <=> Untold(n)
    BY <1>1 DEF Untold
  <2> QED
    BY <1>0, <1>1, <1>2, <2>1, <2>2, <2>3, EntriesKept, Zenon DEF ProcessesGoOn
<1> QED
  BY <1>0, <1>3, <1>4, ListenersKept DEF MetaKnown

\* A call that changes only a silo without an entry and not on the server.
LEMMA MetaUnlisted ==
  ASSUME ServerInv, MetaTypes, MetaKnown, UNCHANGED <<metaVars, silos>>, NEW id \in SiloIDs,
         id \notin silosByID, \A n \in Names : silos[n] # id,
         OtherSilos(id), OthersHost(id), \A j \in SiloIDs : j # id => nameOf'[j] = nameOf[j],
         event.pc = "idle", job.pc # "close", job'.pc \notin {"spawn", "close"},
         job'.pc = "register" => /\ job'.id = id
                                 /\ silo'[id].State = "Running" /\ id \in host'.bridge
  PROVE  MetaKnown'
<1>0. ServerTypes /\ EntriesTrue /\ ListenersFit
  BY DEF ServerInv, MetaKnown
<1>1. silosByID \subseteq SiloIDs /\ UNCHANGED <<silosByName, silosByID, event>>
  BY DEF MetaTypes, MetaTypeOK, metaVars
<1>2. EventFits' /\ JobFits'
  BY <1>1 DEF EventFits, JobFits
<1>3. EntriesTrue'
  <2>1. \A n \in Names : silos[n] # None => silos[n] \in SiloIDs
    BY <1>0 DEF ServerTypes
  <2>2. \A n : ~Untold(n)
    BY DEF Untold
  <2> QED
    BY <1>0, <1>1, <2>1, <2>2, EntriesKept DEF OtherSilos, OthersHost
<1> QED
  BY <1>0, <1>2, <1>3, ListenersKept DEF MetaKnown

-----------------------------------------------------------------------------
\* The calls of startSiloInternal and stopSiloInternal.

LEMMA MetaLaunching ==
  ASSUME SiloInv, ServerInv, MetaTypes, MetaKnown, UNCHANGED metaVars,
         \/ StartInterface \/ StartNew \/ StartInit \/ StartLaunch
         \/ CloseUninitialised \/ GiveBack \/ Abandon
  PROVE  MetaKnown'
<1>0. ServerTypes /\ LockOwned /\ JobKnows /\ SilosKnown /\ EventFits /\ EntriesTrue
  BY DEF ServerInv, MetaKnown
<1>1. UNCHANGED silos /\ job.pc \in {"start"} \cup Launching \cup Entering
  BY Zenon DEF StartInterface, StartNew, StartInit, StartLaunch, CloseUninitialised, GiveBack, Abandon,
         AtJob, Launching, Entering
<1>2. event.pc = "idle" /\ job.pc # "close"
  BY <1>0, <1>1, EventIdle DEF Launching, Entering
<1>3. job'.pc \notin {"spawn", "close"} /\ (job'.pc = "register" => StartLaunch)
  <2>1. CASE StartInterface
    <3>1. job' = NoJob \/ \E id \in Fresh : job' = [job EXCEPT !.pc = "new", !.id = id]
      BY <2>1, Zenon DEF StartInterface, Unlock
    <3>2. job' = NoJob => job'.pc = "none"
      BY DEF NoJob
    <3>3. (\E id \in Fresh : job' = [job EXCEPT !.pc = "new", !.id = id]) => job'.pc = "new"
      BY <1>0 DEF ServerTypes
    <3> QED
      BY <3>1, <3>2, <3>3, Zenon
  <2>2. CASE StartNew \/ StartInit \/ CloseUninitialised \/ GiveBack \/ Abandon
    <3>1. \/ job' = NoJob
          \/ \E p \in {"init", "giveBack", "launch", "closeUninitialised"} :
               job' = [job EXCEPT !.pc = p]
      BY <2>2 DEF StartNew, StartInit, CloseUninitialised, GiveBack, Abandon, Step, Unlock
    <3>2. job'.pc \in {"none", "init", "giveBack", "launch", "closeUninitialised"}
      BY <1>0, <3>1 DEF ServerTypes, NoJob
    <3> QED
      BY <3>2
  <2>3. CASE StartLaunch
    <3>1. \E p \in {"register", "abandon"} : job' = [job EXCEPT !.pc = p]
      BY <2>3 DEF StartLaunch, Step
    <3>2. job'.pc \in {"register", "abandon"}
      BY <1>0, <3>1 DEF ServerTypes
    <3> QED
      BY <2>3, <3>2
  <2> QED
    BY <2>1, <2>2, <2>3
<1>4. CASE StartInterface
  <2>1. CASE TakeInterfaceFails /\ UNCHANGED nameOf
    <3>1. UNCHANGED <<silo, host, silos, nameOf>>
      BY <1>1, <2>1 DEF TakeInterfaceFails
    <3>2. EventFits' /\ JobFits'
      BY <1>2, <1>3, <1>4, Zenon DEF EventFits, JobFits, metaVars, StartInterface, StartLaunch, AtJob
    <3>3. EntriesTrue'
      BY <1>0, <1>2, <3>1, EntriesKept, Zenon DEF Untold
    <3> QED
      BY <3>2, <3>3, ListenersKept DEF MetaKnown
  <2>2. ASSUME NEW id \in Fresh, TakeInterface(id), nameOf' = [nameOf EXCEPT ![id] = job.name]
        PROVE  MetaKnown'
    <3>1. id \in SiloIDs /\ silo[id].child = "none" /\ silo[id].State = "None"
      BY <2>2 DEF Fresh, NoStruct
    <3>2. id \notin silosByID /\ \A n \in Names : silos[n] # id
      BY <1>0, <3>1, MetadataAssumption, SMTT(20) DEF EntriesTrue, SilosKnown
    <3>3. OtherSilos(id) /\ OthersHost(id)
      BY <2>2, <3>1, TakeEffect, CreationHost
    <3>4. \A j \in SiloIDs : j # id => nameOf'[j] = nameOf[j]
      BY <1>0, <2>2 DEF ServerTypes
    <3>5. job'.pc # "register"
      BY <1>3, <1>4, Zenon DEF StartInterface, StartLaunch, AtJob
    <3> QED
      BY <1>1, <1>2, <1>3, <3>1, <3>2, <3>3, <3>4, <3>5, MetaUnlisted
  <2> QED
    BY <1>4, <2>1, <2>2, Zenon DEF StartInterface
<1>5. CASE ~StartInterface
  <2>0. PICK id \in SiloIDs : id = job.id
    BY <1>0, <1>5 DEF LockOwned, StartNew, StartInit, StartLaunch, CloseUninitialised, GiveBack,
                      Abandon, AtJob
  <2>1. job.pc \in Launching \cup Entering /\ UNCHANGED nameOf
    BY <1>5 DEF StartNew, StartInit, StartLaunch, CloseUninitialised, GiveBack, Abandon, AtJob,
                Launching, Entering
  <2>2. id \notin silosByID
    BY <1>0, <2>0, <2>1, JobNotEntered, Zenon
  <2>3. \A n \in Names : silos[n] # id
    <3>1. silos[job.name] = None /\ nameOf[id] = job.name
      BY <1>0, <2>0, <2>1 DEF JobKnows
    <3> QED
      BY <1>0, <3>1, MetadataAssumption DEF SilosKnown
  <2>4. OtherSilos(id) /\ OthersHost(id)
    <3>1. CASE StartNew
      <4>1. CASE UNCHANGED siloVars
        BY <4>1 DEF siloVars, OtherSilos, OthersHost
      <4>2. ASSUME NEW req \in Requests, NewSilo(id, req) PROVE OtherSilos(id) /\ OthersHost(id)
        BY <4>2, NewEffect, CreationHost, Zenon
      <4> QED
        BY <2>0, <3>1, <4>1, <4>2 DEF StartNew
    <3>2. CASE StartInit
      BY <2>0, <3>2, InitEffect, CreationHost, Zenon DEF StartInit
    <3>3. CASE StartLaunch
      BY <2>0, <3>3, StartEffect, StartHost, Zenon DEF StartLaunch
    <3>4. CASE CloseUninitialised \/ Abandon
      BY <2>0, <3>4, CloseKills, CloseHost DEF CloseUninitialised, Abandon
    <3>5. CASE GiveBack
      BY <2>0, <3>5, GiveBackReturns, ReturnEffect, CreationHost, Zenon
    <3> QED
      BY <1>5, <3>1, <3>2, <3>3, <3>4, <3>5
  <2>5. job'.pc = "register" => /\ job'.id = id
                                /\ silo'[id].State = "Running" /\ id \in host'.bridge
    <3> SUFFICES ASSUME job'.pc = "register"
                 PROVE  job'.id = id /\ silo'[id].State = "Running" /\ id \in host'.bridge
      OBVIOUS
    <3>1. StartLaunch
      BY <1>3
    <3>2. Start(id) /\ Step("register")
      BY <1>0, <2>0, <3>1 DEF StartLaunch, Step, ServerTypes
    <3>3. job'.id = id
      BY <1>0, <2>0, <3>2 DEF Step, ServerTypes
    <3> QED
      BY <3>2, <3>3, StartEffect, StartHost, Zenon
  <2> QED
    BY <1>1, <1>2, <1>3, <2>1, <2>2, <2>3, <2>4, <2>5, MetaUnlisted
<1> QED
  BY <1>4, <1>5

\* The service is told of a silo that has started.
LEMMA MetaRegister ==
  ASSUME ServerInv, MetaTypes, MetaKnown, Register, ~isClosing
  PROVE  MetaKnown'
<1>0. ServerTypes /\ LockOwned /\ JobKnows /\ EventFits /\ JobFits /\ EntriesTrue /\ ListenersFit
  BY DEF ServerInv, MetaKnown
<1>1. /\ job.pc = "register" /\ job.name \in Names /\ job.id \in SiloIDs
      /\ silos[job.name] = None
      /\ silos' = [silos EXCEPT ![job.name] = job.id]
      /\ job' = [job EXCEPT !.pc = "spawn"]
      /\ UNCHANGED <<silo, host, nameOf, silosByName, silosByID, listeners>>
      /\ event' = [pc |-> "started", name |-> job.name, id |-> job.id, l |-> 1]
  BY <1>0 DEF LockOwned, JobKnows, Entering, Register, AtJob, Step, HostEvent, siloVars
<1>2. job'.pc = "spawn" /\ job'.name = job.name /\ job'.id = job.id
  BY <1>0, <1>1 DEF ServerTypes
<1>3. event'.pc = "started" /\ event'.name = job.name /\ event'.id = job.id
  BY <1>1
<1>4. EventFits' /\ JobFits'
  BY <1>0, <1>1, <1>2, <1>3 DEF EventFits, JobFits
<1>5. \A n \in Names : n # job.name => silos'[n] = silos[n]
  BY <1>0, <1>1 DEF ServerTypes
<1>6. silosByName[job.name] = None
  BY <1>0, <1>1 DEF EntriesTrue
<1>7. event.pc = "idle" /\ Untold(job.name)' /\ \A n : ~Untold(n)
  BY <1>0, <1>1, <1>2, <1>3, EventIdle, Zenon DEF Untold
<1>8. EntriesTrue'
  BY <1>0, <1>1, <1>5, <1>6, <1>7 DEF EntriesTrue
<1>9. ListenersFit'
  BY <1>0, <1>1, <1>3 DEF ListenersFit
<1> QED
  BY <1>4, <1>8, <1>9 DEF MetaKnown

\* The silo stays as the service was told.
LEMMA MetaSpawn ==
  ASSUME ServerInv, MetaTypes, MetaKnown, SpawnWaiter
  PROVE  MetaKnown'
<1>0. ServerTypes /\ EventFits /\ EntriesTrue /\ ListenersFit
  BY DEF ServerInv, MetaKnown
<1>1. /\ job.pc = "spawn" /\ event = NoEvent /\ job' = NoJob
      /\ UNCHANGED <<silo, host, silos, nameOf, metaVars>>
  BY DEF SpawnWaiter, AtJob, Unlock, siloVars
<1>2. event.pc = "idle" /\ UNCHANGED event /\ job'.pc = "none"
  BY <1>1 DEF NoEvent, NoJob, metaVars
<1>3. EventFits' /\ JobFits'
  BY <1>2 DEF EventFits, JobFits
<1>4. EntriesTrue'
  BY <1>0, <1>1, <1>2, EntriesKept DEF Untold
<1> QED
  BY <1>0, <1>1, <1>3, <1>4, ListenersKept DEF MetaKnown

\* The service is told of a silo that is about to be stopped.
LEMMA MetaStopNotify ==
  ASSUME ServerInv, MetaTypes, MetaKnown, StopNotify, ~isClosing
  PROVE  MetaKnown'
<1>0. ServerTypes /\ LockOwned /\ EventFits /\ JobFits /\ EntriesTrue /\ ListenersFit
  BY DEF ServerInv, MetaKnown
<1>1. /\ job.pc = "stop" /\ job' = [job EXCEPT !.pc = "close"]
      /\ UNCHANGED <<silo, host, silos, nameOf, silosByName, silosByID, listeners>>
      /\ event' = [pc |-> "stopped", name |-> job.name, id |-> job.id, l |-> 1]
      /\ job.id \in SiloIDs
  BY <1>0 DEF LockOwned, StopNotify, AtJob, Step, HostEvent, siloVars
<1>2. job'.pc = "close" /\ job'.name = job.name /\ job'.id = job.id
  BY <1>0, <1>1 DEF ServerTypes
<1>3. event'.pc = "stopped" /\ event'.name = job.name /\ event'.id = job.id /\ event'.l = 1
  BY <1>1
<1>4. EventFits' /\ JobFits'
  BY <1>2, <1>3 DEF EventFits, JobFits
<1>5. \A n : ~Untold(n)
  BY <1>0, <1>1, EventIdle DEF Untold
<1>6. EntriesTrue'
  BY <1>0, <1>1, <1>5 DEF EntriesTrue
<1>7. ListenersFit'
  <2>1. listeners[job.id] \in Seq(ListenerStates)
    BY <1>1 DEF MetaTypes, MetaTypeOK, ListenerStates
  <2>2. \A l \in DOMAIN listeners[job.id] : ~(l < 1)
    BY <2>1
  <2> QED
    BY <1>0, <1>1, <1>3, <2>2 DEF ListenersFit
<1> QED
  BY <1>4, <1>6, <1>7 DEF MetaKnown

\* The silo is closed after its entries are gone.
LEMMA MetaStopClose ==
  ASSUME SiloInv, ServerInv, MetaTypes, MetaKnown, StopClose
  PROVE  MetaKnown'
<1>0. ServerTypes /\ LockOwned /\ JobKnows /\ SilosKnown /\ JobFits /\ EntriesTrue /\ ListenersFit
  BY Zenon DEF ServerInv, MetaKnown
<1>1. /\ job.pc = "close" /\ event = NoEvent /\ job.name \in Names
      /\ silos[job.name] = job.id /\ UNCHANGED <<nameOf, metaVars>>
  BY <1>0 DEF StopClose, AtJob, LockOwned, JobKnows, Owning
<1>2. PICK id \in SiloIDs : id = job.id
  BY <1>0, Zenon DEF StopClose, AtJob, LockOwned
<1>3. event.pc = "idle" /\ UNCHANGED <<event, silosByName, silosByID>>
  BY <1>1, Zenon DEF NoEvent, metaVars
<1>4. silosByName[job.name] = None /\ id \notin silosByID
  BY <1>0, <1>1, <1>2, <1>3 DEF JobFits
<1>5. PICK err \in DOMAIN CloseStep :
        /\ Close(id, err)
        /\ silos' = IF err = "none" THEN [silos EXCEPT ![job.name] = None] ELSE silos
        /\ StopReturns(err = "none")
  BY <1>2, Zenon DEF StopClose
<1>6. OtherSilos(id) /\ OthersHost(id) /\ silo'[id].child # "alive"
  BY <1>5, CloseKills, CloseHost, Zenon DEF CloseKilled
<1>7. job'.pc \in {"none", "start"}
  <2>1. job' = NoJob \/ job' = [pc |-> "start", name |-> job.name, id |-> None]
    BY <1>5 DEF StopReturns, Unlock
  <2> QED
    BY <2>1 DEF NoJob
<1>8. EventFits' /\ JobFits'
  BY <1>3, <1>7, Zenon DEF EventFits, JobFits
<1>9. EntriesTrue'
  <2>1. \A n \in Names : silos'[n] = silos[n] \/ (n = job.name /\ silos'[n] = None)
    BY <1>0, <1>5 DEF ServerTypes
  <2>2. \A n \in Names : silos[n] = id => n = job.name
    <3>1. \A n \in Names : silos[n] # None => nameOf[silos[n]] = n
      BY <1>0 DEF SilosKnown
    <3>2. id # None
      BY MetadataAssumption
    <3>3. \A n \in Names : silos[n] = id => nameOf[id] = n
      BY <3>1, <3>2, Zenon
    <3> QED
      BY <1>1, <1>2, <3>3
  <2>3. \A n \in Names : silos[n] # None => silos[n] \in SiloIDs
    BY <1>0 DEF ServerTypes
  <2>4. silosByID \subseteq SiloIDs
    BY DEF MetaTypes, MetaTypeOK
  <2>5. \A n \in Names : silos'[n] # None /\ silo'[silos'[n]].child = "alive" =>
          /\ silos[n] = silos'[n] /\ silo[silos[n]].child = "alive" /\ n # job.name
    BY <1>1, <1>2, <1>6, <2>1, <2>3 DEF OtherSilos
  <2>6. \A n : n # job.name => ~Untold(n)
    BY DEF Untold
  <2>7. \A j \in silosByID : nameOf'[j] = nameOf[j] /\ silo'[j].State = silo[j].State
                             /\ (j \in host.bridge => j \in host'.bridge)
    BY <1>1, <1>4, <1>6, <2>4 DEF OtherSilos, OthersHost
  <2>8. \A n \in Names : silosByName[n] # None => silos'[n] = silos[n]
    BY <1>4, <2>1
  <2> QED
    BY <1>0, <1>1, <2>5, <2>6, <2>7, <2>8, EntriesKept, Zenon
<1> QED
  BY <1>0, <1>1, <1>8, <1>9, ListenersKept DEF MetaKnown

-----------------------------------------------------------------------------
\* The steps of HostEvent and of the listeners.

LEMMA MetaStarted ==
  ASSUME ServerInv, MetaTypes, MetaKnown, EventSiloStarted, UNCHANGED <<siloVars, serverVars>>
  PROVE  MetaKnown'
<1>0. ServerTypes /\ LockOwned /\ JobKnows /\ SilosKnown /\ EventFits /\ JobFits /\ EntriesTrue
      /\ ListenersFit
  BY DEF ServerInv, MetaKnown
<1>1. UNCHANGED <<silo, host, silos, nameOf, job>>
  BY DEF siloVars, serverVars
<1>2. /\ event.pc = "started" /\ job.pc = "spawn" /\ event.name = job.name /\ event.id = job.id
      /\ silosByName' = [silosByName EXCEPT ![job.name] = job.id]
      /\ silosByID' = silosByID \cup {job.id} /\ event' = NoEvent
  BY <1>0, Zenon DEF EventSiloStarted, EventFits
<1>3. /\ job.name \in Names /\ job.id \in SiloIDs /\ silos[job.name] = job.id
      /\ silo[job.id].State = "Running" /\ job.id \in host.bridge
  BY <1>0, <1>2, Zenon DEF LockOwned, JobKnows, Owning, JobFits
<1>4. nameOf[job.id] = job.name
  BY <1>0, <1>3, MetadataAssumption, SMTT(20) DEF SilosKnown
<1>5. event'.pc = "idle"
  BY <1>2 DEF NoEvent
<1>6. EventFits' /\ JobFits'
  BY <1>0, <1>1, <1>2, <1>5, Zenon DEF EventFits, JobFits
<1>7. /\ silosByName'[job.name] = job.id
      /\ \A n \in Names : n # job.name => silosByName'[n] = silosByName[n]
  BY <1>2, <1>3 DEF MetaTypes, MetaTypeOK
<1>8. EntriesTrue'
  <2>1. ASSUME NEW n \in Names, silosByName'[n] # None
        PROVE  silos[n] = silosByName'[n] /\ silosByName'[n] \in silosByID'
    BY <1>0, <1>2, <1>3, <1>7, <2>1, SMTT(20) DEF EntriesTrue
  <2>2. ASSUME NEW id \in silosByID'
        PROVE  /\ nameOf[id] \in Names /\ silosByName'[nameOf[id]] = id
               /\ silo[id].State = "Running" /\ id \in host.bridge
    <3>1. CASE id = job.id
      BY <1>3, <1>4, <1>7, <3>1, Zenon
    <3>2. CASE id # job.id
      <4>1. id \in silosByID
        BY <1>2, <2>2, <3>2, Zenon
      <4>2. /\ nameOf[id] \in Names /\ silosByName[nameOf[id]] = id
            /\ silo[id].State = "Running" /\ id \in host.bridge
        BY <1>0, <4>1 DEF EntriesTrue
      <4>3. id \in SiloIDs
        BY <4>1 DEF MetaTypes, MetaTypeOK
      <4>4. silos[nameOf[id]] = id
        BY <1>0, <4>2, <4>3, MetadataAssumption, Zenon DEF EntriesTrue
      <4> QED
        BY <1>3, <1>7, <3>2, <4>2, <4>4, Zenon
    <3> QED
      BY <3>1, <3>2
  <2>3. ASSUME NEW n \in Names, silos[n] # None, silo[silos[n]].child = "alive"
        PROVE  silosByName'[n] = silos[n]
    <3>1. n # job.name => ~Untold(n)
      BY DEF Untold
    <3> QED
      BY <1>0, <1>3, <1>7, <2>3, <3>1 DEF EntriesTrue
  <2> QED
    BY <1>1, <2>1, <2>2, <2>3, Zenon DEF EntriesTrue
<1>9. ListenersFit'
  <2>1. \A id \in SiloIDs : id # job.id => listeners'[id] = listeners[id]
    BY <1>2 DEF EventSiloStarted, MetaTypes, MetaTypeOK
  <2> QED
    BY <1>0, <1>2, <1>5, <2>1 DEF ListenersFit
<1> QED
  BY <1>6, <1>8, <1>9 DEF MetaKnown

\* One listener after the other is told to close and waited for.
LEMMA MetaStopping ==
  ASSUME ServerInv, MetaTypes, MetaKnown, EventStopSignal \/ EventStopSpin,
         UNCHANGED <<siloVars, serverVars>>
  PROVE  MetaKnown'
<1>0. EventFits /\ JobFits /\ EntriesTrue /\ ListenersFit
  BY DEF MetaKnown
<1>1. UNCHANGED <<silo, host, silos, nameOf, job, silosByName, silosByID>>
  BY DEF siloVars, serverVars, EventStopSignal, EventStopSpin
<1>2. /\ event.pc \in {"stopped", "spin"} /\ event.id \in SiloIDs
      /\ event'.pc \in {"stopped", "spin"} /\ event'.name = event.name /\ event'.id = event.id
  BY Zenon DEF EventStopSignal, EventStopSpin, MetaTypes, MetaTypeOK
<1>3. EventFits' /\ JobFits'
  BY <1>0, <1>1, <1>2, Zenon DEF EventFits, JobFits
<1>4. EntriesTrue'
  <2>1. \A n : Untold(n)' <=> Untold(n)
    BY <1>1, <1>2, Zenon DEF Untold
  <2> QED
    BY <1>0, <1>1, <2>1, Zenon DEF EntriesTrue
<1>5. CASE EventStopSignal
  <2>1. /\ listeners' = [listeners EXCEPT ![event.id][event.l] = "closing"]
        /\ event.id \in silosByID /\ event.pc = "stopped"
    BY <1>5 DEF EventStopSignal, MoreListeners
  <2>2. event'.l = event.l /\ event.l \in Nat
    BY <1>5 DEF EventStopSignal, MetaTypes, MetaTypeOK
  <2>3. /\ \A j \in SiloIDs : DOMAIN listeners'[j] = DOMAIN listeners[j]
        /\ \A j \in SiloIDs : \A m \in DOMAIN listeners[j] :
             listeners'[j][m] = IF j = event.id /\ m = event.l THEN "closing" ELSE listeners[j][m]
    BY <1>2, <2>1, ListenersUpdate, Zenon DEF MetaTypes, ListenerStates
  <2>4. \A m : m < event.l => m # event.l
    BY <2>2
  <2> QED
    BY <1>0, <1>1, <1>2, <1>3, <1>4, <2>1, <2>2, <2>3, <2>4, SMTT(20) DEF MetaKnown, ListenersFit
<1>6. CASE EventStopSpin
  <2>1. /\ UNCHANGED listeners /\ event.pc = "spin" /\ event'.l = event.l + 1 /\ event.l \in Nat
        /\ listeners[event.id][event.l] = "closed"
    BY <1>6 DEF EventStopSpin, MetaTypes, MetaTypeOK
  <2>2. DOMAIN listeners[event.id] \subseteq Nat
    <3>1. listeners[event.id] \in Seq(ListenerStates)
      BY <1>2 DEF MetaTypes, MetaTypeOK, ListenerStates
    <3> QED
      BY <3>1
  <2>3. \A m \in DOMAIN listeners[event.id] : m < event.l + 1 => m < event.l \/ m = event.l
    BY <2>1, <2>2
  <2>4. ListenersFit'
    BY <1>0, <1>1, <1>2, <2>1, <2>3 DEF ListenersFit
  <2> QED
    BY <1>3, <1>4, <2>4 DEF MetaKnown
<1> QED
  BY <1>5, <1>6

\* The entries of the silo go when its listeners have closed.
LEMMA MetaStopDone ==
  ASSUME ServerInv, MetaTypes, MetaKnown, EventStopDone, UNCHANGED <<siloVars, serverVars>>
  PROVE  MetaKnown'
<1>0. ServerTypes /\ LockOwned /\ JobKnows /\ SilosKnown /\ EventFits /\ JobFits /\ EntriesTrue
      /\ ListenersFit
  BY DEF ServerInv, MetaKnown
<1>1. UNCHANGED <<silo, host, silos, nameOf, job, listeners>>
  BY DEF siloVars, serverVars, EventStopDone
<1>2. /\ event.pc = "stopped" /\ job.pc = "close" /\ event.name = job.name /\ event.id = job.id
      /\ silosByName' = [silosByName EXCEPT ![job.name] = None]
      /\ silosByID' = silosByID \ {job.id} /\ event' = NoEvent /\ ~MoreListeners
  BY <1>0, Zenon DEF EventStopDone, EventFits
<1>3. job.name \in Names /\ job.id \in SiloIDs /\ silos[job.name] = job.id
  BY <1>0, <1>2, Zenon DEF LockOwned, JobKnows, Owning
<1>4. event'.pc = "idle"
  BY <1>2, Zenon DEF NoEvent
<1>5. /\ silosByName'[job.name] = None
      /\ \A n \in Names : n # job.name => silosByName'[n] = silosByName[n]
  BY <1>2, <1>3 DEF MetaTypes, MetaTypeOK
<1>6. EventFits' /\ JobFits'
  BY <1>0, <1>1, <1>2, <1>4, <1>5, Zenon DEF EventFits, JobFits
<1>7. \A n \in Names : silos[n] = job.id => n = job.name
  BY <1>0, <1>3, MetadataAssumption DEF SilosKnown
<1>8. EntriesTrue'
  <2>1. ASSUME NEW n \in Names, silosByName'[n] # None
        PROVE  silos[n] = silosByName'[n] /\ silosByName'[n] \in silosByID'
    BY <1>0, <1>2, <1>5, <1>7, <2>1, SMTT(20) DEF EntriesTrue
  <2>2. ASSUME NEW id \in silosByID'
        PROVE  /\ nameOf[id] \in Names /\ silosByName'[nameOf[id]] = id
               /\ silo[id].State = "Running" /\ id \in host.bridge
    <3>1. id \in silosByID /\ id # job.id /\ id \in SiloIDs
      BY <1>2, <2>2, Zenon DEF MetaTypes, MetaTypeOK
    <3>2. /\ nameOf[id] \in Names /\ silosByName[nameOf[id]] = id
          /\ silo[id].State = "Running" /\ id \in host.bridge
      BY <1>0, <3>1, Zenon DEF EntriesTrue
    <3>3. silos[nameOf[id]] = id
      BY <1>0, <3>1, <3>2, MetadataAssumption, SMTT(20) DEF EntriesTrue
    <3> QED
      BY <1>3, <1>5, <3>1, <3>2, <3>3, Zenon
  <2>3. ASSUME NEW n \in Names, silos[n] # None, silo[silos[n]].child = "alive"
        PROVE  silosByName'[n] = silos[n] \/ Untold(n)'
    <3>1. (n = job.name => Untold(n)') /\ (n # job.name => ~Untold(n))
      BY <1>1, <1>2, Zenon DEF Untold
    <3> QED
      BY <1>0, <1>5, <2>3, <3>1, Zenon DEF EntriesTrue
  <2> QED
    BY <1>1, <2>1, <2>2, <2>3, Zenon DEF EntriesTrue
<1>9. ListenersFit'
  <2>1. \A l \in DOMAIN listeners[job.id] : listeners[job.id][l] = "closed"
    <3>1. CASE job.id \notin silosByID
      BY <1>0, <1>3, <3>1, Zenon DEF ListenersFit
    <3>2. CASE job.id \in silosByID
      <4>1. listeners[job.id] \in Seq(ListenerStates) /\ event.l \in Nat
        BY <1>3 DEF MetaTypes, MetaTypeOK, ListenerStates
      <4>2. ~(event.l <= Len(listeners[job.id]))
        BY <1>2, <3>2 DEF MoreListeners
      <4>3. \A l \in DOMAIN listeners[job.id] : l < event.l
        BY <4>1, <4>2
      <4> QED
        BY <1>0, <1>2, <3>2, <4>3, Zenon DEF ListenersFit
    <3> QED
      BY <3>1, <3>2, Zenon
  <2> QED
    BY <1>0, <1>1, <1>2, <1>4, <2>1, SMTT(20) DEF ListenersFit
<1> QED
  BY <1>6, <1>8, <1>9 DEF MetaKnown

\* A listener goes on; one that has closed does not.
LEMMA MetaListener ==
  ASSUME MetaTypes, MetaKnown, NEW id \in SiloIDs, ListenStep(id)
  PROVE  MetaKnown'
<1>0. EventFits /\ JobFits /\ EntriesTrue /\ ListenersFit
  BY DEF MetaKnown
<1>1. UNCHANGED <<silo, host, silos, nameOf, job>>
  BY DEF ListenStep, siloVars, serverVars
<1>2. PICK l \in DOMAIN listeners[id], x \in ListenerStates :
        /\ listeners' = [listeners EXCEPT ![id][l] = x]
        /\ listeners[id][l] # "closed"
        /\ UNCHANGED <<silosByName, silosByID, event>>
  BY DEF ListenStep, ListenerStep, ListenerWaits, ListenerGlobal, ListenerCloses,
         SetListener, ListenerStates
<1>3. /\ \A j \in SiloIDs : DOMAIN listeners'[j] = DOMAIN listeners[j]
      /\ \A j \in SiloIDs : \A m \in DOMAIN listeners[j] :
           listeners'[j][m] = IF j = id /\ m = l THEN x ELSE listeners[j][m]
  BY <1>2, ListenersUpdate, Zenon DEF MetaTypes
<1>4. EventFits' /\ JobFits' /\ EntriesTrue'
  BY <1>0, <1>1, <1>2, Zenon DEF EventFits, JobFits, EntriesTrue, Untold
<1>5. event.pc # "idle" => event.id \in SiloIDs
  BY DEF MetaTypes
<1>6. ListenersFit'
  BY <1>0, <1>2, <1>3, <1>5, SMTT(20) DEF ListenersFit
<1> QED
  BY <1>4, <1>6 DEF MetaKnown

-----------------------------------------------------------------------------
\* The invariant is inductive.

LEMMA MetaInvStep ==
  ASSUME SiloInv, ServerInv, MetaInv, [Next]_vars
  PROVE  MetaInv'
<1>1. MetaTypes /\ MetaTypes'
  BY MetaTypesStep DEF MetaInv
<1>2. ASSUME ~isClosing' PROVE MetaKnown'
  <2>0. ~isClosing /\ MetaKnown
    <3>1. CASE TouchesMeta
      <4>1. CASE Register \/ StopNotify
        BY <1>2, <4>1 DEF Register, StopNotify, HostEvent, MetaInv
      <4>2. CASE MetaStep
        BY <1>2, <4>2 DEF MetaStep, EventStep, EventSiloStarted, EventStopSignal, EventStopSpin,
             EventStopDone, MetaInv
      <4>3. CASE Interrupt \/ CloseMetaSignal
        BY <1>2, <4>3 DEF Interrupt, MetaCloseFlag, CloseMetaSignal, MetaCloseSignal, MetaInv
      <4>4. CASE \E id \in SiloIDs : ListenStep(id)
        BY <1>2, <4>4 DEF ListenStep, ListenerStep, ListenerWaits, ListenerGlobal, ListenerCloses,
             SetListener, MetaInv
      <4> QED
        BY <3>1, <4>1, <4>2, <4>3, <4>4, Zenon DEF TouchesMeta
    <3>2. CASE ~TouchesMeta
      BY <1>2, <3>2, OthersLeaveMeta DEF metaVars, MetaInv
    <3> QED
      BY <3>1, <3>2
  <2>1. CASE MetaStep
    BY <1>1, <2>0, <2>1, MetaStarted, MetaStopping, MetaStopDone DEF MetaStep, EventStep
  <2>2. ASSUME NEW id \in SiloIDs, ListenStep(id) PROVE MetaKnown'
    BY <1>1, <2>0, <2>2, MetaListener
  <2>3. CASE Register \/ StopNotify
    BY <1>1, <2>0, <2>3, MetaRegister, MetaStopNotify, Zenon
  <2>4. CASE Interrupt
    BY <1>2, <2>4 DEF Interrupt, MetaCloseFlag
  <2>5. CASE CloseMetaSignal
    BY <2>0, <2>5, NothingMeta, Zenon
  <2>6. CASE ~TouchesMeta
    <3>0. UNCHANGED metaVars
      BY <2>6, OthersLeaveMeta
    <3>1. CASE JobStep
      BY <1>1, <2>0, <2>6, <3>0, <3>1, MetaJobBegins, MetaLaunching, MetaSpawn, MetaStopClose
         DEF JobStep, TouchesMeta
    <3>2. CASE Collect \/ CloseNext \/ \E n \in Names : ServeUp(n) \/ ServeDown(n)
      BY <1>1, <2>0, <3>0, <3>2, MetaJobBegins, Zenon
    <3>3. ASSUME NEW id \in SiloIDs, WaitWakes(id) \/ WaitReaps(id) \/ ChildExits(id) \/ ChildDies(id)
          PROVE  MetaKnown'
      BY <1>1, <2>0, <3>0, <3>3, MetaChild, Zenon
    <3>4. CASE \/ ServeList \/ UNCHANGED vars
               \/ CloseMetaWait \/ CloseFlag \/ CloseChannels \/ CloseLock \/ CloseUnlock
               \/ CloseWait \/ CloseServ \/ CollectorRuns \/ CollectorReturns
               \/ \E id \in SiloIDs : SendPanics(id) \/ WaitEnter(id) \/ WaitNotify(id) \/ Send(id)
      BY <2>0, <3>4, NothingMeta
    <3> QED
      BY <2>6, <3>1, <3>2, <3>3, <3>4 DEF Next, CloserStep, WaiterStep, TouchesMeta
  <2> QED
    BY <2>1, <2>2, <2>3, <2>4, <2>5, <2>6 DEF TouchesMeta
<1> QED
  BY <1>1, <1>2 DEF MetaInv

-----------------------------------------------------------------------------
\* The results.

\* The invariants of the silos, the server and the metadata service hold in every
\* state.
THEOREM MetaInvariant == Spec => [](SiloInv /\ ServerInv /\ MetaInv)
<1>1. SiloInv /\ ServerInv /\ MetaInv /\ [Next]_vars => MetaInv'
  BY MetaInvStep
<1> QED
  BY <1>1, MetaInvInit, ServerInvariant, PTL DEF Spec

\* Between requests the service lists every silo that runs and none that is not
\* registered, and its maps by name and by ID agree, whatever failed before.
THEOREM MetadataIsCurrent == Spec => []MetadataCurrent
<1>1. ServerInv /\ MetaInv => MetadataCurrent
  <2> SUFFICES ASSUME ServerInv, MetaInv, lock = "free", ~isClosing
               PROVE  /\ \A n \in Names : silosByName[n] # None => silos[n] = silosByName[n]
                      /\ \A n \in Names : silos[n] # None /\ silo[silos[n]].child = "alive"
                                           => silosByName[n] = silos[n]
                      /\ silosByID = {silosByName[n] : n \in Names} \ {None}
    BY DEF MetadataCurrent
  <2>1. EventFits /\ EntriesTrue /\ job.pc = "none"
    BY DEF MetaInv, MetaKnown, ServerInv, LockOwned
  <2>2. \A n : ~Untold(n)
    BY <2>1, Zenon DEF Untold, EventFits
  <2>3. silosByID \subseteq SiloIDs
    BY DEF MetaInv, MetaTypes, MetaTypeOK
  <2>4. silosByID = {silosByName[n] : n \in Names} \ {None}
    BY <2>1, <2>3, MetadataAssumption DEF EntriesTrue
  <2> QED
    BY <2>1, <2>2, <2>4, Zenon DEF EntriesTrue
<1> QED
  BY <1>1, MetaInvariant, PTL

\* A bridge is taken down only after the listeners on it have closed, in any
\* state in which the service is not closing itself.
THEOREM BridgesOutliveListeners == Spec => []ListenersStopBeforeBridge
<1>1. MetaInv => ListenersStopBeforeBridge
  BY Zenon DEF MetaInv, MetaKnown, EntriesTrue, ListenersFit, ListenersStopBeforeBridge
<1> QED
  BY <1>1, MetaInvariant, PTL

\* Silos that are not torn down have addresses, and no two have one in common.
LEMMA OwnAddress ==
  ASSUME SiloInv, NEW i \in SiloIDs, NEW j \in SiloIDs,
         silo[i].State = "Running", silo[j].State = "Running"
  PROVE  /\ silo[i].slice \in Slice /\ SiloIP(silo[i].slice) \in Nat
         /\ SiloIP(silo[i].slice) = SiloIP(silo[j].slice) => i = j
<1>1. /\ held[i] = silo[i].slice /\ held[i] # <<>> /\ held[i] \in Slice
      /\ held[j] = silo[j].slice /\ held[j] # <<>> /\ held[j] \in Slice
  BY SaneFacts
<1>2. held[i][2] \in Nat /\ held[i][2] \in Range(held[i]) /\ held[j][2] \in Range(held[j])
  <2>1. ASSUME NEW t \in Slice PROVE t[2] \in Nat /\ t[2] \in Range(t)
    BY DEF Slice, Range
  <2> QED
    BY <1>1, <2>1, Zenon
<1>3. i # j => Range(held[i]) \cap Range(held[j]) = {}
  BY Zenon DEF SiloInv, PoolInv
<1> QED
  BY <1>1, <1>2, <1>3, Zenon DEF SiloIP

\* The caller is found under its address, and nobody else is.
LEMMA CallerFound ==
  ASSUME SiloInv, ServerInv, MetaInv, ~isClosing, NEW id \in SiloIDs, silo[id].State = "Running"
  PROVE  findSiloIDForIP(SiloIP(silo[id].slice)) \subseteq {id}
<1>1. \A j \in silosByID : j \in SiloIDs /\ silo[j].State = "Running"
  BY DEF MetaInv, MetaTypes, MetaTypeOK, MetaKnown, EntriesTrue
<1> QED
  BY <1>1, OwnAddress, Zenon DEF findSiloIDForIP

LEMMA HeadOfOne == \A x : {Head(r) : r \in {x}} = {Head(x)}
<1> DEFINE Hd(r) == Head(r)
<1> HIDE DEF Hd
<1>1. \A x : {Hd(r) : r \in {x}} = {Hd(x)}
  OBVIOUS
<1> QED
  BY <1>1, Zenon DEF Hd

LEMMA HeadOfFirst ==
  ASSUME NEW x, NEW s, s = <<>> \/ \E y : s = <<y>>
  PROVE  Head(<<x>> \o s) = x
OBVIOUS

\* A silo that asks is taken for itself and for no other, and gets its own data
\* and addresses, or is told that its counters cannot be read.
THEOREM CallersAreIdentified == Spec => []CallerIsIdentified
<1>1. SiloInv /\ ServerInv /\ MetaInv => CallerIsIdentified
  <2> SUFFICES ASSUME SiloInv, ServerInv, MetaInv, ~isClosing,
                      NEW id \in silosByID, silo[id].child = "alive"
               PROVE  LET me == SiloIP(silo[id].slice)
                          First(hosts, ask) ==
                            {Head(r) : r \in ServeDNS(hosts, me, [ask |-> ask, name |-> None])}
                      IN  /\ ServeHTTP(me, "self", id, {}) = {Answer(200, {id})}
                          /\ ServeHTTP(me, "stats", id, {}) = {Answer(200, {id}), Answer(500, {})}
                          /\ \A hosts \in HostMaps :
                               /\ First(hosts, "self") = {me}
                               /\ First(hosts, "host") = {BridgeIP(silo[id].slice)}
    BY Zenon DEF CallerIsIdentified
  <2> DEFINE me == SiloIP(silo[id].slice)
  <2>1. id \in SiloIDs /\ silo[id].State = "Running"
    BY DEF MetaInv, MetaTypes, MetaTypeOK, MetaKnown, EntriesTrue
  <2>2. findSiloIDForIP(me) = {id}
    BY <2>1, CallerFound DEF findSiloIDForIP
  <2>3. MemStats(id) = {Answer(200, {id}), Answer(500, {})}
    BY <2>1, Zenon DEF MemStats
  <2> HIDE DEF me
  <2>4. ServeHTTP(me, "self", id, {}) = {Answer(200, {id})}
    BY <2>2 DEF ServeHTTP
  <2>5. ServeHTTP(me, "stats", id, {}) = {Answer(200, {id}), Answer(500, {})}
    BY <2>2, <2>3 DEF ServeHTTP
  <2>6. ASSUME NEW hosts \in HostMaps
        PROVE  /\ {Head(r) : r \in ServeDNS(hosts, me, [ask |-> "self", name |-> None])} = {me}
               /\ {Head(r) : r \in ServeDNS(hosts, me, [ask |-> "host", name |-> None])}
                    = {BridgeIP(silo[id].slice)}
    <3> DEFINE fixed(q) == IF q \in DOMAIN hosts THEN <<hosts[q]>> ELSE <<>>
               self == [ask |-> "self", name |-> None]
               hst == [ask |-> "host", name |-> None]
    <3>1. ServeDNS(hosts, me, self) = {<<findRouteableAddress(i)>> \o fixed(self) : i \in {id}}
      BY <2>2 DEF ServeDNS
    <3>2. ServeDNS(hosts, me, hst) = {<<findBridgeAddress(i)>> \o fixed(hst) : i \in {id}}
      BY <2>2 DEF ServeDNS
    <3>3. \A q : fixed(q) = <<>> \/ \E y : fixed(q) = <<y>>
      OBVIOUS
    <3> HIDE DEF fixed, self, hst
    <3>4. \A x, q : Head(<<x>> \o fixed(q)) = x
      BY <3>3, HeadOfFirst
    <3>5. findRouteableAddress(id) = me /\ findBridgeAddress(id) = BridgeIP(silo[id].slice)
      BY DEF findRouteableAddress, findBridgeAddress, me
    <3>6. {Head(r) : r \in ServeDNS(hosts, me, self)} = {me}
      <4>1. ServeDNS(hosts, me, self) = {<<me>> \o fixed(self)}
        BY <3>1, <3>5
      <4>2. Head(<<me>> \o fixed(self)) = me
        BY <3>4
      <4> QED
        BY <4>1, <4>2, HeadOfOne, Zenon
    <3>7. {Head(r) : r \in ServeDNS(hosts, me, hst)} = {BridgeIP(silo[id].slice)}
      <4>1. ServeDNS(hosts, me, hst) = {<<BridgeIP(silo[id].slice)>> \o fixed(hst)}
        BY <3>2, <3>5, Zenon
      <4>2. Head(<<BridgeIP(silo[id].slice)>> \o fixed(hst)) = BridgeIP(silo[id].slice)
        BY <3>4, Zenon
      <4> QED
        BY <4>1, <4>2, HeadOfOne, Zenon
    <3> QED
      BY <3>6, <3>7 DEF self, hst
  <2> QED
    BY <2>4, <2>5, <2>6, Zenon DEF me
<1> QED
  BY <1>1, MetaInvariant, PTL

\* A name leads to the silo that has it, and a silo is told about silos that are
\* on the server only, also in the middle of a request.
THEOREM NamesLeadToOwners == Spec => []NamesLeadHome
<1>1. SiloInv /\ ServerInv /\ MetaInv => NamesLeadHome
  <2> SUFFICES ASSUME SiloInv, ServerInv, MetaInv, ~isClosing,
                      NEW id \in SiloIDs, silo[id].child = "alive"
               PROVE  LET me == SiloIP(silo[id].slice)
                      IN  /\ \A n \in Names, hosts \in HostMaps :
                               <<me>> \in ServeDNS(hosts, me, [ask |-> "silo", name |-> n])
                                 => nameOf[id] = n
                          /\ \A path \in {"list", "silo"}, ref \in SiloIDs :
                               \A r \in ServeHTTP(me, path, ref, SiloIDs) :
                                 \A i \in r.about : Registered(i)
    BY Zenon DEF NamesLeadHome
  <2> DEFINE me == SiloIP(silo[id].slice)
  <2>1. silo[id].State = "Running"
    BY SaneFacts
  <2>2. me \in Nat
    BY <2>1, OwnAddress
  <2>3. /\ silosByName \in [Names -> SiloIDs \cup {None}]
        /\ silosByID \subseteq SiloIDs
        /\ \A n \in Names : silosByName[n] # None => silos[n] = silosByName[n] /\ silosByName[n] \in silosByID
        /\ \A i \in silosByID : /\ nameOf[i] \in Names /\ silosByName[nameOf[i]] = i
                                /\ silo[i].State = "Running"
    BY Zenon DEF MetaInv, MetaTypes, MetaTypeOK, MetaKnown, EntriesTrue
  <2>4. \A i \in silosByID : Registered(i)
    BY <2>3, MetadataAssumption DEF Registered
  <2>5. ASSUME NEW n \in Names, NEW hosts \in HostMaps,
               <<me>> \in ServeDNS(hosts, me, [ask |-> "silo", name |-> n])
        PROVE  nameOf[id] = n
    <3> DEFINE q == [ask |-> "silo", name |-> n]
               fixed == IF q \in DOMAIN hosts THEN <<hosts[q]>> ELSE <<>>
    <3>1. CASE silosByName[n] = None
      <4>1. ServeDNS(hosts, me, q) = {fixed}
        BY <3>1, Zenon DEF ServeDNS
      <4>2. fixed = <<>> \/ fixed = <<-1>>
        BY Zenon DEF HostMaps
      <4> HIDE DEF me, fixed, q
      <4>3. <<me>> = fixed
        BY <2>5, <4>1 DEF q
      <4>4. <<me>> # <<>> /\ <<me>> # <<-1>>
        BY <2>2
      <4> QED
        BY <4>2, <4>3, <4>4, Zenon
    <3>2. CASE silosByName[n] # None
      <4>1. ServeDNS(hosts, me, q) = {<<SiloIP(silo[silosByName[n]].slice)>>}
        BY <3>2 DEF ServeDNS, findRouteableAddress
      <4>2. <<me>> = <<SiloIP(silo[silosByName[n]].slice)>>
        BY <2>5, <4>1, Zenon
      <4>3. me = SiloIP(silo[silosByName[n]].slice)
        BY <4>2, Zenon
      <4>4. silosByName[n] \in silosByID /\ silosByName[n] \in SiloIDs /\ silos[n] = silosByName[n]
        BY <2>3, <3>2, Zenon
      <4>5. id = silosByName[n]
        BY <2>1, <2>3, <4>3, <4>4, OwnAddress, Zenon
      <4> QED
        BY <3>2, <4>4, <4>5, Zenon DEF ServerInv, SilosKnown
    <3> QED
      BY <3>1, <3>2, Zenon
  <2>6. ASSUME NEW path \in {"list", "silo"}, NEW ref \in SiloIDs,
               NEW r \in ServeHTTP(me, path, ref, SiloIDs), NEW i \in r.about
        PROVE  Registered(i)
    <3> HIDE DEF me
    <3>1. \A x, y : Answer(x, y).about = y
      BY DEF Answer
    <3>2. r \in {Answer(403, {}), metadataListHandler, metadataSiloQueryHandler(ref)}
      <4>1. ServeHTTP(me, "list", ref, SiloIDs) \subseteq {Answer(403, {}), metadataListHandler}
        BY DEF ServeHTTP
      <4>2. ServeHTTP(me, "silo", ref, SiloIDs)
              \subseteq {Answer(403, {}), metadataSiloQueryHandler(ref)}
        BY DEF ServeHTTP
      <4>3. path = "list" \/ path = "silo"
        OBVIOUS
      <4> QED
        BY <4>1, <4>2, <4>3
    <3>3. r = metadataListHandler => i \in silosByID
      <4>1. metadataListHandler.about = {silosByName[n] : n \in Names} \ {None}
        BY <3>1, Zenon DEF metadataListHandler
      <4>2. r = metadataListHandler => \E n \in Names : i = silosByName[n] /\ i # None
        BY <4>1, Zenon
      <4> QED
        BY <2>3, <4>2
    <3>4. r = metadataSiloQueryHandler(ref) => i \in silosByID
      BY <3>1 DEF metadataSiloQueryHandler
    <3>5. r # Answer(403, {})
      BY <3>1
    <3> QED
      BY <2>4, <3>2, <3>3, <3>4, <3>5, Zenon
  <2> QED
    BY <2>5, <2>6, Zenon
<1> QED
  BY <1>1, MetaInvariant, PTL

-----------------------------------------------------------------------------
(***************************************************************************)
(* What HostEvent waits for.  While the service is not closing, only the   *)
(* stop in progress has told listeners of an entry to close.               *)
(***************************************************************************)
Told(id, l) ==
  /\ event.id = id /\ event.pc \in {"stopped", "spin"}
  /\ l < event.l \/ (l = event.l /\ event.pc = "spin")

StopsFit ==
  /\ \A id \in silosByID : \A l \in DOMAIN listeners[id] :
       listeners[id][l] \in {"spawned", "select"} \/ Told(id, l)
  /\ event.pc = "spin" => /\ event.id \in silosByID /\ event.l \in DOMAIN listeners[event.id]
                          /\ listeners[event.id][event.l] \in {"closing", "closed"}
  /\ event.l >= 1

StopInv == ~isClosing => ~closing /\ closer = "none" /\ StopsFit

\* Server.Close first raises the flag of the service.
LEMMA OpenStep ==
  ASSUME ServerInv, StopInv, [Next]_vars, ~isClosing'
  PROVE  ~isClosing /\ ~closing /\ ~closing' /\ closer' = "none"
<1>1. CASE ~TouchesMeta
  <2>1. ~isClosing /\ ~closing /\ ~closing' /\ closer = "none"
    BY <1>1, OthersLeaveMeta DEF StopInv, metaVars
  <2>2. lock # "close"
    BY <2>1 DEF ServerInv, LockOwned
  <2>3. closer' = closer
    <3>1. CASE JobStep \/ UNCHANGED vars
      BY <2>2, <3>1, Zenon DEF vars, serverVars, JobStep, StartRefused, StartInterface, StartNew, StartInit,
        StartLaunch, CloseUninitialised, GiveBack, Abandon, Register, SpawnWaiter, StopNotify,
        StopClose, StopReturns
    <3>2. CASE \/ ServeList \/ \E n \in Names : ServeUp(n) \/ ServeDown(n)
               \/ MetaStep \/ CollectorRuns \/ Collect \/ CollectorReturns
      BY <3>2, Zenon DEF vars, serverVars, ServeList, ServeUp, ServeDown, MetaStep, CollectorRuns, Collect,
        CollectorReturns
    <3>3. ~(CloseLock \/ CloserStep)
      BY <2>1 DEF CloseLock, CloserStep, CloseMetaSignal, CloseMetaWait, CloseFlag,
        CloseChannels, CloseNext, CloseUnlock, CloseWait, CloseServ, AtClose
    <3>4. CASE \E id \in SiloIDs :
                 WaiterStep(id) \/ ListenStep(id) \/ ChildExits(id) \/ ChildDies(id)
      BY <3>4, Zenon DEF serverVars, WaiterStep, WaitEnter, WaitWakes, WaitReaps, WaitNotify, SetWaiter,
        Send, SendPanics, ListenStep, ChildExits, ChildDies
    <3> QED
      BY <1>1, <3>1, <3>2, <3>3, <3>4 DEF Next, TouchesMeta
  <2> QED
    BY <2>1, <2>3
<1>2. CASE Interrupt
  BY <1>2 DEF Interrupt, MetaCloseFlag
<1>3. CASE CloseMetaSignal
  BY <1>3 DEF CloseMetaSignal, AtClose, MetaCloseSignal, StopInv
<1>4. CASE Register \/ StopNotify \/ MetaStep \/ \E id \in SiloIDs : ListenStep(id)
  <2>1. UNCHANGED <<isClosing, closing, closer>>
    BY <1>4 DEF Register, StopNotify, HostEvent, MetaStep, EventStep, EventSiloStarted,
      EventStopSignal, EventStopSpin, EventStopDone, ListenStep, ListenerStep, ListenerWaits,
      ListenerGlobal, ListenerCloses, SetListener, serverVars
  <2> QED
    BY <2>1 DEF StopInv
<1> QED
  BY <1>1, <1>2, <1>3, <1>4 DEF TouchesMeta

LEMMA StopsFitStep ==
  ASSUME MetaTypes, MetaTypes', StopsFit, ~closing, ~isClosing, [Next]_vars, ~isClosing'
  PROVE  StopsFit'
<1>0. /\ event.pc # "idle" => event.id \in SiloIDs /\ event.name \in Names
      /\ silosByID \subseteq SiloIDs /\ event.l \in Nat
      /\ listeners \in [SiloIDs -> Seq(ListenerStates)]
  BY Zenon DEF MetaTypes, MetaTypeOK, ListenerStates
<1>1. CASE ~TouchesMeta
  BY <1>1, OthersLeaveMeta, Zenon DEF metaVars, StopsFit, Told
<1>2. CASE Register \/ StopNotify
  <2>1. PICK kind \in {"started", "stopped"} : HostEvent(kind, job.name, job.id)
    BY <1>2, Zenon DEF Register, StopNotify
  <2>2. event = NoEvent /\ UNCHANGED <<silosByID, listeners>> /\ event'.pc # "spin" /\ event'.l = 1
    BY <2>1, Zenon DEF HostEvent, NoEvent
  <2>3. \A id, l : ~Told(id, l)
    BY <2>2 DEF Told, NoEvent
  <2>4. silosByID' = silosByID /\ listeners' = listeners
    BY <2>2, Zenon
  <2>5. \A id \in silosByID : \A l \in DOMAIN listeners[id] :
          listeners[id][l] \in {"spawned", "select"}
    BY <2>3, Zenon DEF StopsFit
  <2>6. \A id \in silosByID' : \A l \in DOMAIN listeners'[id] :
          listeners'[id][l] \in {"spawned", "select"}
    BY <2>4, <2>5, Zenon
  <2>7. event'.pc # "spin" /\ event'.l >= 1
    BY <2>2
  <2> QED
    BY <2>6, <2>7, Zenon DEF StopsFit
<1>3. CASE MetaStep /\ EventSiloStarted
  <2>1. /\ event.pc = "started" /\ event'.pc = "idle" /\ event'.l = 1 /\ silosByID' = silosByID \cup {event.id}
        /\ \E ls \in Listening : listeners' = [listeners EXCEPT ![event.id] = ls]
    BY <1>3, Zenon DEF EventSiloStarted, NoEvent
  <2>2. \A ls \in Listening : \A l \in DOMAIN ls : ls[l] = "spawned"
    <3>1. \A l \in DOMAIN <<"spawned", "spawned">> : <<"spawned", "spawned">>[l] = "spawned"
      OBVIOUS
    <3>2. \A l \in DOMAIN <<"spawned">> : <<"spawned">>[l] = "spawned"
      OBVIOUS
    <3>3. DOMAIN <<>> = {}
      OBVIOUS
    <3> QED
      BY <3>1, <3>2, <3>3, Zenon DEF Listening
  <2>3. \A id, l : ~Told(id, l)
    BY <2>1 DEF Told
  <2>4. /\ \A l \in DOMAIN listeners'[event.id] : listeners'[event.id][l] = "spawned"
        /\ \A j \in SiloIDs : j # event.id => listeners'[j] = listeners[j]
    BY <1>0, <2>1, <2>2, Zenon
  <2>5. ASSUME NEW id \in silosByID', NEW l \in DOMAIN listeners'[id]
        PROVE  listeners'[id][l] \in {"spawned", "select"}
    <3>1. CASE id = event.id
      BY <2>4, <3>1, Zenon
    <3>2. CASE id # event.id
      BY <1>0, <2>1, <2>3, <2>4, <3>2, Zenon DEF StopsFit
    <3> QED
      BY <3>1, <3>2, Zenon
  <2>6. event'.pc # "spin" /\ event'.l >= 1
    BY <2>1
  <2> QED
    BY <2>5, <2>6, Zenon DEF StopsFit
<1>4. CASE MetaStep /\ EventStopSignal
  <2>1. /\ event.pc = "stopped" /\ MoreListeners /\ UNCHANGED silosByID
        /\ event' = [event EXCEPT !.pc = "spin"]
        /\ listeners' = [listeners EXCEPT ![event.id][event.l] = "closing"]
    BY <1>4 DEF EventStopSignal
  <2>2. event'.pc = "spin" /\ event'.id = event.id /\ event'.l = event.l
    BY <2>1, Zenon DEF MetaTypes, MetaTypeOK
  <2>3. /\ \A j \in SiloIDs : DOMAIN listeners'[j] = DOMAIN listeners[j]
        /\ \A j \in SiloIDs : \A m \in DOMAIN listeners[j] :
             listeners'[j][m] = IF j = event.id /\ m = event.l THEN "closing" ELSE listeners[j][m]
    BY <1>0, <2>1, ListenersUpdate DEF MetaTypes, ListenerStates
  <2>4. event.id \in silosByID /\ event.l \in DOMAIN listeners[event.id]
    <3>1. event.l \in 1..Len(listeners[event.id])
      BY <1>0, <2>1 DEF MoreListeners, MetaTypes, MetaTypeOK, StopsFit
    <3> QED
      BY <1>0, <2>1, <3>1 DEF MoreListeners
  <2>5. \A id, l : Told(id, l) => Told(id, l)'
    BY <2>1, <2>2 DEF Told
  <2>6. \A id, l : id = event.id /\ l = event.l => Told(id, l)'
    BY <2>2 DEF Told
  <2>7. ASSUME NEW id \in silosByID, NEW l \in DOMAIN listeners[id]
        PROVE  listeners'[id][l] \in {"spawned", "select"} \/ Told(id, l)'
    <3>1. listeners'[id][l] = listeners[id][l] \/ (id = event.id /\ l = event.l)
      BY <1>0, <2>3, Zenon
    <3>2. listeners[id][l] \in {"spawned", "select"} \/ Told(id, l)
      BY DEF StopsFit
    <3>3. CASE listeners'[id][l] = listeners[id][l]
      BY <2>5, <3>2, <3>3, Zenon
    <3>4. CASE id = event.id /\ l = event.l
      BY <2>6, <3>4, Zenon
    <3> QED
      BY <3>1, <3>3, <3>4, Zenon
  <2> QED
    BY <1>0, <2>1, <2>2, <2>3, <2>4, <2>7 DEF StopsFit
<1>5. CASE MetaStep /\ EventStopSpin
  <2>1. /\ event.pc = "spin" /\ UNCHANGED <<silosByID, listeners>>
        /\ event' = [event EXCEPT !.pc = "stopped", !.l = @ + 1]
    BY <1>5 DEF EventStopSpin
  <2>2. event'.pc = "stopped" /\ event'.id = event.id /\ event'.l = event.l + 1
    BY <2>1 DEF MetaTypes, MetaTypeOK
  <2>3. ASSUME NEW id \in silosByID, NEW l \in DOMAIN listeners[id], Told(id, l)
        PROVE  Told(id, l)'
    <3>1. l \in Nat
      BY <1>0
    <3> QED
      BY <1>0, <2>1, <2>2, <2>3, <3>1 DEF Told
  <2>4. event'.l >= 1
    BY <1>0, <2>2 DEF StopsFit
  <2>5. \A id \in silosByID : \A l \in DOMAIN listeners[id] :
          listeners[id][l] \in {"spawned", "select"} \/ Told(id, l)'
    BY <2>3, Zenon DEF StopsFit
  <2> QED
    BY <2>1, <2>2, <2>4, <2>5 DEF StopsFit
<1>6. CASE MetaStep /\ EventStopDone
  <2>1. /\ event.pc = "stopped" /\ event'.pc = "idle" /\ event'.l = 1 /\ UNCHANGED listeners
        /\ silosByID' = silosByID \ {event.id}
    BY <1>6 DEF EventStopDone, NoEvent
  <2>2. \A id, l : Told(id, l) => id = event.id
    BY DEF Told
  <2>3. ASSUME NEW id \in silosByID', NEW l \in DOMAIN listeners'[id]
        PROVE  listeners'[id][l] \in {"spawned", "select"}
    <3>1. id \in silosByID /\ id # event.id /\ listeners' = listeners
      BY <2>1
    <3>2. l \in DOMAIN listeners[id] /\ ~Told(id, l)
      BY <2>2, <3>1, Zenon
    <3>3. listeners[id][l] \in {"spawned", "select"}
      BY <3>1, <3>2, Zenon DEF StopsFit
    <3> QED
      BY <3>1, <3>3, Zenon
  <2>4. event'.pc # "spin" /\ event'.l >= 1
    BY <2>1
  <2> QED
    BY <2>3, <2>4, Zenon DEF StopsFit
<1>7. ASSUME NEW id \in SiloIDs, ListenStep(id) PROVE StopsFit'
  <2>1. PICK l \in DOMAIN listeners[id], x \in ListenerStates :
          /\ listeners' = [listeners EXCEPT ![id][l] = x]
          /\ (listeners[id][l] = "spawned" /\ x = "select") \/ (listeners[id][l] = "closing" /\ x = "closed")
          /\ UNCHANGED <<silosByID, event>>
    BY <1>7 DEF ListenStep, ListenerStep, ListenerWaits, ListenerGlobal, ListenerCloses,
                SetListener, ListenerStates
  <2>2. /\ \A j \in SiloIDs : DOMAIN listeners'[j] = DOMAIN listeners[j]
        /\ \A j \in SiloIDs : \A m \in DOMAIN listeners[j] :
             listeners'[j][m] = IF j = id /\ m = l THEN x ELSE listeners[j][m]
    BY <2>1, ListenersUpdate, Zenon DEF MetaTypes
  <2>3. \A j, m : Told(j, m)' <=> Told(j, m)
    BY <2>1, Zenon DEF Told
  <2>4. ASSUME NEW j \in silosByID, NEW m \in DOMAIN listeners[j]
        PROVE  listeners'[j][m] \in {"spawned", "select"} \/ Told(j, m)'
    BY <1>0, <2>1, <2>2, <2>3, Zenon DEF StopsFit
  <2>5. event.pc = "spin" => listeners'[event.id][event.l] \in {"closing", "closed"}
    BY <1>0, <2>1, <2>2 DEF StopsFit
  <2> QED
    BY <1>0, <2>1, <2>2, <2>4, <2>5, Zenon DEF StopsFit
<1> QED
  <2>1. ~(Interrupt \/ CloseMetaSignal) \/ UNCHANGED <<silosByID, listeners, event>>
    BY Zenon DEF Interrupt, CloseMetaSignal, MetaCloseFlag, MetaCloseSignal
  <2>2. CASE Interrupt \/ CloseMetaSignal
    BY <2>1, <2>2, Zenon DEF StopsFit, Told
  <2> QED
    BY <1>1, <1>2, <1>3, <1>4, <1>5, <1>6, <1>7, <2>2 DEF TouchesMeta, MetaStep, EventStep

\* While the metadata service is not closing, HostEvent waits only for listeners
\* that will answer: for those about to receive on shouldShutdown, then for those
\* that have received, in a first stop of a silo and in one that is repeated.
THEOREM StopsAreAnswered == Spec => []StopMeetsListener
<1>1. Init => StopInv
  BY DEF Init, MetaInit, StopInv, StopsFit, NoEvent
<1>2. ServerInv /\ MetaTypes /\ MetaTypes' /\ StopInv /\ [Next]_vars => StopInv'
  BY OpenStep, StopsFitStep, Zenon DEF StopInv
<1>3. MetaTypes /\ StopInv => StopMeetsListener
  <2> SUFFICES ASSUME MetaTypes, StopsFit
               PROVE  /\ event.pc = "stopped" /\ MoreListeners =>
                           listeners[event.id][event.l] \in {"spawned", "select"}
                      /\ event.pc = "spin" =>
                           /\ event.l \in DOMAIN listeners[event.id]
                           /\ listeners[event.id][event.l] \in {"closing", "closed"}
    BY Zenon DEF StopInv, StopMeetsListener
  <2>1. ASSUME event.pc = "stopped", MoreListeners
        PROVE  listeners[event.id][event.l] \in {"spawned", "select"}
    <3>1. event.id \in silosByID /\ event.id \in SiloIDs /\ event.l \in 1..Len(listeners[event.id])
      BY <2>1 DEF MoreListeners, MetaTypes, MetaTypeOK, StopsFit
    <3>2. event.l \in DOMAIN listeners[event.id]
      BY <3>1 DEF MetaTypes, MetaTypeOK
    <3>3. ~Told(event.id, event.l)
      BY <2>1, <3>1 DEF Told
    <3> QED
      BY <3>1, <3>2, <3>3, Zenon DEF StopsFit
  <2> QED
    BY <2>1, Zenon DEF StopsFit
<1>4. MetaInv => MetaTypes
  BY DEF MetaInv
<1> QED
  BY <1>1, <1>2, <1>3, <1>4, MetaInvariant, PTL DEF Spec

-----------------------------------------------------------------------------
\* the rest of the server's state
FlagTypes ==
  serverClosing \in BOOLEAN /\ doneClosed \in BOOLEAN /\ status \in {"up", "panicked", "exited"}

LEMMA FlagTypesStep ==
  ASSUME FlagTypes, [Next]_vars
  PROVE  FlagTypes'
<1>1. serverClosing' \in {serverClosing, TRUE} /\ doneClosed' \in {doneClosed, TRUE}
      /\ status' \in {status, "panicked", "exited"}
  <2>1. CASE UNCHANGED vars \/ JobStep
    BY <2>1, Zenon DEF vars, serverVars, JobStep, StartRefused, StartInterface, StartNew, StartInit,
      StartLaunch, CloseUninitialised, GiveBack, Abandon, Register, SpawnWaiter, StopNotify,
      StopClose, StopReturns
  <2>2. CASE \/ ServeList \/ \E n \in Names : ServeUp(n) \/ ServeDown(n)
             \/ MetaStep \/ CollectorRuns \/ Collect \/ CollectorReturns
    BY <2>2, Zenon DEF vars, serverVars, ServeList, ServeUp, ServeDown, MetaStep, CollectorRuns, Collect,
      CollectorReturns
  <2>3. CASE Interrupt \/ CloseLock \/ CloserStep
    BY <2>3, Zenon DEF Interrupt, CloseLock, CloserStep, CloseMetaSignal, CloseMetaWait, CloseFlag,
      CloseChannels, CloseNext, CloseUnlock, CloseWait, CloseServ
  <2>4. CASE \E id \in SiloIDs : WaiterStep(id) \/ ListenStep(id) \/ ChildExits(id) \/ ChildDies(id)
    BY <2>4, Zenon DEF serverVars, WaiterStep, WaitEnter, WaitWakes, WaitReaps, WaitNotify, SetWaiter, Send,
      SendPanics, ListenStep, ChildExits, ChildDies
  <2> QED
    BY <2>1, <2>2, <2>3, <2>4, Zenon DEF Next
<1> QED
  BY <1>1, Zenon DEF FlagTypes

\* The whole state of the server, of its silos and of the metadata service keeps
\* to its types.
THEOREM ServerTypeCorrect == Spec => []TypeOK
<1>1. SiloInv /\ ServerInv /\ MetaInv /\ FlagTypes => TypeOK
  <2> SUFFICES ASSUME SiloInv, ServerInv, MetaInv, FlagTypes PROVE TypeOK
    OBVIOUS
  <2>1. PoolTypeOK
    BY Zenon DEF SiloInv, PoolInv, PoolTypeOK, Sound
  <2>2. SiloTypeOK
    BY <2>1 DEF SiloInv, SilosSane, HostType, SiloTypeOK
  <2>3. MetaTypeOK
    BY DEF MetaInv, MetaTypes
  <2>4. ServerTypes
    BY DEF ServerInv
  <2> QED
    BY <2>2, <2>3, <2>4 DEF ServerTypes, FlagTypes, JobPCs, Launching, Entering, Owning, TypeOK
<1>2. Init => FlagTypes
  BY Zenon DEF Init, FlagTypes
<1>3. FlagTypes /\ [Next]_vars => FlagTypes'
  BY FlagTypesStep
<1> QED
  BY <1>1, <1>2, <1>3, MetaInvariant, PTL DEF Spec
=============================================================================
