------------------------------ MODULE Metadata ------------------------------
(***************************************************************************)
(* The metadata service of colexd (colexd/metadata_service.go): the maps   *)
(* of silos it serves, and the listeners it keeps on each silo's bridge.   *)
(* The server calls HostEvent when a silo has started or is about to stop; *)
(* Close is called once, by the server's own Close, from another goroutine.*)
(*                                                                         *)
(* A listener is a goroutine in waitForCloseSignal:                        *)
(*   spawned  the go statement was executed, wg.Add(1) was not             *)
(*   select   waiting for the global or for its own shutdown signal        *)
(*   closing  a signal was received, the socket is still open              *)
(*   closed   listenerShutdown is set and wg.Done was called               *)
(* event is the HostEvent call in progress: it holds dataLock.             *)
(***************************************************************************)
EXTENDS Silo

CONSTANTS
  Names,       \* the names silos are given
  None         \* no name, no silo

ASSUME MetadataAssumption == None \notin SiloIDs /\ None \notin Names

VARIABLES
  isClosing,    \* metadataService.isClosing
  closing,      \* the channel metadataService.closing is closed
  silosByName,  \* the ID a name maps to, or None
  silosByID,    \* the IDs with an entry
  listeners,    \* the listeners of each silo, in the order they were set up
  event         \* the HostEvent call in progress

metaVars == <<isClosing, closing, silosByName, silosByID, listeners, event>>

NoEvent == [pc |-> "idle", name |-> None, id |-> None, l |-> 1]

MetaInit ==
  /\ isClosing = FALSE
  /\ closing = FALSE
  /\ silosByName = [n \in Names |-> None]
  /\ silosByID = {}
  /\ listeners = [id \in SiloIDs |-> <<>>]
  /\ event = NoEvent

(***************************************************************************)
(* HostEvent.  The test of isClosing is made before dataLock is taken.     *)
(***************************************************************************)
\* isClosing is not looked at
HostEventAlways(kind, n, id) ==
  /\ event = NoEvent
  /\ event' = [pc |-> kind, name |-> n, id |-> id, l |-> 1]
  /\ UNCHANGED <<isClosing, closing, silosByName, silosByID, listeners>>

HostEvent(kind, n, id) ==
  /\ event = NoEvent
  /\ event' = IF isClosing THEN NoEvent ELSE [pc |-> kind, name |-> n, id |-> id, l |-> 1]
  /\ UNCHANGED <<isClosing, closing, silosByName, silosByID, listeners>>

\* HTTP and DNS listeners, in this order; one that cannot be bound is left out
Listening ==
  {<<"spawned", "spawned">>} \cup
  (IF "bind" \in Faults THEN {<<"spawned">>, <<>>} ELSE {})

EventSiloStarted ==
  /\ event.pc = "started"
  /\ silosByName' = [silosByName EXCEPT ![event.name] = event.id]
  /\ silosByID' = silosByID \cup {event.id}
  /\ \E ls \in Listening : listeners' = [listeners EXCEPT ![event.id] = ls]
  /\ event' = NoEvent
  /\ UNCHANGED <<isClosing, closing>>

\* the entry being removed has a listener that is still to be shut down
MoreListeners == event.id \in silosByID /\ event.l <= Len(listeners[event.id])

\* the next listener is signalled without waiting for this one
EventStopSignalOnly ==
  /\ event.pc = "stopped"
  /\ MoreListeners
  /\ listeners[event.id][event.l] = "select"
  /\ listeners' = [listeners EXCEPT ![event.id][event.l] = "closing"]
  /\ event' = [event EXCEPT !.l = @ + 1]
  /\ UNCHANGED <<isClosing, closing, silosByName, silosByID>>

\* l.shouldShutdown <- true, on a channel without a buffer: both goroutines meet
EventStopSignal ==
  /\ event.pc = "stopped"
  /\ MoreListeners
  /\ listeners[event.id][event.l] = "select"
  /\ listeners' = [listeners EXCEPT ![event.id][event.l] = "closing"]
  /\ event' = [event EXCEPT !.pc = "spin"]
  /\ UNCHANGED <<isClosing, closing, silosByName, silosByID>>

\* for !l.listenerShutdown { runtime.Gosched() }
EventStopSpin ==
  /\ event.pc = "spin"
  /\ listeners[event.id][event.l] = "closed"
  /\ event' = [event EXCEPT !.pc = "stopped", !.l = @ + 1]
  /\ UNCHANGED <<isClosing, closing, silosByName, silosByID, listeners>>

\* the entry under the name is left behind
EventStopDoneKeepsName ==
  /\ event.pc = "stopped"
  /\ ~MoreListeners
  /\ silosByID' = silosByID \ {event.id}
  /\ event' = NoEvent
  /\ UNCHANGED <<isClosing, closing, silosByName, listeners>>

\* the entry under the ID is left behind
EventStopDoneKeepsID ==
  /\ event.pc = "stopped"
  /\ ~MoreListeners
  /\ silosByName' = [silosByName EXCEPT ![event.name] = None]
  /\ event' = NoEvent
  /\ UNCHANGED <<isClosing, closing, silosByID, listeners>>

EventStopDone ==
  /\ event.pc = "stopped"
  /\ ~MoreListeners
  /\ silosByName' = [silosByName EXCEPT ![event.name] = None]
  /\ silosByID' = silosByID \ {event.id}
  /\ event' = NoEvent
  /\ UNCHANGED <<isClosing, closing, listeners>>

EventStep == EventSiloStarted \/ EventStopSignal \/ EventStopSpin \/ EventStopDone

(***************************************************************************)
(* waitForCloseSignal.                                                     *)
(***************************************************************************)
SetListener(id, l, from, to) ==
  /\ listeners[id][l] = from
  /\ listeners' = [listeners EXCEPT ![id][l] = to]
  /\ UNCHANGED <<isClosing, closing, silosByName, silosByID, event>>

ListenerWaits(id, l) == SetListener(id, l, "spawned", "select")
ListenerGlobal(id, l) == closing /\ SetListener(id, l, "select", "closing")
ListenerCloses(id, l) == SetListener(id, l, "closing", "closed")

ListenerStep(id) ==
  \E l \in DOMAIN listeners[id] :
    ListenerWaits(id, l) \/ ListenerGlobal(id, l) \/ ListenerCloses(id, l)

(***************************************************************************)
(* Close: raise the flag, close the channel, wait for the listeners.  The  *)
(* group counts a listener only from its own first line on.                *)
(***************************************************************************)
MetaCloseFlag ==
  /\ isClosing' = TRUE
  /\ UNCHANGED <<closing, silosByName, silosByID, listeners, event>>

MetaCloseSignal ==
  /\ closing' = TRUE
  /\ UNCHANGED <<isClosing, silosByName, silosByID, listeners, event>>

Counted(ls) == \E l \in DOMAIN ls : ls[l] \in {"select", "closing"}
MetaWaitOver == \A id \in SiloIDs : ~Counted(listeners[id])

(***************************************************************************)
(* The readers, each under dataLock and only while isClosing is not set.   *)
(* A caller is known by its address a.  Two entries with that address      *)
(* would be told apart by the order of a map iteration, so that a reader   *)
(* has a set of answers it may give.                                       *)
(***************************************************************************)
findSiloIDForIP(a) == {id \in silosByID : SiloIP(silo[id].slice) = a}
findBridgeAddress(id) == BridgeIP(silo[id].slice)
findRouteableAddress(id) == SiloIP(silo[id].slice)

\* A question: <name>.silo., self., or one of host., metadata., bridge., colex.
Questions == [ask : {"silo"}, name : Names] \cup [ask : {"self", "host"}, name : {None}]

\* The addresses given for a question q.  hosts is dnsMap, for the questions it
\* has an entry for; it is not looked at after a silo was found by its name, or
\* when the caller of self. or host. is not found.
ServeDNS(hosts, a, q) ==
  LET fixed == IF q \in DOMAIN hosts THEN <<hosts[q]>> ELSE <<>>
      named == q.ask = "silo" /\ silosByName[q.name] # None
      callers == findSiloIDForIP(a)
  IN  CASE named -> {<<findRouteableAddress(silosByName[q.name])>>}
        [] q.ask = "silo" /\ ~named -> {fixed}
        [] q.ask # "silo" /\ callers = {} -> {<<>>}
        [] q.ask = "self" /\ callers # {} -> {<<findRouteableAddress(id)>> \o fixed : id \in callers}
        [] q.ask = "host" /\ callers # {} -> {<<findBridgeAddress(id)>> \o fixed : id \in callers}

\* a reply, and the silos it tells about
Answer(code, ids) == [status |-> code, about |-> ids]

\* Looking for the processes of the silo may fail, and so may reading one of them:
\* each may end between the two, also while the program of the silo runs.
MemStats(id) ==
  IF silo[id].State # "Running" THEN {Answer(500, {})}
  ELSE {Answer(200, {id}), Answer(500, {})}

metadataListHandler == Answer(200, {silosByName[n] : n \in Names} \ {None})

metadataSiloQueryHandler(ref) ==
  IF ref \in silosByID THEN Answer(200, {ref}) ELSE Answer(404, {})

\* grants are the silos with query_silos; ref is the ID in /silo/<ID>/<detail>, of
\* the details there are
ServeHTTP(a, path, ref, grants) ==
  LET Serve(id) ==
        CASE path = "self"  -> {Answer(200, {id})}
          [] path = "stats" -> MemStats(id)
          [] path = "list"  -> {metadataListHandler}
          [] path = "silo"  -> {IF id \in grants THEN metadataSiloQueryHandler(ref)
                                ELSE Answer(403, {})}
      callers == findSiloIDForIP(a)
  IN  IF callers = {} THEN {Answer(403, {})} ELSE UNION {Serve(id) : id \in callers}

\* Types of the metadata service.
MetaTypeOK ==
  /\ isClosing \in BOOLEAN /\ closing \in BOOLEAN
  /\ silosByName \in [Names -> SiloIDs \cup {None}]
  /\ silosByID \in SUBSET SiloIDs
  /\ listeners \in [SiloIDs -> Seq({"spawned", "select", "closing", "closed"})]
  /\ event \in [pc : {"idle", "started", "stopped", "spin"}, name : Names \cup {None},
                id : SiloIDs \cup {None}, l : Nat]
=============================================================================
