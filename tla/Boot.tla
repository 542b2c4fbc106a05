-------------------------------- MODULE Boot --------------------------------
(***************************************************************************)
(* How one silo boots: Silo.Start in the daemon (controller.go, with       *)
(* IPInterface.Setup of interfaces.go) against isolatedMain in the child   *)
(* (reexec.go), which runs at the same time and shares nothing with it but *)
(* the network device that Start moves into the child's namespace.         *)
(*                                                                         *)
(* Start and StartFails of module Silo, each one step there, are the last  *)
(* of many here: SiloBar hides a start that is in progress, and the module *)
(* implements Silo through it.                                             *)
(***************************************************************************)
EXTENDS Silo

CONSTANTS
  self,      \* the silo that boots
  MaxPolls   \* how often the child looks for its interface (1000 in the code)

ASSUME BootAssumption == self \in SiloIDs /\ MaxPolls \in Nat \ {0}

VARIABLES
  setup,    \* the next call that Start makes; idle, done or failed
  inside,   \* isolatedMain: what it does next, its polls, why it has ended
  link,     \* the silo's end of the veth pair, and the default route
  block,    \* the bridge and the silo address are in one block of four
  daemon    \* colexd itself: up or dead

bootVars == <<setup, inside, link, block, daemon>>
vars == <<siloVars, bootVars>>

Me == silo[self]

Init ==
  /\ SiloInit
  /\ setup = "idle"
  /\ inside = [at |-> "none", polls |-> 0, exit |-> "none"]
  /\ link = [at |-> "none", addr |-> FALSE, linkLocal |-> FALSE, up |-> FALSE, route |-> FALSE]
  /\ block \in BOOLEAN
  /\ daemon = "up"

(***************************************************************************)
(* Up to Init, and after Start: as in module Silo.                         *)
(***************************************************************************)
Prepare ==
  /\ daemon = "up" /\ setup = "idle"
  /\ \/ TakeInterface(self)
     \/ \E req \in Requests : NewSilo(self, req)
     \/ InitSilo(self) \/ InitFails(self) \/ ReturnSlice(self)
  /\ UNCHANGED bootVars

Returned == setup \in {"done", "failed"}

\* A start that failed is followed by a Close; one that did not, by one some day.
CloseBooted ==
  /\ daemon = "up" /\ Returned
  /\ \E err \in DOMAIN CloseStep : Close(self, err)
  /\ UNCHANGED bootVars

Reap ==
  /\ daemon = "up" /\ Returned
  /\ WaitDone(self) \/ WaitReap(self)
  /\ UNCHANGED bootVars

(***************************************************************************)
(* Start, call by call.  A call that fails ends it.                        *)
(***************************************************************************)
\* the interface is brought up before it has its address
SetupNextUpFirst ==
  [forwarding |-> "bridge", bridge |-> "veth", veth |-> "attach", attach |-> "move",
   move |-> "open", open |-> "up", up |-> "address", address |-> "rules"]

\* IPInterface.Setup: the call that follows each but the last
SetupNext ==
  [forwarding |-> "bridge", bridge |-> "veth", veth |-> "attach", attach |-> "move",
   move |-> "open", open |-> "address", address |-> "up", up |-> "rules"]

SetupCalls == {"forwarding", "bridge", "veth", "attach", "move", "open", "address", "up", "rules"}
InProgress == setup \in SetupCalls \cup {"limit"}

Call(c, next) == daemon = "up" /\ setup = c /\ setup' = next
SetupCall(c) == Call(c, SetupNext[c])

StartProcess ==
  /\ Me.State = "Pending"
  /\ Call("idle", "forwarding")
  /\ silo' = [silo EXCEPT ![self].State = "Running", ![self].child = "alive"]
  /\ inside' = [inside EXCEPT !.at = "read"]
  /\ UNCHANGED <<host, pool, held, link, block, daemon>>

StartProcessFails ==
  /\ Me.State = "Pending" /\ "exec" \in Faults
  /\ Call("idle", "failed")
  /\ silo' = [silo EXCEPT ![self].State = "Running"]
  /\ UNCHANGED <<host, pool, held, inside, link, block, daemon>>

\* IPv4ForwardingEnabled (for internet access only) and AttachNetBridge leave
\* nothing that the child or the rest of Start could see.
CheckOrAttach ==
  /\ SetupCall("forwarding") \/ SetupCall("attach")
  /\ UNCHANGED <<siloVars, inside, link, block, daemon>>

CreateNetBridge ==
  /\ SetupCall("bridge")
  /\ host' = [host EXCEPT !.bridge = @ \cup {self}]
  /\ UNCHANGED <<silo, pool, held, inside, link, block, daemon>>

SetLink(l) == link' = l /\ UNCHANGED <<siloVars, inside, block, daemon>>

CreateVethPair == SetupCall("veth") /\ SetLink([link EXCEPT !.at = "host"])

\* A dead child has no namespace to move the device into, or to open.
MoveVethToNamespace ==
  Me.child = "alive" /\ SetupCall("move") /\ SetLink([link EXCEPT !.at = "silo"])

\* From here on the open file keeps the namespace, whatever the child does.
NamespaceNetOpen == Me.child = "alive" /\ SetupCall("open") /\ SetLink(link)

LinkAddAddress == SetupCall("address") /\ SetLink([link EXCEPT !.addr = TRUE])
LinkSetState == SetupCall("up") /\ SetLink([link EXCEPT !.up = TRUE])

\* isSetup is set before the rule is there, and the rule may fail
AddRulesEarly ==
  /\ daemon = "up" /\ setup = "rules"
  /\ IF ~Me.isSetup
     THEN silo' = [silo EXCEPT ![self].isSetup = TRUE] /\ UNCHANGED <<host, setup>>
     ELSE /\ setup' = IF Me.limits THEN "limit" ELSE "done"
          /\ host' = [host EXCEPT !.nat = With(@, self, Me.inet)]
          /\ UNCHANGED silo
  /\ UNCHANGED <<pool, held, inside, link, block, daemon>>

\* the MASQUERADE rule, and the end of Setup
AddRules ==
  /\ Call("rules", IF Me.limits THEN "limit" ELSE "done")
  /\ host' = [host EXCEPT !.nat = With(@, self, Me.inet)]
  /\ silo' = [silo EXCEPT ![self].isSetup = TRUE]
  /\ UNCHANGED <<pool, held, inside, link, block, daemon>>

NewCGroupSet ==
  /\ Call("limit", "done")
  /\ host' = [host EXCEPT !.cgroup = @ \cup {self}]
  /\ silo' = [silo EXCEPT ![self].cgroupSet = TRUE]
  /\ UNCHANGED <<pool, held, inside, link, block, daemon>>

\* A bridge or a group may be left half made by the call that fails.
SetupFails ==
  /\ \/ setup \in SetupCalls /\ "net" \in Faults
     \/ setup \in {"move", "open"} /\ Me.child # "alive"
     \/ setup = "limit" /\ ("limit" \in Faults \/ Me.child # "alive")
  /\ Call(setup, "failed")
  /\ host' \in {[host EXCEPT !.bridge = With(@, self, self \in @ \/ (made /\ setup = "bridge")),
                             !.cgroup = With(@, self, made /\ setup = "limit")] :
                 made \in IF "limit" \in Faults \/ setup # "limit" THEN BOOLEAN ELSE {TRUE}}
  /\ UNCHANGED <<silo, pool, held, inside, link, block, daemon>>

StartStep ==
  \/ StartProcess \/ StartProcessFails
  \/ CheckOrAttach \/ CreateNetBridge \/ CreateVethPair
  \/ MoveVethToNamespace \/ NamespaceNetOpen \/ LinkAddAddress \/ LinkSetState
  \/ AddRules \/ NewCGroupSet \/ SetupFails

\* nothing tells the child
DaemonDies ==
  /\ daemon = "up" /\ daemon' = "dead"
  /\ UNCHANGED <<siloVars, setup, inside, link, block>>

(***************************************************************************)
(* isolatedMain.                                                           *)
(***************************************************************************)
MainNext ==
  [read |-> "proc", proc |-> "binds", binds |-> "rootfs", rootfs |-> "hostname",
   hostname |-> IF Me.inet THEN "wait" ELSE "lo",
   wait |-> "route", route |-> "lo", lo |-> "run"]

Inside(stage) == Me.child = "alive" /\ inside.at = stage

Advance ==
  /\ inside' = [inside EXCEPT !.at = MainNext[@]]
  /\ UNCHANGED <<siloVars, setup, block, daemon>>

ChildExits(why) ==
  /\ Exit(self)
  /\ inside' = [inside EXCEPT !.exit = why]
  /\ UNCHANGED <<setup, link, block, daemon>>

\* the steps that touch nothing outside the namespaces of the child
ChildPrepares ==
  /\ \E stage \in {"read", "proc", "binds", "rootfs", "hostname", "lo"} : Inside(stage)
  /\ Advance
  /\ UNCHANGED link

Visible == link.at = "silo" /\ link.up /\ (link.addr \/ link.linkLocal)

ChildFindsInterface ==
  Inside("wait") /\ Visible /\ inside.polls < MaxPolls /\ Advance /\ UNCHANGED link

\* the child polls for as long as it takes
ChildPollsForever ==
  /\ Inside("wait") /\ ~Visible
  /\ UNCHANGED vars

\* one poll more than there are
ChildPollsOnceMore ==
  /\ Inside("wait") /\ ~Visible /\ inside.polls <= MaxPolls
  /\ inside' = [inside EXCEPT !.polls = @ + 1]
  /\ UNCHANGED <<siloVars, setup, link, block, daemon>>

ChildPolls ==
  /\ Inside("wait") /\ ~Visible /\ inside.polls < MaxPolls
  /\ inside' = [inside EXCEPT !.polls = @ + 1]
  /\ UNCHANGED <<siloVars, setup, link, block, daemon>>

ChildTimesOut == Inside("wait") /\ inside.polls = MaxPolls /\ ChildExits("timeout")

\* route finds the gateway on a network of an interface that is up
GatewayReachable == link.at = "silo" /\ link.addr /\ link.up /\ block

ChildAddsRoute ==
  /\ Inside("route") /\ GatewayReachable
  /\ Advance
  /\ link' = [link EXCEPT !.route = TRUE]

\* the error of the command is not looked at
ChildIgnoresRouteError == Inside("route") /\ ~GatewayReachable /\ Advance /\ UNCHANGED link

ChildRouteFails == Inside("route") /\ ~GatewayReachable /\ ChildExits("route")

\* an error of the host at any step, and the end of the program
ChildGivesUp == inside.at # "run" /\ ChildExits("fault")
ProgramEnds == Inside("run") /\ ChildExits("program")
ChildDies == Die(self) /\ UNCHANGED bootVars

\* the kernel gives an interface that is up a link-local IPv6 address
LinkLocal ==
  /\ link.up /\ ~link.linkLocal
  /\ SetLink([link EXCEPT !.linkLocal = TRUE])
  /\ UNCHANGED setup

ChildStep ==
  \/ ChildPrepares \/ ChildFindsInterface \/ ChildPolls \/ ChildTimesOut
  \/ ChildAddsRoute \/ ChildRouteFails

Next ==
  \/ Prepare \/ StartStep \/ CloseBooted \/ Reap \/ DaemonDies
  \/ ChildStep \/ ChildGivesUp \/ ProgramEnds \/ ChildDies \/ LinkLocal

\* The daemon and the child run; nobody is obliged to stop a silo.
Spec ==
  /\ Init /\ [][Next]_vars
  /\ WF_vars(StartStep) /\ WF_vars(ChildStep) /\ WF_vars(ChildDies)

(***************************************************************************)
(* Properties.                                                             *)
(***************************************************************************)

\* Types of the two sides of a boot.
BootTypeOK ==
  /\ SiloTypeOK
  /\ setup \in {"idle", "limit", "done", "failed"} \cup SetupCalls
  /\ inside \in [at : {"none", "read", "proc", "binds", "rootfs", "hostname", "wait", "route",
                       "lo", "run"},
                 polls : 0..MaxPolls,
                 exit : {"none", "fault", "timeout", "route", "program"}]
  /\ link \in [at : {"none", "host", "silo"}, addr : BOOLEAN, linkLocal : BOOLEAN,
               up : BOOLEAN, route : BOOLEAN]
  /\ block \in BOOLEAN /\ daemon \in {"up", "dead"}

\* While a start is in progress module Silo still sees a silo that is Pending.
SiloBar ==
  IF InProgress
  THEN [silo EXCEPT ![self].State = "Pending", ![self].child = "none",
                    ![self].isSetup = FALSE, ![self].cgroupSet = FALSE]
  ELSE silo

HostBar ==
  IF InProgress
  THEN [host EXCEPT !.bridge = @ \ {self}, !.nat = @ \ {self}, !.cgroup = @ \ {self}]
  ELSE host

S == INSTANCE Silo WITH silo <- SiloBar, host <- HostBar

\* Start, taken apart and with the child running beside it, comes out as Start
\* or as one of the failures of module Silo: what Start reports, isSetup, the
\* group, the bridge, the rule and the process fit together at every return.
BootImplementsSilo == S!SiloSpec

\* README: "If `internet_access` is set to true, iptables MASQUERADE rules +
\* routing table entries will exist": once Start has returned without an error,
\* a program that runs has its route, its address, the bridge and the rule.
InternetWhenStarted ==
  setup = "done" /\ Me.inet /\ Inside("run") =>
    /\ link.route /\ link.addr /\ link.up
    /\ self \in host.bridge /\ self \in host.nat

\* The child adds its route only when the daemon has made it possible: of the
\* two calls it waits for it sees the second, so that the command cannot fail
\* for an interface that has an address of the kernel's and not yet its own.
RouteNeverTooEarly == inside.exit = "route" => ~block

\* A child runs its program in the end or ends, also if the daemon dies, or
\* Start fails, before the interface is there.
BootSettles == Me.child = "alive" ~> Me.child # "alive" \/ inside.at = "run"
=============================================================================
