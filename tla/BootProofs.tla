----------------------------- MODULE BootProofs -----------------------------
(***************************************************************************)
(* What module Boot promises, for every number of polls and silos, and     *)
(* that it implements module Silo.                                         *)
(*                                                                         *)
(* Neither promise is inductive.  BootInv adds how far Start is and what   *)
(* it has made so far (StartSane), and what the child may conclude from    *)
(* its own stage about the device (LinkSane): it is past "wait" only if    *)
(* the device is up, and a device that is up has its address.              *)
(***************************************************************************)
EXTENDS Boot, TLAPS

\* Silo structs whose addresses are in a set X.
Structs(X) ==
  [State : {"None", "Setup", "InternalError", "Dropped", "Pending", "Running", "Finished"},
   child : {"none", "alive", "killed", "zombie", "done", "reaped"},
   slice : X, isSetup : BOOLEAN, inet : BOOLEAN, limits : BOOLEAN, cgroupSet : BOOLEAN]

HostSets ==
  [bridge : SUBSET SiloIDs, nat : SUBSET SiloIDs, cgroup : SUBSET SiloIDs, root : SUBSET SiloIDs]

LinkType ==
  [at : {"none", "host", "silo"}, addr : BOOLEAN, linkLocal : BOOLEAN, up : BOOLEAN, route : BOOLEAN]

InsideType ==
  [at : {"none", "read", "proc", "binds", "rootfs", "hostname", "wait", "route", "lo", "run"},
   polls : Nat, exit : {"none", "fault", "timeout", "route", "program"}]

BootTypes ==
  /\ \E X : silo \in [SiloIDs -> Structs(X)]
  /\ host \in HostSets
  /\ link \in LinkType
  /\ inside \in InsideType
  /\ setup \in {"idle", "limit", "done", "failed"} \cup SetupCalls
  /\ block \in BOOLEAN

\* How far Start is, and what there is of the silo: s is its struct, c the call
\* that comes next, and br, nt, cg say what the silo has on the host.
StartFits(s, c, br, nt, cg) ==
  /\ c = "idle" => s.child = "none" /\ ~s.isSetup /\ ~s.cgroupSet /\ ~br /\ ~nt /\ ~cg
  /\ c \in SetupCalls \cup {"limit"} =>
       /\ s.State = "Running" /\ s.child \in {"alive", "zombie"} /\ ~s.cgroupSet /\ ~cg
       /\ s.isSetup <=> c = "limit"
       /\ nt <=> c = "limit" /\ s.inet
       /\ br <=> c \notin {"forwarding", "bridge"}
       /\ c = "limit" => s.limits
  /\ c \in {"done", "failed"} => s.State \in {"Running", "Finished"}
  /\ s.child = "alive" => s.State = "Running"
  /\ c = "done" /\ s.child = "alive" => br /\ (s.inet => nt)

StartSane ==
  StartFits(Me, setup, self \in host.bridge, self \in host.nat, self \in host.cgroup)

\* The link, as far as Start is and as the child relies on it.
LinkFits(l, c, in, inet) ==
  /\ c = "idle" => in.at = "none"
  /\ c \in {"open", "address", "up"} => l.at = "silo"
  /\ c = "up" => l.addr
  /\ l.up => l.at = "silo" /\ l.addr /\ c \in {"rules", "limit", "done", "failed"}
  /\ l.route => l.up
  /\ in.at = "route" => l.up
  /\ in.at \in {"lo", "run"} /\ inet => l.route
  /\ in.exit = "route" => ~block

LinkSane == LinkFits(link, setup, inside, Me.inet)

BootInv == BootTypes /\ StartSane /\ LinkSane

-----------------------------------------------------------------------------
LEMMA BootInvInit == Init => BootInv
<1> SUFFICES ASSUME Init PROVE BootInv
  OBVIOUS
<1>0. self \in SiloIDs
  BY BootAssumption
<1>1. NoStruct \in Structs({<<>>})
  BY DEF NoStruct, Structs
<1>2. silo \in [SiloIDs -> Structs({<<>>})] /\ Me = NoStruct
  BY <1>0, <1>1 DEF Init, SiloInit, Me
<1>3. /\ host \in HostSets /\ self \notin host.bridge /\ self \notin host.nat /\ self \notin host.cgroup
  BY DEF Init, SiloInit, HostSets
<1>4. link \in LinkType /\ ~link.up /\ ~link.route
  BY DEF Init, LinkType
<1>5. inside \in InsideType /\ inside.at = "none" /\ inside.exit = "none" /\ setup = "idle" /\ block \in BOOLEAN
  BY DEF Init, InsideType
<1>6. BootTypes
  BY <1>2, <1>3, <1>4, <1>5 DEF BootTypes
<1>7. StartSane
  BY <1>2, <1>3, <1>5 DEF StartSane, StartFits, SetupCalls, NoStruct
<1>8. LinkSane
  BY <1>4, <1>5 DEF LinkSane, LinkFits
<1> QED
  BY <1>6, <1>7, <1>8 DEF BootInv

\* A step that changes the struct of the silo and nothing on the network.
LEMMA StructChanges ==
  ASSUME BootInv, NEW X, silo \in [SiloIDs -> Structs(X)],
         NEW Y, NEW t \in Structs(Y), X \subseteq Y,
         silo' = [silo EXCEPT ![self] = t]
  PROVE  silo' \in [SiloIDs -> Structs(Y)] /\ Me' = t
<1>1. self \in SiloIDs
  BY BootAssumption
<1>2. Structs(X) \subseteq Structs(Y)
  BY DEF Structs
<1> QED
  BY <1>1, <1>2 DEF Me

\* A struct before Start: only what no other conjunct speaks of has changed.
LEMMA PrepareStep ==
  ASSUME BootInv, Prepare
  PROVE  BootInv'
<1>0. /\ self \in SiloIDs /\ setup = "idle"
      /\ UNCHANGED <<setup, inside, link, block, daemon>>
  BY BootAssumption DEF Prepare, bootVars
<1>1. PICK X : silo \in [SiloIDs -> Structs(X)]
  BY DEF BootInv, BootTypes
<1>2. Me \in Structs(X) /\ host \in HostSets
  BY <1>0, <1>1 DEF Me, BootInv, BootTypes
<1> DEFINE Like(t) == t.child = Me.child /\ t.isSetup = Me.isSetup /\ t.cgroupSet = Me.cgroupSet
           Changed(t) == silo' = [silo EXCEPT ![self] = t] /\ Like(t)
           SameNet == /\ host' \in HostSets
                      /\ host'.bridge = host.bridge /\ host'.nat = host.nat /\ host'.cgroup = host.cgroup
<1>3. /\ SameNet
      /\ \E Y : \E t \in Structs(Y) : X \subseteq Y /\ Changed(t)
  <2>1. CASE TakeInterface(self)
    <3> DEFINE t == [Me EXCEPT !.slice = held'[self]]
               Y == X \cup {held'[self]}
    <3>1. silo' = [silo EXCEPT ![self] = t] /\ SameNet
      BY <1>2, <2>1 DEF TakeInterface, Me
    <3>2. t \in Structs(Y) /\ X \subseteq Y /\ Like(t)
      BY <1>2 DEF Structs
    <3> HIDE DEF t, Y
    <3> QED
      BY <3>1, <3>2, Zenon
  <2>2. ASSUME NEW req \in Requests, NewSilo(self, req)
        PROVE  SameNet /\ \E t \in Structs(X) : Changed(t)
    <3> DEFINE t == [Me EXCEPT !.State = "Setup", !.inet = req.inet, !.limits = req.limits]
    <3>1. silo' = [silo EXCEPT ![self] = t]
      BY <2>2, Zenon DEF NewSilo, Me
    <3>2. SameNet
      BY <1>0, <1>2, <2>2 DEF NewSilo, HostSets, With
    <3>3. req \in [inet : BOOLEAN, limits : BOOLEAN]
      BY SiloAssumption
    <3>4. t \in Structs(X) /\ Like(t)
      BY <1>2, <3>3, Zenon DEF Structs
    <3> HIDE DEF t, SameNet
    <3> QED
      BY <3>1, <3>2, <3>4, Zenon
  <2>3. ASSUME NEW st \in {"Pending", "InternalError", "Dropped"},
               silo' = [silo EXCEPT ![self].State = st]
        PROVE  \E t \in Structs(X) : Changed(t)
    <3> DEFINE t == [Me EXCEPT !.State = st]
    <3>1. silo' = [silo EXCEPT ![self] = t]
      BY <2>3 DEF Me
    <3>2. t \in Structs(X) /\ Like(t)
      BY <1>2 DEF Structs
    <3> HIDE DEF t
    <3> QED
      BY <3>1, <3>2, Zenon
  <2>4. ASSUME UNCHANGED silo
        PROVE  \E t \in Structs(X) : Changed(t)
    <3>1. silo' = [silo EXCEPT ![self] = Me]
      BY <1>0, <1>1, <2>4 DEF Me
    <3> QED
      BY <1>2, <3>1, Zenon
  <2>5. ASSUME MakeRoot(self) \/ UNCHANGED host
        PROVE  SameNet
    BY <1>0, <1>2, <2>5 DEF MakeRoot, HostSets, With
  <2> HIDE DEF SameNet, Changed
  <2>6. (\E t \in Structs(X) : Changed(t)) => \E Y : \E t \in Structs(Y) : X \subseteq Y /\ Changed(t)
    OBVIOUS
  <2> QED
    BY <2>1, <2>2, <2>3, <2>4, <2>5, <2>6
       DEF Prepare, InitSilo, InitFails, InitFailsTempDir, InitFailsBase, InitFailsFiles,
           InitFailsInvocation, ReturnSlice, GiveSliceBack, siloVars
<1>4. PICK Y : silo' \in [SiloIDs -> Structs(Y)] /\ Like(Me')
  <2>1. PICK Y : \E t \in Structs(Y) : X \subseteq Y /\ Changed(t)
    BY <1>3, Zenon
  <2>2. PICK t \in Structs(Y) : X \subseteq Y /\ Changed(t)
    BY <2>1, Zenon
  <2> QED
    BY <1>1, <2>2, StructChanges, Zenon
<1>5. BootTypes'
  BY <1>0, <1>3, <1>4 DEF BootInv, BootTypes
<1>6. StartSane'
  <2>1. ~Me.isSetup /\ Me.child = "none" /\ ~Me.cgroupSet
        /\ self \notin host.bridge /\ self \notin host.nat /\ self \notin host.cgroup
    BY <1>0 DEF BootInv, StartSane, StartFits
  <2> QED
    BY <1>0, <1>3, <1>4, <2>1 DEF StartSane, StartFits, SetupCalls
<1>7. LinkSane'
  BY <1>0 DEF BootInv, LinkSane, LinkFits
<1> QED
  BY <1>5, <1>6, <1>7 DEF BootInv

\* The struct after a step, field by field.
Moved(st, c, su, cg) ==
  /\ \E X : silo' \in [SiloIDs -> Structs(X)]
  /\ Me'.State = st /\ Me'.child = c /\ Me'.isSetup = su /\ Me'.cgroupSet = cg
  /\ Me'.inet = Me.inet /\ Me'.limits = Me.limits

LEMMA StructMoves ==
  ASSUME BootInv,
         NEW st \in {"Pending", "Running", "Finished"},
         NEW c \in {"none", "alive", "killed", "zombie", "done", "reaped"},
         NEW su \in BOOLEAN, NEW cg \in BOOLEAN
  PROVE  /\ silo' = silo => Moved(Me.State, Me.child, Me.isSetup, Me.cgroupSet)
         /\ silo' = [silo EXCEPT ![self].child = c] => Moved(Me.State, c, Me.isSetup, Me.cgroupSet)
         /\ silo' = [silo EXCEPT ![self].State = st] => Moved(st, Me.child, Me.isSetup, Me.cgroupSet)
         /\ silo' = [silo EXCEPT ![self].State = st, ![self].child = c]
              => Moved(st, c, Me.isSetup, Me.cgroupSet)
         /\ silo' = [silo EXCEPT ![self].isSetup = su] => Moved(Me.State, Me.child, su, Me.cgroupSet)
         /\ silo' = [silo EXCEPT ![self].cgroupSet = cg] => Moved(Me.State, Me.child, Me.isSetup, cg)
<1>0. self \in SiloIDs
  BY BootAssumption
<1>1. PICK X : silo \in [SiloIDs -> Structs(X)]
  BY DEF BootInv, BootTypes
<1>2. Me \in Structs(X)
  BY <1>0, <1>1 DEF Me
<1>3. ASSUME NEW t \in Structs(X), silo' = [silo EXCEPT ![self] = t],
             t.inet = Me.inet, t.limits = Me.limits
      PROVE  Moved(t.State, t.child, t.isSetup, t.cgroupSet)
  BY <1>1, <1>3, StructChanges, Zenon DEF Moved
<1>4. ASSUME silo' = silo
      PROVE  Moved(Me.State, Me.child, Me.isSetup, Me.cgroupSet)
  BY <1>1, <1>4 DEF Moved, Me
<1>5. ASSUME silo' = [silo EXCEPT ![self].child = c]
      PROVE  Moved(Me.State, c, Me.isSetup, Me.cgroupSet)
  <2> DEFINE t == [Me EXCEPT !.child = c]
  <2>1. /\ t \in Structs(X) /\ t.State = Me.State /\ t.child = c /\ t.isSetup = Me.isSetup
        /\ t.cgroupSet = Me.cgroupSet /\ t.inet = Me.inet /\ t.limits = Me.limits
    BY <1>2 DEF Structs
  <2>2. silo' = [silo EXCEPT ![self] = t]
    BY <1>5 DEF Me
  <2> HIDE DEF t
  <2> QED
    BY <1>3, <2>1, <2>2, Zenon
<1>6. ASSUME silo' = [silo EXCEPT ![self].State = st]
      PROVE  Moved(st, Me.child, Me.isSetup, Me.cgroupSet)
  <2> DEFINE t == [Me EXCEPT !.State = st]
  <2>1. /\ t \in Structs(X) /\ t.State = st /\ t.child = Me.child /\ t.isSetup = Me.isSetup
        /\ t.cgroupSet = Me.cgroupSet /\ t.inet = Me.inet /\ t.limits = Me.limits
    BY <1>2 DEF Structs
  <2>2. silo' = [silo EXCEPT ![self] = t]
    BY <1>6 DEF Me
  <2> HIDE DEF t
  <2> QED
    BY <1>3, <2>1, <2>2, Zenon
<1>7. ASSUME silo' = [silo EXCEPT ![self].State = st, ![self].child = c]
      PROVE  Moved(st, c, Me.isSetup, Me.cgroupSet)
  <2> DEFINE t == [Me EXCEPT !.State = st, !.child = c]
  <2>1. /\ t \in Structs(X) /\ t.State = st /\ t.child = c /\ t.isSetup = Me.isSetup
        /\ t.cgroupSet = Me.cgroupSet /\ t.inet = Me.inet /\ t.limits = Me.limits
    BY <1>2, Zenon DEF Structs
  <2>2. silo' = [silo EXCEPT ![self] = t]
    BY <1>0, <1>1, <1>7, Zenon DEF Me
  <2> HIDE DEF t
  <2> QED
    BY <1>3, <2>1, <2>2, Zenon
<1>8. ASSUME silo' = [silo EXCEPT ![self].isSetup = su]
      PROVE  Moved(Me.State, Me.child, su, Me.cgroupSet)
  <2> DEFINE t == [Me EXCEPT !.isSetup = su]
  <2>1. /\ t \in Structs(X) /\ t.State = Me.State /\ t.child = Me.child /\ t.isSetup = su
        /\ t.cgroupSet = Me.cgroupSet /\ t.inet = Me.inet /\ t.limits = Me.limits
    BY <1>2 DEF Structs
  <2>2. silo' = [silo EXCEPT ![self] = t]
    BY <1>8 DEF Me
  <2> HIDE DEF t
  <2> QED
    BY <1>3, <2>1, <2>2, Zenon
<1>9. ASSUME silo' = [silo EXCEPT ![self].cgroupSet = cg]
      PROVE  Moved(Me.State, Me.child, Me.isSetup, cg)
  <2> DEFINE t == [Me EXCEPT !.cgroupSet = cg]
  <2>1. /\ t \in Structs(X) /\ t.State = Me.State /\ t.child = Me.child /\ t.isSetup = Me.isSetup
        /\ t.cgroupSet = cg /\ t.inet = Me.inet /\ t.limits = Me.limits
    BY <1>2 DEF Structs
  <2>2. silo' = [silo EXCEPT ![self] = t]
    BY <1>9 DEF Me
  <2> HIDE DEF t
  <2> QED
    BY <1>3, <2>1, <2>2, Zenon
<1> QED
  BY <1>4, <1>5, <1>6, <1>7, <1>8, <1>9

\* Close: either the silo and its part of the network stay, or it is Finished
\* and its process is not alive any more.
LEMMA CloseBootedStep ==
  ASSUME BootInv, CloseBooted
  PROVE  BootInv'
<1>0. /\ self \in SiloIDs /\ Returned /\ UNCHANGED <<setup, inside, link, block, daemon>>
      /\ host \in HostSets
  BY BootAssumption DEF CloseBooted, bootVars, BootInv, BootTypes
<1>1. PICK err \in DOMAIN CloseStep : Close(self, err)
  BY DEF CloseBooted
<1>2. CloseStep[err] \in Nat
  BY DEF CloseStep
<1> DEFINE Past(step) == HasProcess(Me) /\ step < CloseStep[err]
<1>3. /\ silo' = IF Past(1) THEN [silo EXCEPT ![self].State = "Finished", ![self].child = Killed(@)]
                 ELSE silo
      /\ host' \in HostSets
      /\ ~Past(1) => (self \in host'.bridge <=> self \in host.bridge) /\ (self \in host'.nat <=> self \in host.nat)
  <2>1. silo' = IF Past(1) THEN [silo EXCEPT ![self].State = "Finished", ![self].child = Killed(@)]
                ELSE silo
    BY <1>1 DEF Close, Me
  <2>2. PICK left \in CGroupLeft(Me) :
          host' = [host EXCEPT
            !.nat    = With(@, self, self \in @ /\ ~(Past(2) /\ Me.isSetup /\ Me.inet)),
            !.bridge = With(@, self, self \in @ /\ ~(Past(3) /\ Me.isSetup)),
            !.cgroup = With(@, self, self \in @ /\ ~(Past(5) /\ Me.cgroupSet /\ ~left)),
            !.root   = With(@, self, self \in @ /\ ~(CloseStep["root"] < CloseStep[err]))]
    BY <1>1, Zenon DEF Close, Me
  <2>3. ~Past(1) => ~Past(2) /\ ~Past(3)
    BY <1>2
  <2>4. ASSUME NEW X \in SUBSET SiloIDs, NEW b
        PROVE  With(X, self, b) \in SUBSET SiloIDs /\ (self \in With(X, self, b) <=> b)
    BY <1>0 DEF With
  <2> HIDE DEF Past
  <2>5. /\ host'.bridge = With(host.bridge, self, self \in host.bridge /\ ~(Past(3) /\ Me.isSetup))
        /\ host'.nat = With(host.nat, self, self \in host.nat /\ ~(Past(2) /\ Me.isSetup /\ Me.inet))
    BY <1>0, <2>2 DEF HostSets
  <2>6. host' \in HostSets
    <3> DEFINE n == With(host.nat, self, self \in host.nat /\ ~(Past(2) /\ Me.isSetup /\ Me.inet))
               b == With(host.bridge, self, self \in host.bridge /\ ~(Past(3) /\ Me.isSetup))
               g == With(host.cgroup, self,
                         self \in host.cgroup /\ ~(Past(5) /\ Me.cgroupSet /\ ~left))
               r == With(host.root, self, self \in host.root /\ ~(CloseStep["root"] < CloseStep[err]))
    <3>1. n \in SUBSET SiloIDs /\ b \in SUBSET SiloIDs /\ g \in SUBSET SiloIDs /\ r \in SUBSET SiloIDs
      BY <1>0 DEF HostSets, With
    <3>2. host' = [host EXCEPT !.nat = n, !.bridge = b, !.cgroup = g, !.root = r]
      BY <2>2, Zenon
    <3> HIDE DEF n, b, g, r
    <3> QED
      BY <1>0, <3>1, <3>2, Zenon DEF HostSets
  <2>7. host.bridge \in SUBSET SiloIDs /\ host.nat \in SUBSET SiloIDs
    BY <1>0 DEF HostSets
  <2> QED
    BY <2>1, <2>3, <2>4, <2>5, <2>6, <2>7, Zenon
<1>4. \/ /\ Moved(Me.State, Me.child, Me.isSetup, Me.cgroupSet)
         /\ self \in host'.bridge <=> self \in host.bridge
         /\ self \in host'.nat <=> self \in host.nat
      \/ \E c \in {"none", "killed", "zombie", "done", "reaped"} :
           Moved("Finished", c, Me.isSetup, Me.cgroupSet)
  <2>1. CASE Past(1)
    <3>1. Killed(Me.child) \in {"none", "killed", "zombie", "done", "reaped"}
      BY <1>0 DEF Killed, BootInv, BootTypes, Structs, Me
    <3>2. silo' = [silo EXCEPT ![self].State = "Finished", ![self].child = Killed(Me.child)]
      BY <1>0, <1>3, <2>1 DEF Me, BootInv, BootTypes, Structs
    <3> QED
      BY <3>1, <3>2, StructMoves, Zenon
  <2>2. CASE ~Past(1)
    BY <1>3, <2>2, StructMoves, Zenon
  <2> QED
    BY <2>1, <2>2
<1>5. BootTypes'
  BY <1>0, <1>3, <1>4 DEF BootInv, BootTypes, Moved
<1>6. Me'.inet = Me.inet
  BY <1>4 DEF Moved
<1>7. StartSane'
  BY <1>0, <1>4 DEF BootInv, StartSane, StartFits, Moved, Returned, SetupCalls
<1>8. LinkSane'
  BY <1>0, <1>6 DEF BootInv, LinkSane, LinkFits
<1> QED
  BY <1>5, <1>7, <1>8 DEF BootInv

-----------------------------------------------------------------------------
\* The calls of Start.
LEMMA StartCalls ==
  ASSUME BootInv, StartStep
  PROVE  BootInv'
<1>0. self \in SiloIDs /\ BootTypes /\ host \in HostSets /\ link \in LinkType /\ inside \in InsideType
  BY BootAssumption DEF BootInv, BootTypes
<1>1. CASE StartProcess
  <2>1. Moved("Running", "alive", Me.isSetup, Me.cgroupSet)
    BY <1>0, <1>1, StructMoves, Zenon DEF StartProcess, siloVars, Call
  <2>2. host' = host
    BY <1>0, <1>1 DEF StartProcess, siloVars, HostSets, With, Call
  <2>3. /\ link' = link /\ block' = block
        /\ inside' \in InsideType /\ inside'.at = "read" /\ inside'.exit = inside.exit
    BY <1>0, <1>1 DEF StartProcess, LinkType, InsideType, Call
  <2>4. setup = "idle" /\ setup' = "forwarding"
    BY <1>0, <1>1 DEF StartProcess, Call
  <2>5. BootTypes'
    BY <1>0, <2>1, <2>2, <2>3, <2>4 DEF BootTypes, Moved, SetupCalls
  <2>6. StartSane'
    BY <1>0, <2>1, <2>2, <2>4 DEF BootInv, StartSane, StartFits, Moved, SetupCalls
  <2>7. LinkSane'
    BY <1>0, <2>1, <2>3, <2>4, Zenon DEF BootInv, LinkSane, LinkFits, Moved
  <2> QED
    BY <2>5, <2>6, <2>7 DEF BootInv
<1>2. CASE StartProcessFails
  <2>1. Moved("Running", Me.child, Me.isSetup, Me.cgroupSet)
    BY <1>0, <1>2, StructMoves, Zenon DEF StartProcessFails, siloVars, Call
  <2>2. host' = host
    BY <1>0, <1>2 DEF StartProcessFails, siloVars, HostSets, With, Call
  <2>3. link' = link /\ inside' = inside /\ block' = block
    BY <1>0, <1>2 DEF StartProcessFails, LinkType, InsideType, Call
  <2>4. setup = "idle" /\ setup' = "failed"
    BY <1>0, <1>2 DEF StartProcessFails, Call
  <2>5. BootTypes'
    BY <1>0, <2>1, <2>2, <2>3, <2>4 DEF BootTypes, Moved, SetupCalls
  <2>6. StartSane'
    BY <1>0, <2>1, <2>2, <2>4 DEF BootInv, StartSane, StartFits, Moved, SetupCalls
  <2>7. LinkSane'
    BY <1>0, <2>1, <2>3, <2>4, Zenon DEF BootInv, LinkSane, LinkFits, Moved
  <2> QED
    BY <2>5, <2>6, <2>7 DEF BootInv
<1>3. CASE CheckOrAttach
  <2>1. Moved(Me.State, Me.child, Me.isSetup, Me.cgroupSet)
    BY <1>0, <1>3, StructMoves, Zenon DEF CheckOrAttach, siloVars, Call, SetupCall, SetupNext
  <2>2. host' = host
    BY <1>0, <1>3 DEF CheckOrAttach, siloVars, HostSets, With, Call, SetupCall, SetupNext
  <2>3. link' = link /\ inside' = inside /\ block' = block
    BY <1>0, <1>3 DEF CheckOrAttach, LinkType, InsideType, Call, SetupCall, SetupNext
  <2>4. \/ setup = "forwarding" /\ setup' = "bridge"
        \/ setup = "attach" /\ setup' = "move"
    BY <1>0, <1>3 DEF CheckOrAttach, Call, SetupCall, SetupNext
  <2>5. BootTypes'
    BY <1>0, <2>1, <2>2, <2>3, <2>4 DEF BootTypes, Moved, SetupCalls
  <2>6. StartSane'
    BY <1>0, <2>1, <2>2, <2>4 DEF BootInv, StartSane, StartFits, Moved, SetupCalls
  <2>7. LinkSane'
    BY <1>0, <2>1, <2>3, <2>4, Zenon DEF BootInv, LinkSane, LinkFits, Moved
  <2> QED
    BY <2>5, <2>6, <2>7 DEF BootInv
<1>4. CASE CreateNetBridge
  <2>1. Moved(Me.State, Me.child, Me.isSetup, Me.cgroupSet)
    BY <1>0, <1>4, StructMoves, Zenon DEF CreateNetBridge, siloVars, Call, SetupCall, SetupNext
  <2>2. /\ host' \in HostSets /\ self \in host'.bridge
        /\ host'.nat = host.nat /\ host'.cgroup = host.cgroup
    BY <1>0, <1>4 DEF CreateNetBridge, siloVars, HostSets, With, Call, SetupCall, SetupNext
  <2>3. link' = link /\ inside' = inside /\ block' = block
    BY <1>0, <1>4 DEF CreateNetBridge, LinkType, InsideType, Call, SetupCall, SetupNext
  <2>4. setup = "bridge" /\ setup' = "veth"
    BY <1>0, <1>4 DEF CreateNetBridge, Call, SetupCall, SetupNext
  <2>5. BootTypes'
    BY <1>0, <2>1, <2>2, <2>3, <2>4 DEF BootTypes, Moved, SetupCalls
  <2>6. StartSane'
    BY <1>0, <2>1, <2>2, <2>4 DEF BootInv, StartSane, StartFits, Moved, SetupCalls
  <2>7. LinkSane'
    BY <1>0, <2>1, <2>3, <2>4, Zenon DEF BootInv, LinkSane, LinkFits, Moved
  <2> QED
    BY <2>5, <2>6, <2>7 DEF BootInv
<1>5. CASE CreateVethPair
  <2>1. Moved(Me.State, Me.child, Me.isSetup, Me.cgroupSet)
    BY <1>0, <1>5, StructMoves, Zenon DEF CreateVethPair, siloVars, Call, SetupCall, SetupNext, SetLink
  <2>2. host' = host
    BY <1>0, <1>5 DEF CreateVethPair, siloVars, HostSets, With, Call, SetupCall, SetupNext, SetLink
  <2>3. /\ link' \in LinkType /\ link'.at = "host" /\ link'.addr = link.addr /\ link'.linkLocal = link.linkLocal /\ link'.up = link.up /\ link'.route = link.route
        /\ inside' = inside /\ block' = block
    BY <1>0, <1>5 DEF CreateVethPair, LinkType, InsideType, Call, SetupCall, SetupNext, SetLink
  <2>4. setup = "veth" /\ setup' = "attach"
    BY <1>0, <1>5 DEF CreateVethPair, Call, SetupCall, SetupNext, SetLink
  <2>5. BootTypes'
    BY <1>0, <2>1, <2>2, <2>3, <2>4 DEF BootTypes, Moved, SetupCalls
  <2>6. StartSane'
    BY <1>0, <2>1, <2>2, <2>4 DEF BootInv, StartSane, StartFits, Moved, SetupCalls
  <2>7. LinkSane'
    BY <1>0, <2>1, <2>3, <2>4, Zenon DEF BootInv, LinkSane, LinkFits, Moved
  <2> QED
    BY <2>5, <2>6, <2>7 DEF BootInv
<1>6. CASE MoveVethToNamespace
  <2>1. Moved(Me.State, Me.child, Me.isSetup, Me.cgroupSet)
    BY <1>0, <1>6, StructMoves, Zenon DEF MoveVethToNamespace, siloVars, Call, SetupCall, SetupNext, SetLink
  <2>2. host' = host
    BY <1>0, <1>6 DEF MoveVethToNamespace, siloVars, HostSets, With, Call, SetupCall, SetupNext, SetLink
  <2>3. /\ link' \in LinkType /\ link'.at = "silo" /\ link'.addr = link.addr /\ link'.linkLocal = link.linkLocal /\ link'.up = link.up /\ link'.route = link.route
        /\ inside' = inside /\ block' = block
    BY <1>0, <1>6 DEF MoveVethToNamespace, LinkType, InsideType, Call, SetupCall, SetupNext, SetLink
  <2>4. setup = "move" /\ setup' = "open"
    BY <1>0, <1>6 DEF MoveVethToNamespace, Call, SetupCall, SetupNext, SetLink
  <2>5. BootTypes'
    BY <1>0, <2>1, <2>2, <2>3, <2>4 DEF BootTypes, Moved, SetupCalls
  <2>6. StartSane'
    BY <1>0, <2>1, <2>2, <2>4 DEF BootInv, StartSane, StartFits, Moved, SetupCalls
  <2>7. LinkSane'
    BY <1>0, <2>1, <2>3, <2>4, Zenon DEF BootInv, LinkSane, LinkFits, Moved
  <2> QED
    BY <2>5, <2>6, <2>7 DEF BootInv
<1>7. CASE NamespaceNetOpen
  <2>1. Moved(Me.State, Me.child, Me.isSetup, Me.cgroupSet)
    BY <1>0, <1>7, StructMoves, Zenon DEF NamespaceNetOpen, siloVars, Call, SetupCall, SetupNext, SetLink
  <2>2. host' = host
    BY <1>0, <1>7 DEF NamespaceNetOpen, siloVars, HostSets, With, Call, SetupCall, SetupNext, SetLink
  <2>3. link' = link /\ inside' = inside /\ block' = block
    BY <1>0, <1>7 DEF NamespaceNetOpen, LinkType, InsideType, Call, SetupCall, SetupNext, SetLink
  <2>4. setup = "open" /\ setup' = "address"
    BY <1>0, <1>7 DEF NamespaceNetOpen, Call, SetupCall, SetupNext, SetLink
  <2>5. BootTypes'
    BY <1>0, <2>1, <2>2, <2>3, <2>4 DEF BootTypes, Moved, SetupCalls
  <2>6. StartSane'
    BY <1>0, <2>1, <2>2, <2>4 DEF BootInv, StartSane, StartFits, Moved, SetupCalls
  <2>7. LinkSane'
    BY <1>0, <2>1, <2>3, <2>4, Zenon DEF BootInv, LinkSane, LinkFits, Moved
  <2> QED
    BY <2>5, <2>6, <2>7 DEF BootInv
<1>8. CASE LinkAddAddress
  <2>1. Moved(Me.State, Me.child, Me.isSetup, Me.cgroupSet)
    BY <1>0, <1>8, StructMoves, Zenon DEF LinkAddAddress, siloVars, Call, SetupCall, SetupNext, SetLink
  <2>2. host' = host
    BY <1>0, <1>8 DEF LinkAddAddress, siloVars, HostSets, With, Call, SetupCall, SetupNext, SetLink
  <2>3. /\ link' \in LinkType /\ link'.at = link.at /\ link'.addr = TRUE /\ link'.linkLocal = link.linkLocal /\ link'.up = link.up /\ link'.route = link.route
        /\ inside' = inside /\ block' = block
    BY <1>0, <1>8, Zenon DEF LinkAddAddress, LinkType, InsideType, Call, SetupCall, SetupNext, SetLink
  <2>4. setup = "address" /\ setup' = "up"
    BY <1>0, <1>8 DEF LinkAddAddress, Call, SetupCall, SetupNext, SetLink
  <2>5. BootTypes'
    BY <1>0, <2>1, <2>2, <2>3, <2>4 DEF BootTypes, Moved, SetupCalls
  <2>6. StartSane'
    BY <1>0, <2>1, <2>2, <2>4 DEF BootInv, StartSane, StartFits, Moved, SetupCalls
  <2>7. LinkSane'
    BY <1>0, <2>1, <2>3, <2>4, Zenon DEF BootInv, LinkSane, LinkFits, Moved
  <2> QED
    BY <2>5, <2>6, <2>7 DEF BootInv
<1>9. CASE LinkSetState
  <2>1. Moved(Me.State, Me.child, Me.isSetup, Me.cgroupSet)
    BY <1>0, <1>9, StructMoves, Zenon DEF LinkSetState, siloVars, Call, SetupCall, SetupNext, SetLink
  <2>2. host' = host
    BY <1>0, <1>9 DEF LinkSetState, siloVars, HostSets, With, Call, SetupCall, SetupNext, SetLink
  <2>3. /\ link' \in LinkType /\ link'.at = link.at /\ link'.addr = link.addr /\ link'.linkLocal = link.linkLocal /\ link'.up = TRUE /\ link'.route = link.route
        /\ inside' = inside /\ block' = block
    BY <1>0, <1>9, Zenon DEF LinkSetState, LinkType, InsideType, Call, SetupCall, SetupNext, SetLink
  <2>4. setup = "up" /\ setup' = "rules"
    BY <1>0, <1>9 DEF LinkSetState, Call, SetupCall, SetupNext, SetLink
  <2>5. BootTypes'
    BY <1>0, <2>1, <2>2, <2>3, <2>4 DEF BootTypes, Moved, SetupCalls
  <2>6. StartSane'
    BY <1>0, <2>1, <2>2, <2>4 DEF BootInv, StartSane, StartFits, Moved, SetupCalls
  <2>7. LinkSane'
    BY <1>0, <2>1, <2>3, <2>4, Zenon DEF BootInv, LinkSane, LinkFits, Moved
  <2> QED
    BY <2>5, <2>6, <2>7 DEF BootInv
<1>10. CASE AddRules
  <2>1. Moved(Me.State, Me.child, TRUE, Me.cgroupSet)
    BY <1>0, <1>10, StructMoves, Zenon DEF AddRules, siloVars, Call
  <2>2. /\ host' \in HostSets /\ host'.bridge = host.bridge /\ host'.cgroup = host.cgroup
        /\ self \in host'.nat <=> Me.inet
    BY <1>0, <1>10 DEF AddRules, siloVars, HostSets, With, Call
  <2>3. link' = link /\ inside' = inside /\ block' = block
    BY <1>0, <1>10 DEF AddRules, LinkType, InsideType, Call
  <2>4. setup = "rules" /\ setup' = IF Me.limits THEN "limit" ELSE "done"
    BY <1>0, <1>10 DEF AddRules, Call
  <2>5. BootTypes'
    BY <1>0, <2>1, <2>2, <2>3, <2>4 DEF BootTypes, Moved, SetupCalls
  <2>6. StartSane'
    BY <1>0, <2>1, <2>2, <2>4 DEF BootInv, StartSane, StartFits, Moved, SetupCalls
  <2>7. LinkSane'
    BY <1>0, <2>1, <2>3, <2>4, Zenon DEF BootInv, LinkSane, LinkFits, Moved
  <2> QED
    BY <2>5, <2>6, <2>7 DEF BootInv
<1>11. CASE NewCGroupSet
  <2>1. Moved(Me.State, Me.child, Me.isSetup, TRUE)
    BY <1>0, <1>11, StructMoves, Zenon DEF NewCGroupSet, siloVars, Call
  <2>2. /\ host' \in HostSets /\ host'.bridge = host.bridge /\ host'.nat = host.nat
    BY <1>0, <1>11 DEF NewCGroupSet, siloVars, HostSets, With, Call
  <2>3. link' = link /\ inside' = inside /\ block' = block
    BY <1>0, <1>11 DEF NewCGroupSet, LinkType, InsideType, Call
  <2>4. setup = "limit" /\ setup' = "done"
    BY <1>0, <1>11 DEF NewCGroupSet, Call
  <2>5. BootTypes'
    BY <1>0, <2>1, <2>2, <2>3, <2>4 DEF BootTypes, Moved, SetupCalls
  <2>6. StartSane'
    BY <1>0, <2>1, <2>2, <2>4 DEF BootInv, StartSane, StartFits, Moved, SetupCalls
  <2>7. LinkSane'
    BY <1>0, <2>1, <2>3, <2>4, Zenon DEF BootInv, LinkSane, LinkFits, Moved
  <2> QED
    BY <2>5, <2>6, <2>7 DEF BootInv
<1>12. CASE SetupFails
  <2>1. Moved(Me.State, Me.child, Me.isSetup, Me.cgroupSet)
    BY <1>0, <1>12, StructMoves, Zenon DEF SetupFails, siloVars, Call, SetupCalls
  <2>2. host' \in HostSets
    <3>1. PICK made \in BOOLEAN :
            host' = [host EXCEPT !.bridge = With(@, self, self \in @ \/ (made /\ setup = "bridge")),
                                 !.cgroup = With(@, self, made /\ setup = "limit")]
      BY <1>12, Zenon DEF SetupFails
    <3>2. ASSUME NEW X \in SUBSET SiloIDs, NEW b
          PROVE  With(X, self, b) \in SUBSET SiloIDs
      BY <1>0 DEF With
    <3> QED
      BY <1>0, <3>1, <3>2, Zenon DEF HostSets
  <2>3. link' = link /\ inside' = inside /\ block' = block
    BY <1>0, <1>12, Zenon DEF SetupFails, LinkType, InsideType, Call, SetupCalls
  <2>4. setup \in SetupCalls \cup {"limit"} /\ setup' = "failed"
    BY <1>0, <1>12, Zenon DEF SetupFails, Call, SetupCalls
  <2>5. BootTypes'
    BY <1>0, <2>1, <2>2, <2>3, <2>4 DEF BootTypes, Moved, SetupCalls
  <2>6. StartSane'
    BY <1>0, <2>1, <2>2, <2>4 DEF BootInv, StartSane, StartFits, Moved, SetupCalls
  <2>7. LinkSane'
    BY <1>0, <2>1, <2>3, <2>4, Zenon DEF BootInv, LinkSane, LinkFits, Moved
  <2> QED
    BY <2>5, <2>6, <2>7 DEF BootInv
<1> QED
  BY <1>1, <1>2, <1>3, <1>4, <1>5, <1>6, <1>7, <1>8, <1>9, <1>10, <1>11, <1>12 DEF StartStep

\* The child, the kernel and the end of the daemon.
LEMMA ChildSteps ==
  ASSUME BootInv,
         \/ ChildStep \/ ChildGivesUp \/ ProgramEnds \/ ChildDies \/ LinkLocal
         \/ Reap \/ DaemonDies
  PROVE  BootInv'
<1>0. self \in SiloIDs /\ BootTypes /\ host \in HostSets /\ link \in LinkType /\ inside \in InsideType
  BY BootAssumption DEF BootInv, BootTypes
<1>1. CASE ChildPrepares
  <2>1. Moved(Me.State, Me.child, Me.isSetup, Me.cgroupSet) /\ UNCHANGED <<host, setup, block>>
    BY <1>0, <1>1, StructMoves, Zenon DEF ChildPrepares, siloVars, Advance, MainNext, Inside
  <2>2. /\ link' = link /\ inside' \in InsideType /\ inside'.exit = inside.exit
        /\ inside'.at \in {"proc", "binds", "rootfs", "hostname", "wait", "lo", "run"}
        /\ inside'.at = "lo" => ~Me.inet
        /\ inside'.at = "run" => inside.at = "lo"
    BY <1>0, <1>1 DEF ChildPrepares, LinkType, InsideType, Advance, MainNext, Inside
  <2>3. BootTypes'
    BY <1>0, <2>1, <2>2 DEF BootTypes, Moved
  <2>4. StartSane'
    BY <1>0, <2>1 DEF BootInv, StartSane, StartFits, Moved, SetupCalls
  <2>5. LinkSane'
    BY <1>0, <1>1, <2>1, <2>2 DEF BootInv, LinkSane, LinkFits, Moved, ChildPrepares, Advance, MainNext, Inside
  <2> QED
    BY <2>3, <2>4, <2>5 DEF BootInv
<1>2. CASE ChildFindsInterface
  <2>1. Moved(Me.State, Me.child, Me.isSetup, Me.cgroupSet) /\ UNCHANGED <<host, setup, block>>
    BY <1>0, <1>2, StructMoves, Zenon DEF ChildFindsInterface, siloVars, Advance, MainNext, Inside, Visible
  <2>2. /\ link' = link /\ inside' \in InsideType /\ inside'.exit = inside.exit
        /\ inside'.at = "route" /\ link.up
    BY <1>0, <1>2 DEF ChildFindsInterface, LinkType, InsideType, Advance, MainNext, Inside, Visible
  <2>3. BootTypes'
    BY <1>0, <2>1, <2>2 DEF BootTypes, Moved
  <2>4. StartSane'
    BY <1>0, <2>1 DEF BootInv, StartSane, StartFits, Moved, SetupCalls
  <2>5. LinkSane'
    BY <1>0, <1>2, <2>1, <2>2 DEF BootInv, LinkSane, LinkFits, Moved, ChildFindsInterface, Advance, MainNext, Inside, Visible
  <2> QED
    BY <2>3, <2>4, <2>5 DEF BootInv
<1>3. CASE ChildPolls
  <2>1. Moved(Me.State, Me.child, Me.isSetup, Me.cgroupSet) /\ UNCHANGED <<host, setup, block>>
    BY <1>0, <1>3, StructMoves, Zenon DEF ChildPolls, siloVars, Inside
  <2>2. /\ link' = link /\ inside' \in InsideType /\ inside'.exit = inside.exit
        /\ inside'.at = inside.at
    BY <1>0, <1>3 DEF ChildPolls, LinkType, InsideType, Inside
  <2>3. BootTypes'
    BY <1>0, <2>1, <2>2 DEF BootTypes, Moved
  <2>4. StartSane'
    BY <1>0, <2>1 DEF BootInv, StartSane, StartFits, Moved, SetupCalls
  <2>5. LinkSane'
    BY <1>0, <1>3, <2>1, <2>2 DEF BootInv, LinkSane, LinkFits, Moved, ChildPolls, Inside
  <2> QED
    BY <2>3, <2>4, <2>5 DEF BootInv
<1>4. CASE ChildTimesOut
  <2>1. Moved(Me.State, "zombie", Me.isSetup, Me.cgroupSet) /\ UNCHANGED <<host, setup, block>>
        /\ Me.child = "alive"
    BY <1>0, <1>4, StructMoves, Zenon DEF ChildTimesOut, siloVars, ChildExits, Exit, SetChild, Inside, Me
  <2>2. /\ link' = link /\ inside' \in InsideType /\ inside'.at = inside.at /\ inside'.exit = "timeout"
    BY <1>0, <1>4 DEF ChildTimesOut, LinkType, InsideType, ChildExits, Exit, SetChild, Inside, Me
  <2>3. BootTypes'
    BY <1>0, <2>1, <2>2 DEF BootTypes, Moved
  <2>4. StartSane'
    BY <1>0, <2>1 DEF BootInv, StartSane, StartFits, Moved, SetupCalls
  <2>5. LinkSane'
    BY <1>0, <1>4, <2>1, <2>2 DEF BootInv, LinkSane, LinkFits, Moved, ChildTimesOut, ChildExits, Exit, SetChild, Inside, Me
  <2> QED
    BY <2>3, <2>4, <2>5 DEF BootInv
<1>5. CASE ChildAddsRoute
  <2>1. Moved(Me.State, Me.child, Me.isSetup, Me.cgroupSet) /\ UNCHANGED <<host, setup, block>>
    BY <1>0, <1>5, StructMoves, Zenon DEF ChildAddsRoute, siloVars, Advance, MainNext, Inside
  <2>2. /\ inside.at = "route" /\ inside' \in InsideType /\ inside'.exit = inside.exit /\ inside'.at = "lo"
        /\ link' \in LinkType /\ link'.at = link.at /\ link'.addr = link.addr /\ link'.up = link.up /\ link'.route
    <3>1. inside.at = "route" /\ inside' = [inside EXCEPT !.at = "lo"] /\ link' = [link EXCEPT !.route = TRUE]
      BY <1>0, <1>5 DEF ChildAddsRoute, Advance, MainNext, Inside, InsideType
    <3> QED
      BY <1>0, <3>1, Zenon DEF LinkType, InsideType
  <2>3. BootTypes'
    BY <1>0, <2>1, <2>2 DEF BootTypes, Moved
  <2>4. StartSane'
    BY <1>0, <2>1 DEF BootInv, StartSane, StartFits, Moved, SetupCalls
  <2>5. LinkSane'
    BY <1>0, <1>5, <2>1, <2>2 DEF BootInv, LinkSane, LinkFits, Moved, ChildAddsRoute, Advance, MainNext, Inside
  <2> QED
    BY <2>3, <2>4, <2>5 DEF BootInv
<1>6. CASE ChildRouteFails
  <2>1. Moved(Me.State, "zombie", Me.isSetup, Me.cgroupSet) /\ UNCHANGED <<host, setup, block>>
        /\ Me.child = "alive"
    BY <1>0, <1>6, StructMoves, Zenon DEF ChildRouteFails, siloVars, ChildExits, Exit, SetChild, Inside, Me, GatewayReachable
  <2>2. /\ link' = link /\ inside' \in InsideType /\ inside'.at = inside.at /\ inside.at = "route" /\ inside'.exit = "route"
        /\ ~(link.at = "silo" /\ link.addr /\ link.up /\ block)
    BY <1>0, <1>6 DEF ChildRouteFails, LinkType, InsideType, ChildExits, Exit, SetChild, Inside, Me, GatewayReachable
  <2>3. BootTypes'
    BY <1>0, <2>1, <2>2 DEF BootTypes, Moved
  <2>4. StartSane'
    BY <1>0, <2>1 DEF BootInv, StartSane, StartFits, Moved, SetupCalls
  <2>5. LinkSane'
    BY <1>0, <1>6, <2>1, <2>2 DEF BootInv, LinkSane, LinkFits, Moved, ChildRouteFails, ChildExits, Exit, SetChild, Inside, Me, GatewayReachable
  <2> QED
    BY <2>3, <2>4, <2>5 DEF BootInv
<1>7. CASE ChildGivesUp
  <2>1. Moved(Me.State, "zombie", Me.isSetup, Me.cgroupSet) /\ UNCHANGED <<host, setup, block>>
        /\ Me.child = "alive"
    BY <1>0, <1>7, StructMoves, Zenon DEF ChildGivesUp, siloVars, ChildExits, Exit, SetChild, Inside, Me
  <2>2. /\ link' = link /\ inside' \in InsideType /\ inside'.at = inside.at /\ inside'.exit = "fault"
    BY <1>0, <1>7 DEF ChildGivesUp, LinkType, InsideType, ChildExits, Exit, SetChild, Inside, Me
  <2>3. BootTypes'
    BY <1>0, <2>1, <2>2 DEF BootTypes, Moved
  <2>4. StartSane'
    BY <1>0, <2>1 DEF BootInv, StartSane, StartFits, Moved, SetupCalls
  <2>5. LinkSane'
    BY <1>0, <1>7, <2>1, <2>2 DEF BootInv, LinkSane, LinkFits, Moved, ChildGivesUp, ChildExits, Exit, SetChild, Inside, Me
  <2> QED
    BY <2>3, <2>4, <2>5 DEF BootInv
<1>8. CASE ProgramEnds
  <2>1. Moved(Me.State, "zombie", Me.isSetup, Me.cgroupSet) /\ UNCHANGED <<host, setup, block>>
        /\ Me.child = "alive"
    BY <1>0, <1>8, StructMoves, Zenon DEF ProgramEnds, siloVars, ChildExits, Exit, SetChild, Inside, Me
  <2>2. /\ link' = link /\ inside' \in InsideType /\ inside'.at = inside.at /\ inside'.exit = "program"
    BY <1>0, <1>8 DEF ProgramEnds, LinkType, InsideType, ChildExits, Exit, SetChild, Inside, Me
  <2>3. BootTypes'
    BY <1>0, <2>1, <2>2 DEF BootTypes, Moved
  <2>4. StartSane'
    BY <1>0, <2>1 DEF BootInv, StartSane, StartFits, Moved, SetupCalls
  <2>5. LinkSane'
    BY <1>0, <1>8, <2>1, <2>2 DEF BootInv, LinkSane, LinkFits, Moved, ProgramEnds, ChildExits, Exit, SetChild, Inside, Me
  <2> QED
    BY <2>3, <2>4, <2>5 DEF BootInv
<1>9. CASE ChildDies
  <2>1. Moved(Me.State, "zombie", Me.isSetup, Me.cgroupSet) /\ UNCHANGED <<host, setup, block>>
        /\ Me.child = "killed"
    BY <1>0, <1>9, StructMoves, Zenon DEF ChildDies, siloVars, Die, SetChild, bootVars, Me
  <2>2. link' = link /\ inside' = inside
    BY <1>0, <1>9 DEF ChildDies, LinkType, InsideType, Die, SetChild, bootVars, Me
  <2>3. BootTypes'
    BY <1>0, <2>1, <2>2 DEF BootTypes, Moved
  <2>4. StartSane'
    BY <1>0, <2>1 DEF BootInv, StartSane, StartFits, Moved, SetupCalls
  <2>5. LinkSane'
    BY <1>0, <1>9, <2>1, <2>2 DEF BootInv, LinkSane, LinkFits, Moved, ChildDies, Die, SetChild, bootVars, Me
  <2> QED
    BY <2>3, <2>4, <2>5 DEF BootInv
<1>10. CASE LinkLocal
  <2>1. Moved(Me.State, Me.child, Me.isSetup, Me.cgroupSet) /\ UNCHANGED <<host, setup, block>>
    BY <1>0, <1>10, StructMoves, Zenon DEF LinkLocal, siloVars, SetLink
  <2>2. /\ inside' = inside /\ link' \in LinkType /\ link'.at = link.at /\ link'.addr = link.addr
        /\ link'.up = link.up /\ link'.route = link.route
    BY <1>0, <1>10, Zenon DEF LinkLocal, LinkType, InsideType, SetLink
  <2>3. BootTypes'
    BY <1>0, <2>1, <2>2 DEF BootTypes, Moved
  <2>4. StartSane'
    BY <1>0, <2>1 DEF BootInv, StartSane, StartFits, Moved, SetupCalls
  <2>5. LinkSane'
    BY <1>0, <1>10, <2>1, <2>2 DEF BootInv, LinkSane, LinkFits, Moved, LinkLocal, SetLink
  <2> QED
    BY <2>3, <2>4, <2>5 DEF BootInv
<1>11. CASE DaemonDies
  <2>1. Moved(Me.State, Me.child, Me.isSetup, Me.cgroupSet) /\ UNCHANGED <<host, setup, block>>
    BY <1>0, <1>11, StructMoves, Zenon DEF DaemonDies, siloVars
  <2>2. link' = link /\ inside' = inside
    BY <1>0, <1>11 DEF DaemonDies, LinkType, InsideType
  <2>3. BootTypes'
    BY <1>0, <2>1, <2>2 DEF BootTypes, Moved
  <2>4. StartSane'
    BY <1>0, <2>1 DEF BootInv, StartSane, StartFits, Moved, SetupCalls
  <2>5. LinkSane'
    BY <1>0, <1>11, <2>1, <2>2 DEF BootInv, LinkSane, LinkFits, Moved, DaemonDies
  <2> QED
    BY <2>3, <2>4, <2>5 DEF BootInv
<1>12. CASE Reap
  <2>1. PICK c \in {"done", "reaped"} : Moved(Me.State, c, Me.isSetup, Me.cgroupSet) /\ UNCHANGED host
    BY <1>0, <1>12, StructMoves, Zenon DEF Reap, WaitDone, WaitReap, SetChild, Me
  <2>2. UNCHANGED <<setup, link, inside, block>> /\ Returned
    BY <1>12 DEF Reap, bootVars
  <2>3. BootTypes'
    BY <1>0, <2>1, <2>2 DEF BootTypes, Moved
  <2>4. StartSane'
    BY <1>0, <2>1, <2>2 DEF BootInv, StartSane, StartFits, Moved, SetupCalls, Returned
  <2>5. LinkSane'
    BY <1>0, <2>1, <2>2, Zenon DEF BootInv, LinkSane, LinkFits, Moved
  <2> QED
    BY <2>3, <2>4, <2>5 DEF BootInv
<1> QED
  BY <1>1, <1>2, <1>3, <1>4, <1>5, <1>6, <1>7, <1>8, <1>9, <1>10, <1>11, <1>12 DEF ChildStep

LEMMA BootInvStep ==
  ASSUME BootInv, [Next]_vars
  PROVE  BootInv'
<1>1. CASE UNCHANGED vars
  <2>1. UNCHANGED <<silo, host, setup, link, inside, block>>
    BY <1>1 DEF vars, bootVars, siloVars
  <2>2. BootTypes'
    BY <2>1 DEF BootInv, BootTypes
  <2>3. StartSane' /\ LinkSane'
    BY <2>1, Zenon DEF BootInv, StartSane, LinkSane, StartFits, LinkFits, Me
  <2> QED
    BY <2>2, <2>3 DEF BootInv
<1> QED
  BY <1>1, PrepareStep, CloseBootedStep, StartCalls, ChildSteps DEF Next

-----------------------------------------------------------------------------
\* The invariant holds throughout: at every call of Start (controller.go,
\* interfaces.go) and every stage of isolatedMain (reexec.go) struct, host,
\* link and child fit together.
THEOREM BootInvariant == Spec => []BootInv
<1>1. BootInv /\ [Next]_vars => BootInv'
  BY BootInvStep
<1> QED
  BY <1>1, BootInvInit, PTL DEF Spec

\* The route command of the child never runs before the daemon has given the
\* interface its address, for every number of polls and silos.
THEOREM RoutesInTime == Spec => []RouteNeverTooEarly
<1>1. BootInv => RouteNeverTooEarly
  BY DEF BootInv, LinkSane, LinkFits, RouteNeverTooEarly
<1> QED
  BY <1>1, BootInvariant, PTL

\* A program that runs after Start has returned without an error has what
\* internet_access promises: route, address, bridge and MASQUERADE rule.
THEOREM StartedSilosReachTheNet == Spec => []InternetWhenStarted
<1>1. BootInv => InternetWhenStarted
  BY DEF BootInv, StartSane, StartFits, LinkSane, LinkFits, InternetWhenStarted, Inside
<1> QED
  BY <1>1, BootInvariant, PTL

-----------------------------------------------------------------------------
(***************************************************************************)
(* Module Boot implements module Silo.  The calls of Start and the exit of *)
(* a child meanwhile are hidden (Hidden), the call at which Start returns  *)
(* is Start or one of its failures (StartCallsMap), and every other step   *)
(* is the step of Silo itself (PlainSteps).                                *)
(***************************************************************************)
\* The struct and the host as records of their fields.
Struct(st, c, sl, su, inet, lim, cg) ==
  [State |-> st, child |-> c, slice |-> sl, isSetup |-> su, inet |-> inet, limits |-> lim,
   cgroupSet |-> cg]

Waiting(r) == Struct("Pending", "none", r.slice, FALSE, r.inet, r.limits, FALSE)

\* Updates of several fields, and what they come to.
Set2(r, st, c) == [r EXCEPT !.State = st, !.child = c]
Set3(r, st, c, su) == [r EXCEPT !.State = st, !.child = c, !.isSetup = su]
Set4(r, st, c, su, cg) == [r EXCEPT !.State = st, !.child = c, !.isSetup = su, !.cgroupSet = cg]

LEMMA StructUpdates ==
  ASSUME NEW X, NEW r \in Structs(X), NEW st, NEW c, NEW su, NEW cg
  PROVE  /\ Set2(r, st, c) = Struct(st, c, r.slice, r.isSetup, r.inet, r.limits, r.cgroupSet)
         /\ Set3(r, st, c, su) = Struct(st, c, r.slice, su, r.inet, r.limits, r.cgroupSet)
         /\ Set4(r, st, c, su, cg) = Struct(st, c, r.slice, su, r.inet, r.limits, cg)
<1> DEFINE r1 == [r EXCEPT !.State = st]
           r2 == [r1 EXCEPT !.child = c]
           r3 == [r2 EXCEPT !.isSetup = su]
           r4 == [r3 EXCEPT !.cgroupSet = cg]
<1>1. Set2(r, st, c) = r2 /\ Set3(r, st, c, su) = r3 /\ Set4(r, st, c, su, cg) = r4
  BY DEF Set2, Set3, Set4
<1>2. r1 = Struct(st, r.child, r.slice, r.isSetup, r.inet, r.limits, r.cgroupSet)
  BY DEF Structs, Struct
<1> HIDE DEF r1
<1>3. r2 = Struct(st, c, r.slice, r.isSetup, r.inet, r.limits, r.cgroupSet)
  BY <1>2 DEF Struct
<1> HIDE DEF r2
<1>4. r3 = Struct(st, c, r.slice, su, r.inet, r.limits, r.cgroupSet)
  BY <1>3 DEF Struct
<1> HIDE DEF r3
<1>5. r4 = Struct(st, c, r.slice, su, r.inet, r.limits, cg)
  BY <1>4 DEF Struct
<1> HIDE DEF r4
<1> QED
  BY <1>1, <1>3, <1>4, <1>5

HostRec(b, n, g, r) == [bridge |-> b, nat |-> n, cgroup |-> g, root |-> r]

SetHost(h, b, n, g) == [[h EXCEPT !.bridge = b, !.nat = n] EXCEPT !.cgroup = g]
SetBridge(h, b) == [h EXCEPT !.bridge = b]

LEMMA HostUpdates ==
  ASSUME NEW h, NEW b, NEW n, NEW g, NEW r, h = HostRec(b, n, g, r), NEW x, NEW y, NEW z
  PROVE  /\ h.bridge = b /\ h.nat = n /\ h.cgroup = g
         /\ SetBridge(h, x) = HostRec(x, n, g, r)
         /\ SetHost(h, x, y, z) = HostRec(x, y, z, r)
<1> DEFINE h1 == [h EXCEPT !.bridge = x]
           h2 == [h1 EXCEPT !.nat = y]
           h3 == [h2 EXCEPT !.cgroup = z]
<1>1. SetBridge(h, x) = h1 /\ SetHost(h, x, y, z) = h3
  BY DEF SetBridge, SetHost
<1>2. h1 = HostRec(x, n, g, r)
  BY DEF HostRec
<1> HIDE DEF h1
<1>3. h2 = HostRec(x, y, g, r)
  BY <1>2 DEF HostRec
<1> HIDE DEF h2
<1>4. h3 = HostRec(x, y, z, r)
  BY <1>3 DEF HostRec
<1> HIDE DEF h3
<1>5. h.bridge = b /\ h.nat = n /\ h.cgroup = g
  BY DEF HostRec
<1> QED
  BY <1>1, <1>2, <1>4, <1>5

LEMMA WaitingForm ==
  ASSUME NEW X, NEW r \in Structs(X)
  PROVE  [r EXCEPT !.State = "Pending", !.child = "none", !.isSetup = FALSE, !.cgroupSet = FALSE] =
           Waiting(r)
<1>1. Set4(r, "Pending", "none", FALSE, FALSE) = Waiting(r)
  BY StructUpdates, Zenon DEF Waiting
<1> QED
  BY <1>1, Zenon DEF Set4

LEMMA BarsOff ==
  /\ ~InProgress => SiloBar = silo /\ HostBar = host
  /\ ~InProgress' => SiloBar' = silo' /\ HostBar' = host'
BY DEF SiloBar, HostBar

LEMMA BarsOn ==
  ASSUME BootTypes, InProgress
  PROVE  /\ SiloBar = [silo EXCEPT ![self] = Waiting(Me)]
         /\ HostBar = [bridge |-> host.bridge \ {self}, nat |-> host.nat \ {self},
                       cgroup |-> host.cgroup \ {self}, root |-> host.root]
<1>0. self \in SiloIDs /\ host \in HostSets
  BY BootAssumption DEF BootTypes
<1>1. PICK X : silo \in [SiloIDs -> Structs(X)]
  BY DEF BootTypes
<1>2. Me \in Structs(X)
  BY <1>0, <1>1 DEF Me
<1>3. SiloBar = [silo EXCEPT ![self] = [Me EXCEPT !.State = "Pending", !.child = "none",
                                                  !.isSetup = FALSE, !.cgroupSet = FALSE]]
  BY <1>0, <1>1, Zenon DEF SiloBar, Me
<1>4. HostBar = [bridge |-> host.bridge \ {self}, nat |-> host.nat \ {self},
                 cgroup |-> host.cgroup \ {self}, root |-> host.root]
  BY <1>0, Zenon DEF HostBar, HostSets
<1> QED
  BY <1>2, <1>3, <1>4, WaitingForm, Zenon

\* The same in the next state.
LEMMA BarsOnNext ==
  ASSUME BootTypes', InProgress'
  PROVE  /\ SiloBar' = [silo' EXCEPT ![self] = Waiting(Me')]
         /\ HostBar' = [bridge |-> host'.bridge \ {self}, nat |-> host'.nat \ {self},
                       cgroup |-> host'.cgroup \ {self}, root |-> host'.root]
<1>0. self \in SiloIDs /\ host' \in HostSets
  BY BootAssumption DEF BootTypes
<1>1. PICK X : silo' \in [SiloIDs -> Structs(X)]
  BY DEF BootTypes
<1>2. Me' \in Structs(X)
  BY <1>0, <1>1 DEF Me
<1>3. SiloBar' = [silo' EXCEPT ![self] = [Me' EXCEPT !.State = "Pending", !.child = "none",
                                                  !.isSetup = FALSE, !.cgroupSet = FALSE]]
  BY <1>0, <1>1, Zenon DEF SiloBar, Me
<1>4. HostBar' = [bridge |-> host'.bridge \ {self}, nat |-> host'.nat \ {self},
                 cgroup |-> host'.cgroup \ {self}, root |-> host'.root]
  BY <1>0, Zenon DEF HostBar, HostSets
<1> QED
  BY <1>2, <1>3, <1>4, WaitingForm, Zenon

\* A step that neither begins nor ends a start, and changes nothing but what
\* the bars hide, is none of module Silo.
LEMMA Hidden ==
  ASSUME BootTypes, BootTypes', UNCHANGED <<pool, held>>,
         \/ InProgress /\ InProgress'
         \/ ~InProgress /\ ~InProgress' /\ UNCHANGED <<silo, host>>,
         \A j \in SiloIDs \ {self} : silo'[j] = silo[j],
         Me'.slice = Me.slice, Me'.inet = Me.inet, Me'.limits = Me.limits,
         host'.bridge \ {self} = host.bridge \ {self}, host'.nat \ {self} = host.nat \ {self},
         host'.cgroup \ {self} = host.cgroup \ {self}, host'.root = host.root
  PROVE  UNCHANGED S!siloVars
<1>0. self \in SiloIDs
  BY BootAssumption
<1>1. CASE InProgress /\ InProgress'
  <2>1. Waiting(Me') = Waiting(Me)
    BY DEF Waiting
  <2>2. PICK X : silo \in [SiloIDs -> Structs(X)]
    BY DEF BootTypes
  <2>3. PICK Y : silo' \in [SiloIDs -> Structs(Y)]
    BY DEF BootTypes
  <2>4. [silo' EXCEPT ![self] = Waiting(Me)] = [silo EXCEPT ![self] = Waiting(Me)]
    BY <1>0, <2>2, <2>3, Zenon
  <2> QED
    BY <1>1, <2>1, <2>4, BarsOn, BarsOnNext, Zenon DEF S!siloVars
<1>2. CASE ~InProgress /\ ~InProgress' /\ UNCHANGED <<silo, host>>
  BY <1>2, BarsOff DEF S!siloVars
<1> QED
  BY <1>1, <1>2

\* What Close leaves of the host and of the struct.
ClosedHost(h, n, b, g, r, left) ==
  [h EXCEPT !.nat    = With(@, self, self \in @ /\ ~n),
            !.bridge = With(@, self, self \in @ /\ ~b),
            !.cgroup = With(@, self, self \in @ /\ ~(g /\ ~left)),
            !.root   = With(@, self, self \in @ /\ ~r)]

ClosedSilo(f, p, c) == IF p THEN [f EXCEPT ![self].State = "Finished", ![self].child = c] ELSE f

\* Steps outside of a start are the steps of module Silo themselves.
LEMMA PlainSteps ==
  ASSUME BootInv, ~InProgress, ~InProgress',
         \/ Prepare \/ StartProcessFails \/ CloseBooted \/ Reap
         \/ Exit(self) \/ Die(self)
  PROVE  S!SiloNext
<1>0. self \in SiloIDs
  BY BootAssumption
<1>1. SiloBar = silo /\ HostBar = host /\ SiloBar' = silo' /\ HostBar' = host'
  BY BarsOff
<1>2. CASE Exit(self) \/ Die(self) \/ WaitDone(self) \/ WaitReap(self)
  BY <1>0, <1>1, <1>2
     DEF S!SiloNext, S!Exit, S!Die, S!WaitDone, S!WaitReap, S!SetChild,
         Exit, Die, WaitDone, WaitReap, SetChild
<1>3. CASE StartProcessFails
  <2>1. S!StartFailsExec(self)
    BY <1>1, <1>3 DEF StartProcessFails, S!StartFailsExec, Me
  <2> QED
    BY <1>0, <2>1 DEF S!SiloNext, S!StartFails
<1>4. CASE TakeInterface(self)
  <2>1. S!IPInterface(pool) = IPInterface(pool)
    <3>1. \A p : S!getNextFromPool(p) = getNextFromPool(p)
      BY DEF S!getNextFromPool, getNextFromPool, S!InSubnet, InSubnet
    <3>2. \A p : S!Assignment(p) = Assignment(p)
      BY <3>1 DEF S!Assignment, Assignment
    <3>3. \A p, ips : S!FreeAssignment(p, ips) = FreeAssignment(p, ips)
      BY DEF S!FreeAssignment, FreeAssignment
    <3> QED
      BY <3>2, <3>3, Zenon DEF S!IPInterface, IPInterface
  <2>2. S!TakeInterface(self)
    BY <1>1, <1>4, <2>1 DEF TakeInterface, S!TakeInterface, PoolAlloc, S!PoolAlloc
  <2> QED
    BY <1>0, <2>2 DEF S!SiloNext
<1>5. ASSUME NEW req \in Requests, NewSilo(self, req)
      PROVE  S!SiloNext
  <2>1. S!NewSilo(self, req)
    BY <1>1, <1>5, Zenon DEF NewSilo, S!NewSilo, With, S!With, poolVars, S!poolVars
  <2> QED
    BY <1>0, <2>1 DEF S!SiloNext
<1>6. CASE InitSilo(self) \/ InitFails(self)
  <2>1. S!InitSilo(self) \/ S!InitFails(self)
    BY <1>1, <1>6 DEF InitSilo, S!InitSilo, HasRoot, S!HasRoot, MakeRoot, S!MakeRoot, With, S!With,
       poolVars, S!poolVars, InitFails, S!InitFails, InitFailsTempDir, S!InitFailsTempDir,
       InitFailsBase, S!InitFailsBase, InitFailsFiles, S!InitFailsFiles,
       InitFailsInvocation, S!InitFailsInvocation, siloVars, S!siloVars
  <2> QED
    BY <1>0, <2>1 DEF S!SiloNext
<1>7. CASE ReturnSlice(self)
  <2>1. S!ReturnSlice(self)
    BY <1>1, <1>7 DEF ReturnSlice, S!ReturnSlice, GiveSliceBack, S!GiveSliceBack,
                      FreeAssignment, S!FreeAssignment
  <2> QED
    BY <1>0, <2>1 DEF S!SiloNext
<1>8. CASE CloseBooted
  <2>1. PICK err \in DOMAIN CloseStep : Close(self, err)
    BY <1>8 DEF CloseBooted
  <2>2. Me.State # "None"
    BY <1>8 DEF CloseBooted, BootInv, StartSane, StartFits, Returned
  <2>3. err \in DOMAIN S!CloseStep
    BY DEF CloseStep, S!CloseStep
  <2>4. S!Close(self, err)
    <3>1. \A s : S!HasProcess(s) = HasProcess(s)
      BY DEF HasProcess, S!HasProcess
    <3>2. \A s : S!CloseErrors(s) = CloseErrors(s)
      BY <3>1, Zenon DEF CloseErrors, S!CloseErrors
    <3>3. \A s : S!CGroupLeft(s) = CGroupLeft(s)
      BY DEF CGroupLeft, S!CGroupLeft
    <3>4. \A c : S!Killed(c) = Killed(c)
      BY DEF Killed, S!Killed
    <3>5. \A p, ips : S!FreeAssignment(p, ips) = FreeAssignment(p, ips)
      BY DEF S!FreeAssignment, FreeAssignment
    <3>6. S!CloseStep = CloseStep /\ S!FreeStep = FreeStep
      BY DEF S!CloseStep, CloseStep, S!FreeStep, FreeStep
    <3> DEFINE s == silo[self]
               t == SiloBar[self]
               n == (HasProcess(s) /\ 2 < CloseStep[err]) /\ s.isSetup /\ s.inet
               b == (HasProcess(s) /\ 3 < CloseStep[err]) /\ s.isSetup
               g == (HasProcess(s) /\ 5 < CloseStep[err]) /\ s.cgroupSet
               r == CloseStep["root"] < CloseStep[err]
               nBar == (S!HasProcess(t) /\ 2 < S!CloseStep[err]) /\ t.isSetup /\ t.inet
               bBar == (S!HasProcess(t) /\ 3 < S!CloseStep[err]) /\ t.isSetup
               gBar == (S!HasProcess(t) /\ 5 < S!CloseStep[err]) /\ t.cgroupSet
               rBar == S!CloseStep["root"] < S!CloseStep[err]
    <3>7. t = s /\ S!HasProcess(t) = HasProcess(s)
      BY <1>1, <3>1
    <3>8. nBar = n /\ bBar = b /\ gBar = g /\ rBar = r
      BY <3>6, <3>7
    <3>9. PICK left \in CGroupLeft(s) : host' = ClosedHost(host, n, b, g, r, left)
      BY <2>1, Zenon DEF Close, ClosedHost
    <3>10. err \in S!CloseErrors(t) /\ left \in S!CGroupLeft(t)
      BY <2>1, <3>2, <3>3, <3>7, <3>9 DEF Close
    <3>11. HostBar' = ClosedHost(HostBar, nBar, bBar, gBar, rBar, left)
      <4> HIDE DEF n, b, g, r, nBar, bBar, gBar, rBar
      <4> QED
        BY <1>1, <3>8, <3>9
    <3>12. SiloBar' = IF S!HasProcess(t) /\ 1 < S!CloseStep[err]
                      THEN [SiloBar EXCEPT ![self].State = "Finished", ![self].child = S!Killed(@)]
                      ELSE SiloBar
      <4> DEFINE p == HasProcess(s) /\ 1 < CloseStep[err]
                 pBar == S!HasProcess(t) /\ 1 < S!CloseStep[err]
      <4>1. pBar = p /\ S!Killed(SiloBar[self].child) = Killed(silo[self].child)
        BY <3>4, <3>6, <3>7
      <4>2. silo' = ClosedSilo(silo, p, Killed(silo[self].child))
        BY <2>1, Zenon DEF Close, ClosedSilo
      <4>3. SiloBar' = ClosedSilo(SiloBar, pBar, S!Killed(SiloBar[self].child))
        <5> HIDE DEF p, pBar
        <5> QED
          BY <1>1, <4>1, <4>2
      <4> QED
        BY <4>3, Zenon DEF ClosedSilo
    <3>13. /\ pool' = IF S!HasProcess(t) /\ S!FreeStep < S!CloseStep[err]
                      THEN S!FreeAssignment(pool, t.slice) ELSE pool
           /\ held' = IF S!HasProcess(t) /\ S!FreeStep < S!CloseStep[err]
                      THEN [held EXCEPT ![self] = <<>>] ELSE held
      BY <2>1, <3>5, <3>6, <3>7 DEF Close
    <3> QED
      BY <3>10, <3>11, <3>12, <3>13, Zenon DEF S!Close, ClosedHost, With, S!With
  <2> QED
    BY <1>0, <1>1, <2>2, <2>3, <2>4 DEF S!SiloNext, Me
<1> QED
  BY <1>2, <1>3, <1>4, <1>5, <1>6, <1>7, <1>8 DEF Prepare, Reap

\* A start that returns: what it leaves of the struct, and of the host.
Ret2(f, c) == [f EXCEPT ![self].State = "Running", ![self].child = c]
Ret3(f, c, su) == [f EXCEPT ![self].State = "Running", ![self].child = c, ![self].isSetup = su]
Ret4(f, c, su, cg) ==
  [f EXCEPT ![self].State = "Running", ![self].child = c, ![self].isSetup = su,
            ![self].cgroupSet = cg]

LEMMA SiloReturns ==
  ASSUME BootTypes, BootTypes', InProgress, ~InProgress', NEW c, NEW su, NEW cg,
         \A j \in SiloIDs \ {self} : silo'[j] = silo[j],
         Me' = Struct("Running", c, Me.slice, su, Me.inet, Me.limits, cg)
  PROVE  /\ SiloBar[self] = Waiting(Me)
         /\ SiloBar' = Ret4(SiloBar, c, su, cg)
         /\ cg = FALSE => SiloBar' = Ret3(SiloBar, c, su)
         /\ cg = FALSE /\ su = FALSE =>
              SiloBar' = Ret2(SiloBar, c)
<1>0. self \in SiloIDs
  BY BootAssumption
<1>1. PICK X : silo \in [SiloIDs -> Structs(X)]
  BY DEF BootTypes
<1>2. PICK Y : silo' \in [SiloIDs -> Structs(Y)]
  BY DEF BootTypes
<1>3. SiloBar = [silo EXCEPT ![self] = Waiting(Me)] /\ SiloBar' = silo'
  BY BarsOn, BarsOff
<1>4. SiloBar[self] = Waiting(Me) /\ SiloBar' = [SiloBar EXCEPT ![self] = Me']
  BY <1>0, <1>1, <1>2, <1>3, Zenon DEF Me
<1>5. Waiting(Me) \in Structs(X)
  BY <1>0, <1>1 DEF Waiting, Struct, Structs, Me
<1> DEFINE w == Waiting(Me)
<1>6. /\ w.slice = Me.slice /\ w.inet = Me.inet /\ w.limits = Me.limits
      /\ w.isSetup = FALSE /\ w.cgroupSet = FALSE
  BY DEF Waiting, Struct
<1>7. /\ Ret4(SiloBar, c, su, cg) =
           [SiloBar EXCEPT ![self] = Set4(w, "Running", c, su, cg)]
      /\ Ret3(SiloBar, c, su) =
           [SiloBar EXCEPT ![self] = Set3(w, "Running", c, su)]
      /\ Ret2(SiloBar, c) =
           [SiloBar EXCEPT ![self] = Set2(w, "Running", c)]
  BY <1>0, <1>1, <1>3, <1>4, Zenon DEF Set2, Set3, Set4, Ret2, Ret3, Ret4
<1> HIDE DEF w
<1>8. /\ Set4(w, "Running", c, su, cg) = Struct("Running", c, w.slice, su, w.inet, w.limits, cg)
      /\ Set3(w, "Running", c, su) = Struct("Running", c, w.slice, su, w.inet, w.limits, w.cgroupSet)
      /\ Set2(w, "Running", c) =
           Struct("Running", c, w.slice, w.isSetup, w.inet, w.limits, w.cgroupSet)
  BY <1>5, StructUpdates, SMTT(20) DEF w
<1> QED
  BY <1>4, <1>6, <1>7, <1>8, Zenon DEF w

LEMMA HostReturns ==
  ASSUME BootTypes, BootTypes', InProgress, ~InProgress', NEW inet \in BOOLEAN, NEW lim \in BOOLEAN,
         NEW made \in BOOLEAN,
         host'.bridge \ {self} = host.bridge \ {self}, host'.nat \ {self} = host.nat \ {self},
         host'.cgroup \ {self} = host.cgroup \ {self}, host'.root = host.root
  PROVE  /\ self \in host'.bridge /\ (self \in host'.nat <=> inet) /\ (self \in host'.cgroup <=> lim) =>
              HostBar' = [S!InterfaceUp(HostBar, self, inet) EXCEPT !.cgroup = S!With(@, self, lim)]
         /\ self \notin host'.nat /\ self \notin host'.cgroup /\ (self \in host'.bridge <=> made) =>
              HostBar' = [HostBar EXCEPT !.bridge = S!With(@, self, made)]
<1>0. host' \in HostSets /\ host \in HostSets
  BY DEF BootTypes
<1> DEFINE b == host.bridge \ {self}
           n == host.nat \ {self}
           g == host.cgroup \ {self}
<1>1. HostBar = HostRec(b, n, g, host.root) /\ HostBar' = host'
  BY BarsOn, BarsOff DEF HostRec
<1>2. host' = HostRec(host'.bridge, host'.nat, host'.cgroup, host'.root)
  BY <1>0 DEF HostSets, HostRec
<1>3. /\ self \in host'.bridge => host'.bridge = S!With(b, self, TRUE)
      /\ (self \in host'.bridge <=> made) => host'.bridge = S!With(b, self, made)
      /\ (self \in host'.nat <=> inet) => host'.nat = S!With(n, self, inet)
      /\ (self \in host'.cgroup <=> lim) => host'.cgroup = S!With(g, self, lim)
      /\ self \notin host'.nat => host'.nat = n
      /\ self \notin host'.cgroup => host'.cgroup = g
  BY DEF S!With
<1> HIDE DEF b, n, g
<1>4. HostBar.bridge = b /\ HostBar.nat = n /\ HostBar.cgroup = g
  BY <1>1, HostUpdates
<1>5. SetBridge(HostBar, S!With(b, self, made)) = HostRec(S!With(b, self, made), n, g, host.root)
  BY <1>1, HostUpdates
<1>6. SetHost(HostBar, S!With(b, self, TRUE), S!With(n, self, inet), S!With(g, self, lim)) =
        HostRec(S!With(b, self, TRUE), S!With(n, self, inet), S!With(g, self, lim), host.root)
  <2> DEFINE x == S!With(b, self, TRUE)
             y == S!With(n, self, inet)
             z == S!With(g, self, lim)
  <2> HIDE DEF x, y, z
  <2>1. SetHost(HostBar, x, y, z) = HostRec(x, y, z, host.root)
    BY <1>1, HostUpdates
  <2> QED
    BY <2>1, Zenon DEF x, y, z
<1>7. [HostBar EXCEPT !.bridge = S!With(@, self, made)] = SetBridge(HostBar, S!With(b, self, made))
  BY <1>4 DEF SetBridge
<1>8. [S!InterfaceUp(HostBar, self, inet) EXCEPT !.cgroup = S!With(@, self, lim)] =
        SetHost(HostBar, S!With(b, self, TRUE), S!With(n, self, inet), S!With(g, self, lim))
  BY <1>1, <1>4 DEF SetHost, S!InterfaceUp, HostRec
<1> QED
  BY <1>1, <1>2, <1>3, <1>5, <1>6, <1>7, <1>8, Zenon

\* The calls of Start: all but the last are hidden, the last is Start or one of
\* its failures.
LEMMA StartCallsMap ==
  ASSUME BootInv, BootInv', StartStep
  PROVE  S!SiloNext \/ UNCHANGED S!siloVars
<1>0. /\ self \in SiloIDs /\ BootTypes /\ BootTypes' /\ host \in HostSets
      /\ \E X : silo \in [SiloIDs -> Structs(X)]
  BY BootAssumption DEF BootInv, BootTypes
<1>a. PICK X : silo \in [SiloIDs -> Structs(X)]
  BY <1>0
<1>b. Me \in Structs(X)
  BY <1>0, <1>a DEF Me
<1>1. CASE StartProcess
  <2>1. setup = "idle" /\ setup' = "forwarding" /\ Me.State = "Pending" /\ host' = host
        /\ pool' = pool /\ held' = held
        /\ silo' = [silo EXCEPT ![self].State = "Running", ![self].child = "alive"]
    BY <1>1 DEF StartProcess, Call
  <2>2. ~InProgress /\ InProgress'
    BY <2>1 DEF InProgress, SetupCalls
  <2>3. /\ Me.child = "none" /\ ~Me.isSetup /\ ~Me.cgroupSet
        /\ self \notin host.bridge /\ self \notin host.nat /\ self \notin host.cgroup
    BY <2>1 DEF BootInv, StartSane, StartFits
  <2>4. Me = Waiting(Me)
    BY <1>b, <2>1, <2>3 DEF Structs, Waiting, Struct
  <2>5. Me'.slice = Me.slice /\ Me'.inet = Me.inet /\ Me'.limits = Me.limits
        /\ \A j \in SiloIDs \ {self} : silo'[j] = silo[j]
    BY <1>0, <1>a, <1>b, <2>1 DEF Me, Structs
  <2>6. Waiting(Me') = Waiting(Me)
    BY <2>5 DEF Waiting
  <2>7. PICK Y : silo' \in [SiloIDs -> Structs(Y)]
    BY <1>0 DEF BootTypes
  <2>8. [silo' EXCEPT ![self] = Waiting(Me')] = silo
    BY <1>0, <1>a, <2>4, <2>5, <2>6, <2>7 DEF Me
  <2>9. host = [bridge |-> host.bridge \ {self}, nat |-> host.nat \ {self},
                cgroup |-> host.cgroup \ {self}, root |-> host.root]
    BY <1>0, <2>3 DEF HostSets
  <2> QED
    BY <1>0, <2>1, <2>2, <2>8, <2>9, BarsOff, BarsOnNext, Zenon DEF S!siloVars
<1>2. CASE StartProcessFails
  <2>1. ~InProgress /\ ~InProgress'
    BY <1>2 DEF StartProcessFails, Call, InProgress, SetupCalls
  <2> QED
    BY <1>2, <2>1, PlainSteps
<1>3. CASE CheckOrAttach \/ CreateVethPair \/ MoveVethToNamespace \/ NamespaceNetOpen
           \/ LinkAddAddress \/ LinkSetState
  <2>1. UNCHANGED siloVars /\ InProgress /\ InProgress'
    BY <1>3 DEF CheckOrAttach, CreateVethPair, MoveVethToNamespace, NamespaceNetOpen, LinkAddAddress,
                LinkSetState, SetLink, SetupCall, Call, SetupNext, InProgress, SetupCalls
  <2> QED
    BY <1>0, <2>1, Hidden DEF siloVars, Me
<1>4. CASE CreateNetBridge
  <2>1. UNCHANGED <<silo, pool, held>> /\ InProgress /\ InProgress'
    BY <1>4 DEF CreateNetBridge, SetupCall, Call, SetupNext, InProgress, SetupCalls
  <2>2. /\ host'.bridge = host.bridge \cup {self} /\ host'.nat = host.nat
        /\ host'.cgroup = host.cgroup /\ host'.root = host.root
    BY <1>0, <1>4 DEF CreateNetBridge, HostSets
  <2> QED
    BY <1>0, <2>1, <2>2, Hidden DEF Me
<1>5. CASE AddRules
  <2>1. /\ setup = "rules" /\ setup' = (IF Me.limits THEN "limit" ELSE "done") /\ pool' = pool
        /\ held' = held /\ silo' = [silo EXCEPT ![self].isSetup = TRUE]
    BY <1>5 DEF AddRules, Call
  <2>2. /\ host'.nat = With(host.nat, self, Me.inet) /\ host'.bridge = host.bridge
        /\ host'.cgroup = host.cgroup /\ host'.root = host.root
    BY <1>0, <1>5 DEF AddRules, HostSets
  <2>3. Me' = [Me EXCEPT !.isSetup = TRUE] /\ \A j \in SiloIDs \ {self} : silo'[j] = silo[j]
    BY <1>0, <1>a, <2>1 DEF Me
  <2>4. /\ Me'.State = Me.State /\ Me'.child = Me.child /\ Me'.slice = Me.slice /\ Me'.isSetup = TRUE
        /\ Me'.inet = Me.inet /\ Me'.limits = Me.limits /\ Me'.cgroupSet = Me.cgroupSet
    BY <1>b, <2>3 DEF Structs
  <2>5. /\ Me.State = "Running" /\ Me.child \in {"alive", "zombie"} /\ Me.cgroupSet = FALSE
        /\ self \in host.bridge /\ self \notin host.cgroup
    BY <1>b, <2>1 DEF BootInv, StartSane, StartFits, SetupCalls, Structs
  <2>6. InProgress /\ (~Me.limits => ~InProgress') /\ (Me.limits => InProgress')
    BY <2>1 DEF InProgress, SetupCalls
  <2>7. /\ host'.nat \ {self} = host.nat \ {self}
        /\ self \in host'.nat <=> Me.inet
    BY <2>2 DEF With
  <2>8. CASE Me.limits
    BY <1>0, <2>1, <2>2, <2>3, <2>4, <2>6, <2>7, <2>8, Hidden
  <2>9. CASE ~Me.limits
    <3>1. PICK Y : Me' \in Structs(Y)
      BY <1>0 DEF BootTypes, Me
    <3>2. Me.limits = FALSE /\ Me.inet \in BOOLEAN
      BY <1>b, <2>9 DEF Structs
    <3>3. Me' = Struct("Running", Me.child, Me.slice, TRUE, Me.inet, Me.limits, FALSE)
      BY <2>4, <2>5, <3>1 DEF Structs, Struct
    <3>4. /\ SiloBar[self] = Waiting(Me)
          /\ SiloBar' = Ret4(SiloBar, Me.child, TRUE, FALSE)
      BY <1>0, <2>3, <2>6, <2>9, <3>3, SiloReturns, Zenon
    <3>5. HostBar' = [S!InterfaceUp(HostBar, self, Me.inet) EXCEPT !.cgroup = S!With(@, self, FALSE)]
      BY <1>0, <2>2, <2>5, <2>6, <2>7, <2>9, <3>2, HostReturns, Zenon
    <3>6. SiloBar[self].State = "Pending" /\ SiloBar[self].limits = FALSE /\ SiloBar[self].inet = Me.inet
      BY <3>2, <3>4, SMTT(20) DEF Waiting, Struct
    <3>7. S!Start(self)
      BY <2>1, <2>5, <3>4, <3>5, <3>6, Zenon DEF S!Start, S!poolVars, Ret4
    <3> QED
      BY <1>0, <3>7 DEF S!SiloNext
  <2> QED
    BY <2>8, <2>9
<1>6. CASE NewCGroupSet
  <2>1. /\ setup = "limit" /\ setup' = "done" /\ pool' = pool
        /\ held' = held /\ silo' = [silo EXCEPT ![self].cgroupSet = TRUE]
    BY <1>6 DEF NewCGroupSet, Call
  <2>2. /\ host'.cgroup = host.cgroup \cup {self} /\ host'.bridge = host.bridge
        /\ host'.nat = host.nat /\ host'.root = host.root
    BY <1>0, <1>6 DEF NewCGroupSet, HostSets
  <2>3. Me' = [Me EXCEPT !.cgroupSet = TRUE] /\ \A j \in SiloIDs \ {self} : silo'[j] = silo[j]
    BY <1>0, <1>a, <2>1 DEF Me
  <2>4. /\ Me'.State = Me.State /\ Me'.child = Me.child /\ Me'.slice = Me.slice
        /\ Me'.isSetup = Me.isSetup /\ Me'.inet = Me.inet /\ Me'.limits = Me.limits
        /\ Me'.cgroupSet = TRUE
    BY <1>b, <2>3 DEF Structs
  <2>5. /\ Me.State = "Running" /\ Me.child \in {"alive", "zombie"} /\ Me.isSetup = TRUE
        /\ Me.limits = TRUE /\ Me.inet \in BOOLEAN
        /\ self \in host.bridge /\ (self \in host.nat <=> Me.inet)
    BY <1>b, <2>1 DEF BootInv, StartSane, StartFits, SetupCalls, Structs
  <2>6. InProgress /\ ~InProgress'
    BY <2>1 DEF InProgress, SetupCalls
  <2>7. PICK Y : Me' \in Structs(Y)
    BY <1>0 DEF BootTypes, Me
  <2>8. Me' = Struct("Running", Me.child, Me.slice, TRUE, Me.inet, Me.limits, TRUE)
    BY <2>4, <2>5, <2>7 DEF Structs, Struct
  <2>9. /\ SiloBar[self] = Waiting(Me)
        /\ SiloBar' = Ret4(SiloBar, Me.child, TRUE, TRUE)
    BY <1>0, <2>3, <2>6, <2>8, SiloReturns, Zenon
  <2>10. HostBar' = [S!InterfaceUp(HostBar, self, Me.inet) EXCEPT !.cgroup = S!With(@, self, TRUE)]
    BY <1>0, <2>2, <2>5, <2>6, HostReturns, Zenon
  <2>11. SiloBar[self].State = "Pending" /\ SiloBar[self].limits = TRUE /\ SiloBar[self].inet = Me.inet
    BY <2>5, <2>9, SMTT(20) DEF Waiting, Struct
  <2>12. S!Start(self)
    BY <2>1, <2>5, <2>9, <2>10, <2>11, Zenon DEF S!Start, S!poolVars, Ret4
  <2> QED
    BY <1>0, <2>12 DEF S!SiloNext
<1>7. CASE SetupFails
  <2>1. /\ InProgress /\ ~InProgress' /\ UNCHANGED <<silo, pool, held>>
        /\ setup \in SetupCalls \cup {"limit"}
    BY <1>7, Zenon DEF SetupFails, Call, InProgress, SetupCalls
  <2>2. PICK made \in BOOLEAN :
           /\ "limit" \in Faults \/ setup # "limit" \/ made
           /\ host' = [host EXCEPT !.bridge = With(@, self, self \in @ \/ (made /\ setup = "bridge")),
                                   !.cgroup = With(@, self, made /\ setup = "limit")]
    BY <1>7, Zenon DEF SetupFails
  <2>3. /\ host'.bridge = With(host.bridge, self, self \in host.bridge \/ (made /\ setup = "bridge"))
        /\ host'.cgroup = With(host.cgroup, self, made /\ setup = "limit")
        /\ host'.nat = host.nat /\ host'.root = host.root
    BY <1>0, <2>2 DEF HostSets
  <2>4. /\ host'.bridge \ {self} = host.bridge \ {self} /\ host'.cgroup \ {self} = host.cgroup \ {self}
        /\ self \in host'.bridge <=> (self \in host.bridge \/ (made /\ setup = "bridge"))
        /\ self \in host'.cgroup <=> (made /\ setup = "limit")
    BY <2>3 DEF With
  <2>5. /\ Me.State = "Running" /\ Me.child \in {"alive", "zombie"} /\ Me.cgroupSet = FALSE
        /\ Me.isSetup = (setup = "limit") /\ (setup = "limit" => Me.limits)
        /\ self \in host.nat <=> (setup = "limit" /\ Me.inet)
        /\ self \in host.bridge <=> setup \notin {"forwarding", "bridge"}
        /\ Me.inet \in BOOLEAN /\ Me.limits \in BOOLEAN
    BY <1>b, <2>1 DEF BootInv, StartSane, StartFits, Structs
  <2>6. Me' = Struct("Running", Me.child, Me.slice, Me.isSetup, Me.inet, Me.limits, FALSE)
        /\ \A j \in SiloIDs \ {self} : silo'[j] = silo[j]
    BY <1>b, <2>1, <2>5, Zenon DEF Structs, Struct, Me
  <2>7. SiloBar[self] = Waiting(Me)
    BY <1>0, <2>1, <2>6, SiloReturns, Zenon
  <2>8. /\ SiloBar[self].State = "Pending" /\ SiloBar[self].limits = Me.limits
        /\ SiloBar[self].inet = Me.inet
    BY <2>7, SMTT(20) DEF Waiting, Struct
  <2>9. CASE setup = "limit"
    <3>1. /\ Me.isSetup = TRUE /\ Me.limits = TRUE
          /\ Me.child = "alive" => "limit" \in Faults
          /\ made \/ "limit" \in Faults
      BY <1>7, <2>2, <2>5, <2>9, Zenon DEF SetupFails, SetupCalls
    <3>2. SiloBar' = Ret3(SiloBar, Me.child, TRUE)
      BY <1>0, <2>1, <2>6, <3>1, SiloReturns, Zenon
    <3>3. HostBar' = [S!InterfaceUp(HostBar, self, Me.inet) EXCEPT !.cgroup = S!With(@, self, made)]
      BY <1>0, <2>1, <2>3, <2>4, <2>5, <2>9, HostReturns
    <3>4. Me.child \in {"zombie"} \cup (IF "limit" \in Faults THEN {"alive"} ELSE {})
      BY <2>5, <3>1
    <3>5. made \in {TRUE} \cup (IF "limit" \in Faults THEN {FALSE} ELSE {})
      BY <3>1, Zenon
    <3>6. S!StartFailsLimit(self)
      BY <2>1, <2>8, <3>1, <3>2, <3>3, <3>4, <3>5, Zenon DEF S!StartFailsLimit, S!poolVars, Ret3
    <3> QED
      BY <1>0, <3>6 DEF S!SiloNext, S!StartFails
  <2>10. CASE setup # "limit"
    <3>1. /\ Me.isSetup = FALSE /\ self \notin host'.nat /\ self \notin host'.cgroup
          /\ Me.child = "alive" => "net" \in Faults
          /\ self \notin host'.bridge => "net" \in Faults
      BY <1>7, <2>3, <2>4, <2>5, <2>10, Zenon DEF SetupFails, SetupCalls
    <3>2. SiloBar' = Ret2(SiloBar, Me.child)
      BY <1>0, <2>1, <2>6, <3>1, SiloReturns, Zenon
    <3>3. PICK m \in BOOLEAN : m <=> self \in host'.bridge
      BY Zenon
    <3>4. HostBar' = [HostBar EXCEPT !.bridge = S!With(@, self, m)]
      BY <1>0, <2>1, <2>3, <2>4, <2>5, <3>1, <3>3, HostReturns
    <3>5. Me.child \in {"zombie"} \cup (IF "net" \in Faults THEN {"alive"} ELSE {})
      BY <2>5, <3>1
    <3>6. m \in {TRUE} \cup (IF "net" \in Faults THEN {FALSE} ELSE {})
      BY <3>1, <3>3, Zenon
    <3>7. S!StartFailsNet(self)
      BY <2>1, <2>8, <3>2, <3>4, <3>5, <3>6, Zenon DEF S!StartFailsNet, S!poolVars, Ret2
    <3> QED
      BY <1>0, <3>7 DEF S!SiloNext, S!StartFails
  <2> QED
    BY <2>9, <2>10
<1> QED
  BY <1>1, <1>2, <1>3, <1>4, <1>5, <1>6, <1>7 DEF StartStep

\* A child that exits while Start is in progress is hidden until Start returns.
LEMMA ExitMaps ==
  ASSUME BootInv, BootInv', Exit(self) \/ Die(self), UNCHANGED setup
  PROVE  S!SiloNext \/ UNCHANGED S!siloVars
<1>0. self \in SiloIDs /\ BootTypes /\ BootTypes'
  BY BootAssumption DEF BootInv
<1>1. PICK X : silo \in [SiloIDs -> Structs(X)]
  BY <1>0 DEF BootTypes
<1>2. Me \in Structs(X)
  BY <1>0, <1>1 DEF Me
<1>3. InProgress' = InProgress
  BY DEF InProgress, SetupCalls
<1>4. CASE InProgress
  <2>1. PICK c : silo' = [silo EXCEPT ![self].child = c]
    BY DEF Exit, Die, SetChild
  <2>2. Me' = [Me EXCEPT !.child = c] /\ \A j \in SiloIDs \ {self} : silo'[j] = silo[j]
    BY <1>0, <1>1, <2>1 DEF Me
  <2>3. Me'.slice = Me.slice /\ Me'.inet = Me.inet /\ Me'.limits = Me.limits
    BY <1>2, <2>2 DEF Structs
  <2>4. UNCHANGED <<host, pool, held>>
    BY DEF Exit, Die, SetChild
  <2> QED
    BY <1>0, <1>3, <1>4, <2>2, <2>3, <2>4, Hidden
<1>5. CASE ~InProgress
  BY <1>3, <1>5, PlainSteps
<1> QED
  BY <1>4, <1>5

\* Every step of a boot is a step of module Silo, or none.
LEMMA NextMaps ==
  ASSUME BootInv, BootInv', [Next]_vars
  PROVE  [S!SiloNext]_(S!siloVars)
<1>1. CASE StartStep
  BY <1>1, StartCallsMap
<1>2. CASE Prepare \/ CloseBooted \/ Reap
  <2>1. ~InProgress /\ ~InProgress'
    BY <1>2 DEF Prepare, CloseBooted, Reap, Returned, InProgress, SetupCalls, bootVars
  <2> QED
    BY <1>2, <2>1, PlainSteps
<1>3. CASE (Exit(self) \/ Die(self)) /\ UNCHANGED setup
  BY <1>3, ExitMaps
<1>4. CASE UNCHANGED <<siloVars, setup>>
  BY <1>4 DEF S!siloVars, siloVars, SiloBar, HostBar, InProgress
<1>5. ChildTimesOut \/ ChildRouteFails \/ ChildGivesUp \/ ProgramEnds \/ ChildDies =>
        (Exit(self) \/ Die(self)) /\ UNCHANGED setup
  BY DEF ChildTimesOut, ChildRouteFails, ChildGivesUp, ProgramEnds, ChildDies, ChildExits, bootVars
<1>6. DaemonDies \/ ChildPrepares \/ ChildFindsInterface \/ ChildPolls \/ ChildAddsRoute \/ LinkLocal
        \/ UNCHANGED vars => UNCHANGED <<siloVars, setup>>
  BY DEF DaemonDies, ChildPrepares, ChildFindsInterface, ChildPolls, ChildAddsRoute, LinkLocal, Advance,
         SetLink, vars, bootVars
<1> QED
  BY <1>1, <1>2, <1>3, <1>4, <1>5, <1>6 DEF Next, ChildStep

LEMMA InitMaps == Init => S!SiloInit
<1> SUFFICES ASSUME Init PROVE S!SiloInit
  OBVIOUS
<1>1. ~InProgress
  BY DEF Init, InProgress, SetupCalls
<1>2. SiloBar = silo /\ HostBar = host
  BY <1>1, BarsOff
<1> QED
  BY <1>2 DEF Init, SiloInit, S!SiloInit, PoolInit, S!PoolInit, NewIPPool, S!NewIPPool,
              NoStruct, S!NoStruct

-----------------------------------------------------------------------------
\* Start with its calls taken apart, against a child that runs and dies when it
\* likes and a daemon that may crash, implements the one-step Start and
\* StartFails of module Silo.
THEOREM BootRefinesSilo == Spec => BootImplementsSilo
<1>1. Init => S!SiloInit
  BY InitMaps
<1>2. BootInv /\ BootInv' /\ [Next]_vars => [S!SiloNext]_(S!siloVars)
  BY NextMaps
<1> QED
  BY <1>1, <1>2, BootInvariant, PTL DEF Spec, BootImplementsSilo, S!SiloSpec

-----------------------------------------------------------------------------
\* Types.  Assignment and IPInterface lead from pools to pools; a slice is
\* stored when it is taken and stays what it is; the child counts its polls up
\* to MaxPolls.
PoolType == [lastFromPool : Nat, free : Seq(Nat)]
Slices == Slice \cup {<<>>}

LEMMA AssignmentTypes ==
  ASSUME NEW p \in PoolType
  PROVE  Assignment(p).pool \in PoolType /\ Assignment(p).ip \in Nat
<1>1. p.lastFromPool \in Nat /\ p.free \in Seq(Nat)
  BY DEF PoolType
<1>2. CASE p.free # <<>>
  <2>1. Tail(p.free) \in Seq(Nat) /\ Head(p.free) \in Nat
    BY <1>1, <1>2
  <2>2. Assignment(p).pool = [p EXCEPT !.free = Tail(@)] /\ Assignment(p).ip = Head(p.free)
    BY <1>2 DEF Assignment
  <2> QED
    BY <2>1, <2>2 DEF PoolType
<1>3. CASE p.free = <<>>
  <2>1. /\ Assignment(p).pool = [p EXCEPT !.lastFromPool = p.lastFromPool + 1]
        /\ Assignment(p).ip = p.lastFromPool
    BY <1>3 DEF Assignment, getNextFromPool
  <2> QED
    BY <1>1, <2>1 DEF PoolType
<1> QED
  BY <1>2, <1>3

LEMMA SlicesAreLists ==
  ASSUME NEW s \in Slices
  PROVE  s \in Seq(Nat)
<1>1. CASE s = <<>>
  BY <1>1
<1>2. CASE s \in Slice
  <2>1. s[1] \in Nat /\ s[2] \in Nat /\ s[3] \in Nat /\ s[4] \in Nat
    BY <1>2 DEF Slice
  <2>2. s = <<s[1], s[2], s[3], s[4]>>
    BY <1>2 DEF Slice
  <2>3. <<s[1], s[2], s[3], s[4]>> \in Seq(Nat)
    BY <2>1
  <2> QED
    BY <2>2, <2>3, Zenon
<1> QED
  BY <1>1, <1>2 DEF Slices

LEMMA FreeAssignmentTypes ==
  ASSUME NEW p \in PoolType, NEW s \in Slices
  PROVE  FreeAssignment(p, s) \in PoolType
<1>1. s \in Seq(Nat)
  BY SlicesAreLists
<1>2. p.free \in Seq(Nat)
  BY DEF PoolType
<1>3. p.free \o s \in Seq(Nat)
  BY <1>1, <1>2
<1> QED
  BY <1>3 DEF FreeAssignment, PoolType

LEMMA IPInterfaceTypes ==
  ASSUME NEW p \in PoolType, IPInterface(p).ok
  PROVE  IPInterface(p).pool \in PoolType /\ IPInterface(p).slice \in Slice
<1> DEFINE a1 == Assignment(p)
           a2 == Assignment(a1.pool)
           a3 == Assignment(a2.pool)
           a4 == Assignment(a3.pool)
<1>1. IPInterface(p) = [pool |-> a4.pool, slice |-> <<a1.ip, a2.ip, a3.ip, a4.ip>>, ok |-> TRUE]
  BY DEF IPInterface
<1>2. a1.pool \in PoolType /\ a1.ip \in Nat
  BY AssignmentTypes
<1>3. a2.pool \in PoolType /\ a2.ip \in Nat
  BY <1>2, AssignmentTypes
<1>4. a3.pool \in PoolType /\ a3.ip \in Nat
  BY <1>3, AssignmentTypes
<1>5. a4.pool \in PoolType /\ a4.ip \in Nat
  BY <1>4, AssignmentTypes
<1> HIDE DEF a1, a2, a3, a4
<1>6. <<a1.ip, a2.ip, a3.ip, a4.ip>> \in Slice
  BY <1>2, <1>3, <1>4, <1>5 DEF Slice
<1> QED
  BY <1>1, <1>5, <1>6

\* The pool, what is on loan and the slices in the structs.
PoolTyped ==
  /\ pool \in PoolType
  /\ held \in [SiloIDs -> Slices]
  /\ \A id \in SiloIDs : silo[id].slice \in Slices

LEMMA PoolTypedStep ==
  ASSUME BootInv, PoolTyped, [Next]_vars
  PROVE  PoolTyped'
<1>0. self \in SiloIDs /\ (\E X : silo \in [SiloIDs -> Structs(X)]) /\ Me.slice \in Slices
  BY BootAssumption DEF BootInv, BootTypes, PoolTyped, Me
<1>a. PICK X : silo \in [SiloIDs -> Structs(X)]
  BY <1>0
<1>1. CASE TakeInterface(self)
  <2>1. /\ IPInterface(pool).ok /\ pool' = IPInterface(pool).pool
        /\ held' = [held EXCEPT ![self] = IPInterface(pool).slice]
        /\ silo' = [silo EXCEPT ![self].slice = held'[self]]
    BY <1>1 DEF TakeInterface, PoolAlloc
  <2>2. pool' \in PoolType /\ IPInterface(pool).slice \in Slices
    BY <2>1, IPInterfaceTypes DEF PoolTyped, Slices
  <2>3. held' \in [SiloIDs -> Slices] /\ held'[self] \in Slices
    BY <1>0, <2>1, <2>2 DEF PoolTyped
  <2>4. \A id \in SiloIDs : silo'[id].slice \in Slices
    BY <1>0, <1>a, <2>1, <2>3 DEF PoolTyped, Structs
  <2> QED
    BY <2>2, <2>3, <2>4 DEF PoolTyped
<1>2. CASE ReturnSlice(self)
  <2>1. /\ pool' = FreeAssignment(pool, Me.slice) /\ held' = [held EXCEPT ![self] = <<>>]
        /\ silo' = [silo EXCEPT ![self].State = "Dropped"]
    BY <1>2 DEF ReturnSlice, GiveSliceBack, Me
  <2>2. pool' \in PoolType /\ held' \in [SiloIDs -> Slices]
    BY <1>0, <2>1, FreeAssignmentTypes DEF PoolTyped, Slices
  <2>3. \A id \in SiloIDs : silo'[id].slice = silo[id].slice
    BY <1>0, <1>a, <2>1 DEF Structs
  <2> QED
    BY <2>2, <2>3 DEF PoolTyped
<1>3. ASSUME NEW err \in DOMAIN CloseStep, Close(self, err)
      PROVE  PoolTyped'
  <2>1. /\ pool' = FreeAssignment(pool, Me.slice) \/ pool' = pool
        /\ held' = [held EXCEPT ![self] = <<>>] \/ held' = held
        /\ \/ silo' = [silo EXCEPT ![self].State = "Finished", ![self].child = Killed(@)]
           \/ silo' = silo
    BY <1>3 DEF Close, Me
  <2>2. pool' \in PoolType /\ held' \in [SiloIDs -> Slices]
    BY <1>0, <2>1, FreeAssignmentTypes DEF PoolTyped, Slices
  <2>3. \A id \in SiloIDs : silo'[id].slice = silo[id].slice
    BY <1>0, <1>a, <2>1 DEF Structs
  <2> QED
    BY <2>2, <2>3 DEF PoolTyped
<1>4. ASSUME UNCHANGED poolVars, \A id \in SiloIDs : silo'[id].slice = silo[id].slice
      PROVE  PoolTyped'
  BY <1>4 DEF PoolTyped, poolVars
<1>5. ASSUME NEW req \in Requests, NewSilo(self, req)
      PROVE  PoolTyped'
  <2>1. UNCHANGED poolVars
    BY <1>5 DEF NewSilo
  <2>2. silo' = [silo EXCEPT ![self].State = "Setup", ![self].inet = req.inet, ![self].limits = req.limits]
    BY <1>5 DEF NewSilo
  <2>3. \A id \in SiloIDs : silo'[id].slice = silo[id].slice
    BY <1>0, <1>a, <2>2 DEF Structs
  <2> QED
    BY <1>4, <2>1, <2>3
<1>6. ASSUME InitSilo(self) \/ InitFails(self)
      PROVE  PoolTyped'
  <2>1. UNCHANGED poolVars
    BY <1>6 DEF InitSilo, InitFails, InitFailsTempDir, InitFailsBase, InitFailsFiles,
                InitFailsInvocation, siloVars, poolVars
  <2>2. \/ silo' = silo
        \/ silo' = [silo EXCEPT ![self].State = "Pending"]
        \/ silo' = [silo EXCEPT ![self].State = "InternalError"]
    BY <1>6 DEF InitSilo, InitFails, InitFailsTempDir, InitFailsBase, InitFailsFiles,
                InitFailsInvocation, siloVars
  <2> QED
    BY <1>0, <1>4, <1>a, <2>1, <2>2 DEF Structs
<1>7. ASSUME StartStep
      PROVE  PoolTyped'
  <2>1. UNCHANGED poolVars
    BY <1>7 DEF StartStep, StartProcess, StartProcessFails, CheckOrAttach, CreateNetBridge, CreateVethPair,
                MoveVethToNamespace, NamespaceNetOpen, LinkAddAddress, LinkSetState, AddRules, NewCGroupSet,
                SetupFails, SetLink, siloVars, poolVars
  <2>2. \/ silo' = silo
        \/ silo' = [silo EXCEPT ![self].State = "Running", ![self].child = "alive"]
        \/ silo' = [silo EXCEPT ![self].State = "Running"]
        \/ silo' = [silo EXCEPT ![self].isSetup = TRUE]
        \/ silo' = [silo EXCEPT ![self].cgroupSet = TRUE]
    BY <1>7 DEF StartStep, StartProcess, StartProcessFails, CheckOrAttach, CreateNetBridge, CreateVethPair,
                MoveVethToNamespace, NamespaceNetOpen, LinkAddAddress, LinkSetState, AddRules, NewCGroupSet,
                SetupFails, SetLink, siloVars
  <2> QED
    BY <1>0, <1>4, <1>a, <2>1, <2>2 DEF Structs
<1>8. ASSUME NEW from, NEW to, SetChild(self, from, to)
      PROVE  PoolTyped'
  <2>1. UNCHANGED poolVars /\ silo' = [silo EXCEPT ![self].child = to]
    BY <1>8 DEF SetChild, poolVars
  <2> QED
    BY <1>0, <1>4, <1>a, <2>1 DEF Structs
<1>9. ASSUME UNCHANGED siloVars
      PROVE  PoolTyped'
  BY <1>4, <1>9 DEF siloVars, poolVars
<1>10. CASE Prepare
  BY <1>1, <1>2, <1>5, <1>6, <1>10 DEF Prepare
<1>11. CASE CloseBooted
  BY <1>3, <1>11 DEF CloseBooted
<1>12. CASE Reap \/ ChildDies
  BY <1>8, <1>12 DEF Reap, ChildDies, WaitDone, WaitReap, Die
<1>13. CASE ChildGivesUp \/ ProgramEnds \/ ChildTimesOut \/ ChildRouteFails
  <2>1. SetChild(self, "alive", "zombie")
    BY <1>13 DEF ChildGivesUp, ProgramEnds, ChildTimesOut, ChildRouteFails, ChildExits, Exit
  <2> QED
    BY <1>8, <2>1
<1>14. CASE DaemonDies \/ LinkLocal \/ ChildPrepares \/ ChildFindsInterface \/ ChildPolls \/ ChildAddsRoute
  BY <1>9, <1>14 DEF DaemonDies, LinkLocal, SetLink, ChildPrepares, ChildFindsInterface, ChildPolls,
                     ChildAddsRoute, Advance
<1>15. CASE UNCHANGED vars
  BY <1>9, <1>15 DEF vars
<1> QED
  BY <1>7, <1>10, <1>11, <1>12, <1>13, <1>14, <1>15 DEF Next, ChildStep

\* The polls are counted, and the daemon is up or dead.
Counted == inside.polls <= MaxPolls /\ daemon \in {"up", "dead"}

LEMMA CountedStep ==
  ASSUME BootInv, Counted, [Next]_vars
  PROVE  Counted'
<1>1. inside \in InsideType /\ inside.polls \in Nat /\ MaxPolls \in Nat
  BY BootAssumption DEF BootInv, BootTypes, InsideType
<1>2. daemon' \in {"up", "dead"}
  BY DEF Counted, Next, Prepare, StartStep, StartProcess, StartProcessFails, CheckOrAttach, CreateNetBridge,
         CreateVethPair, MoveVethToNamespace, NamespaceNetOpen, LinkAddAddress, LinkSetState, AddRules,
         NewCGroupSet, SetupFails, SetLink, CloseBooted, Reap, DaemonDies, ChildStep, ChildPrepares,
         ChildFindsInterface, ChildPolls, ChildTimesOut, ChildAddsRoute, ChildRouteFails, Advance, ChildExits,
         ChildGivesUp, ProgramEnds, ChildDies, LinkLocal, vars, bootVars
<1>3. \/ inside' = inside
      \/ \E a : inside' = [inside EXCEPT !.at = a]
      \/ \E w : inside' = [inside EXCEPT !.exit = w]
      \/ inside.polls < MaxPolls /\ inside' = [inside EXCEPT !.polls = @ + 1]
  <2>1. CASE StartStep
    BY <2>1 DEF StartStep, StartProcess, StartProcessFails, CheckOrAttach, CreateNetBridge, CreateVethPair,
                MoveVethToNamespace, NamespaceNetOpen, LinkAddAddress, LinkSetState, AddRules, NewCGroupSet,
                SetupFails, SetLink
  <2>2. CASE ChildPrepares \/ ChildFindsInterface \/ ChildAddsRoute
    <3>1. inside' = [inside EXCEPT !.at = MainNext[inside.at]]
      BY <2>2 DEF ChildPrepares, ChildFindsInterface, ChildAddsRoute, Advance
    <3> QED
      BY <3>1
  <2>3. CASE ChildGivesUp \/ ProgramEnds \/ ChildTimesOut \/ ChildRouteFails
    BY <2>3 DEF ChildGivesUp, ProgramEnds, ChildTimesOut, ChildRouteFails, ChildExits
  <2>4. CASE ChildPolls
    BY <2>4 DEF ChildPolls
  <2>5. CASE Prepare \/ CloseBooted \/ Reap \/ DaemonDies \/ ChildDies \/ LinkLocal \/ UNCHANGED vars
    BY <2>5 DEF Prepare, CloseBooted, Reap, DaemonDies, ChildDies, LinkLocal, SetLink, vars, bootVars
  <2> QED
    BY <2>1, <2>2, <2>3, <2>4, <2>5 DEF Next, ChildStep
<1>4. inside'.polls <= MaxPolls
  BY <1>1, <1>3 DEF Counted, InsideType
<1> QED
  BY <1>2, <1>4 DEF Counted

\* Start, the child and the link keep to their types, the addresses of the silo
\* are four numbers or none, and the child polls MaxPolls times at most.
THEOREM BootTypeCorrect == Spec => []BootTypeOK
<1>1. Init => PoolTyped /\ Counted
  <2> SUFFICES ASSUME Init PROVE PoolTyped /\ Counted
    OBVIOUS
  <2>1. pool \in PoolType
    BY PoolAssumption, SMTT(20) DEF Init, SiloInit, PoolInit, NewIPPool, PoolType
  <2>2. held \in [SiloIDs -> Slices] /\ \A id \in SiloIDs : silo[id].slice \in Slices
    BY DEF Init, SiloInit, PoolInit, NoStruct, Slices
  <2>3. Counted
    BY BootAssumption DEF Init, Counted
  <2> QED
    BY <2>1, <2>2, <2>3 DEF PoolTyped
<1>2. BootInv /\ PoolTyped /\ Counted => BootTypeOK
  <2> SUFFICES ASSUME BootInv, PoolTyped, Counted PROVE BootTypeOK
    OBVIOUS
  <2>1. PICK X : silo \in [SiloIDs -> Structs(X)]
    BY DEF BootInv, BootTypes
  <2>2. ASSUME NEW id \in SiloIDs PROVE silo[id] \in StructType
    <3>1. silo[id] \in Structs(X) /\ silo[id].slice \in Slice \cup {<<>>}
      BY <2>1 DEF PoolTyped, Slices
    <3> QED
      BY <3>1 DEF Structs, StructType
  <2>3. silo \in [SiloIDs -> StructType]
    BY <2>1, <2>2
  <2>4. SiloTypeOK
    BY <2>3 DEF SiloTypeOK, PoolTypeOK, PoolTyped, PoolType, Slices, BootInv, BootTypes, HostSets
  <2>5. inside.polls \in 0..MaxPolls
    BY BootAssumption DEF BootInv, BootTypes, InsideType, Counted
  <2>6. inside \in [at : {"none", "read", "proc", "binds", "rootfs", "hostname", "wait", "route", "lo", "run"},
                    polls : 0..MaxPolls, exit : {"none", "fault", "timeout", "route", "program"}]
    BY <2>5 DEF BootInv, BootTypes, InsideType
  <2> QED
    BY <2>4, <2>6 DEF BootTypeOK, BootInv, BootTypes, LinkType, Counted
<1> QED
  BY <1>1, <1>2, PoolTypedStep, CountedStep, BootInvariant, PTL DEF Spec
=============================================================================
