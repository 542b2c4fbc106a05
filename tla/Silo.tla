-------------------------------- MODULE Silo --------------------------------
(***************************************************************************)
(* The lifecycle of a silo (controller/controller.go) with the host        *)
(* resources it takes: a child process, a slice of addresses, a network    *)
(* bridge and a NAT rule (controller/interfaces.go), control groups        *)
(* (cgroups.go) and a root directory.                                      *)
(*                                                                         *)
(* silo[id] is the Silo struct of one attempt to bring a silo up, together *)
(* with the state of its child process in the kernel:                      *)
(*   none    child.Process is nil                                          *)
(*   alive   running                                                       *)
(*   killed  SIGKILL was sent and has not taken effect yet                 *)
(*   zombie  dead, not waited for                                          *)
(*   done    os.Process.Wait has marked it done, wait4 is still to come    *)
(*   reaped  gone, its pid may be reused                                   *)
(* State is Silo.State; None means that there is no struct yet, Dropped    *)
(* that the caller has given the attempt up and has no reference to it.    *)
(* host holds, per kind of resource, the silos that have one on the host.  *)
(***************************************************************************)
EXTENDS IPPool

CONSTANTS
  Faults,      \* the host operations that may fail, by name
  SiloDir,     \* Options.MakeFromFolder is set: NewSilo makes the root
  Requests     \* the kinds of silo asked for: [inet, limits : BOOLEAN]

SetupFaults == {"rand", "mkdir", "init", "exec", "net", "limit"}
TeardownFaults == {"pid", "nat", "bridge", "cgroup", "root"}
ListenFaults == {"bind"}

ASSUME SiloAssumption ==
  /\ Faults \subseteq SetupFaults \cup TeardownFaults \cup ListenFaults
  /\ SiloDir \in BOOLEAN
  /\ Requests \subseteq [inet : BOOLEAN, limits : BOOLEAN]

VARIABLES silo, host

siloVars == <<silo, host, pool, held>>

NoStruct ==
  [State |-> "None", child |-> "none", slice |-> <<>>, isSetup |-> FALSE,
   inet |-> FALSE, limits |-> FALSE, cgroupSet |-> FALSE]

SiloInit ==
  /\ PoolInit
  /\ silo = [id \in SiloIDs |-> NoStruct]
  /\ host = [bridge |-> {}, nat |-> {}, cgroup |-> {}, root |-> {}]

\* in the set that belongs to the resource iff b
With(S, id, b) == IF b THEN S \cup {id} ELSE S \ {id}

(***************************************************************************)
(* Creation.                                                               *)
(***************************************************************************)

\* The interface of the silo to come takes its addresses from the pool.
TakeInterface(id) ==
  /\ silo[id].State = "None" /\ silo[id].slice = <<>>
  /\ PoolAlloc(id)
  /\ silo' = [silo EXCEPT ![id].slice = held'[id]]
  /\ UNCHANGED host

TakeInterfaceFails == PoolAllocFails /\ UNCHANGED <<silo, host>>

\* NewSilo.  The result of os.Mkdir is not looked at: the silo is created
\* whether or not its root directory could be.
NewSilo(id, req) ==
  /\ silo[id].State = "None" /\ silo[id].slice # <<>>
  /\ silo' = [silo EXCEPT ![id].State = "Setup",
                          ![id].inet = req.inet, ![id].limits = req.limits]
  /\ \E made \in {SiloDir} \cup (IF "mkdir" \in Faults THEN {FALSE} ELSE {}) :
       host' = [host EXCEPT !.root = With(@, id, made)]
  /\ UNCHANGED poolVars

\* Init makes a temporary root when NewSilo was not to make one.
HasRoot(id) == SiloDir => id \in host.root
MakeRoot(id) == host' = [host EXCEPT !.root = With(@, id, HasRoot(id))]

\* Init fills the root and prepares the child.
InitSilo(id) ==
  /\ silo[id].State = "Setup" /\ HasRoot(id)
  /\ MakeRoot(id)
  /\ silo' = [silo EXCEPT ![id].State = "Pending"]
  /\ UNCHANGED poolVars

\* no temporary directory
InitFailsTempDir(id) ==
  /\ silo[id].State = "Setup" /\ ~SiloDir /\ "init" \in Faults
  /\ UNCHANGED siloVars

\* a base cannot be unpacked, as when the root is not there
InitFailsBase(id) ==
  /\ silo[id].State = "Setup"
  /\ "init" \in Faults \/ ~HasRoot(id)
  /\ MakeRoot(id)
  /\ silo' = [silo EXCEPT ![id].State = "InternalError"]
  /\ UNCHANGED poolVars

\* resolv.conf or hosts cannot be written: the state stays at Setup
InitFailsFiles(id) ==
  /\ silo[id].State = "Setup" /\ HasRoot(id) /\ "init" \in Faults
  /\ MakeRoot(id)
  /\ UNCHANGED <<silo, pool, held>>

\* the invocation info cannot be written, or the users cannot be mapped
InitFailsInvocation(id) ==
  /\ silo[id].State = "Setup" /\ HasRoot(id) /\ "init" \in Faults
  /\ MakeRoot(id)
  /\ silo' = [silo EXCEPT ![id].State = "InternalError"]
  /\ UNCHANGED poolVars

InitFails(id) ==
  \/ InitFailsTempDir(id) \/ InitFailsBase(id)
  \/ InitFailsFiles(id) \/ InitFailsInvocation(id)

\* ipPool.FreeAssignment(network.Slice) by a caller that gives the silo up.  The
\* code asks nothing: neither how far the silo is nor whether the slice is back.
GiveSliceBack(id) ==
  /\ silo' = [silo EXCEPT ![id].State = "Dropped"]
  /\ pool' = FreeAssignment(pool, silo[id].slice)
  /\ held' = [held EXCEPT ![id] = <<>>]
  /\ UNCHANGED host

\* A caller that gives up before Start returns the addresses itself.
ReturnSlice(id) ==
  /\ silo[id].State \in {"None", "Setup", "InternalError"} /\ silo[id].slice # <<>>
  /\ GiveSliceBack(id)

(***************************************************************************)
(* Start: the state is Running from the first line on, the interfaces are  *)
(* set up and the control groups made while the child already runs.        *)
(***************************************************************************)

\* The bridge, the veth pair and the NAT rule exist; isSetup is set last.
InterfaceUp(h, id, inet) ==
  [h EXCEPT !.bridge = With(@, id, TRUE), !.nat = With(@, id, inet)]

\* The program may be over before Start is.
Start(id) ==
  /\ silo[id].State = "Pending"
  /\ \E c \in {"alive", "zombie"} :
       silo' = [silo EXCEPT ![id].State = "Running", ![id].child = c,
                            ![id].isSetup = TRUE, ![id].cgroupSet = silo[id].limits]
  /\ host' = [InterfaceUp(host, id, silo[id].inet)
                EXCEPT !.cgroup = With(@, id, silo[id].limits)]
  /\ UNCHANGED poolVars

\* The state is Running, and there is no process.
StartFailsExec(id) ==
  /\ silo[id].State = "Pending"
  /\ "exec" \in Faults
  /\ silo' = [silo EXCEPT ![id].State = "Running"]
  /\ UNCHANGED <<host, pool, held>>

\* Setup of the interface stops half way, because the host refuses or because
\* the child is already dead and its namespace gone.  The bridge is made first.
StartFailsNet(id) ==
  /\ silo[id].State = "Pending"
  /\ \E c \in {"zombie"} \cup (IF "net" \in Faults THEN {"alive"} ELSE {}) :
       silo' = [silo EXCEPT ![id].State = "Running", ![id].child = c]
  /\ \E made \in {TRUE} \cup (IF "net" \in Faults THEN {FALSE} ELSE {}) :
       host' = [host EXCEPT !.bridge = With(@, id, made)]
  /\ UNCHANGED poolVars

\* NewCGroupSet returns no set, and may leave a group behind: a directory is
\* made before the process is moved into it, which fails for a dead process.
StartFailsLimit(id) ==
  /\ silo[id].State = "Pending"
  /\ silo[id].limits
  /\ \E c \in {"zombie"} \cup (IF "limit" \in Faults THEN {"alive"} ELSE {}) :
       silo' = [silo EXCEPT ![id].State = "Running", ![id].child = c, ![id].isSetup = TRUE]
  /\ \E made \in {TRUE} \cup (IF "limit" \in Faults THEN {FALSE} ELSE {}) :
       host' = [InterfaceUp(host, id, silo[id].inet) EXCEPT !.cgroup = With(@, id, made)]
  /\ UNCHANGED poolVars

StartFails(id) == StartFailsExec(id) \/ StartFailsNet(id) \/ StartFailsLimit(id)

(***************************************************************************)
(* Close.  Its steps are numbered in the order of the code; err is the     *)
(* step at which it returns an error, and "none" when it does not.         *)
(***************************************************************************)
\* the addresses are returned before the interface is taken down
FreeStepFirst == 1

CloseStep == [pid |-> 1, nat |-> 2, bridge |-> 3, cgroup |-> 5, root |-> 6, none |-> 7]
FreeStep == 4

\* teardown in any state, so that a second Close repeats it
HasProcessAnyState(s) == s.child # "none"

\* no teardown for a child that is already dead
HasProcessIfAlive(s) == s.State = "Running" /\ s.child = "alive"

\* Teardown of the silo is attempted at all.
HasProcess(s) == s.State = "Running" /\ s.child # "none"

\* The steps that may fail for a silo.  The probe with signal 0 finds a process
\* whose Kill then says "already finished": one that is being reaped by Wait,
\* or, once that is over, another process under the same pid.
CloseErrors(s) ==
  IF HasProcess(s) /\ s.child = "done"
  THEN {"pid"}
  ELSE {"none"} \cup (Faults \cap {"root"})
       \cup (IF HasProcess(s)
             THEN {e \in Faults : \/ e = "pid" /\ s.child = "reaped"
                                  \/ e = "nat" /\ s.isSetup /\ s.inet
                                  \/ e = "bridge" /\ s.isSetup
                                  \/ e = "cgroup" /\ s.cgroupSet}
             ELSE {})

\* os.RemoveAll of a group fails while the group has a process in it, and
\* CGroupSet.Close does not notice: a child killed just now may still be there.
CGroupLeft(s) == IF s.child \in {"alive", "killed"} THEN BOOLEAN ELSE {FALSE}

\* the process is found and not killed
KilledForgotten(c) == c

Killed(c) == IF c = "alive" THEN "killed" ELSE c

Close(id, err) ==
  LET s == silo[id]
      Past(step) == HasProcess(s) /\ step < CloseStep[err]
  IN  /\ err \in CloseErrors(s)
      /\ silo' = IF Past(1)
                 THEN [silo EXCEPT ![id].State = "Finished", ![id].child = Killed(@)]
                 ELSE silo
      /\ \E left \in CGroupLeft(s) :
           host' = [host EXCEPT
             !.nat    = With(@, id, id \in @ /\ ~(Past(2) /\ s.isSetup /\ s.inet)),
             !.bridge = With(@, id, id \in @ /\ ~(Past(3) /\ s.isSetup)),
             !.cgroup = With(@, id, id \in @ /\ ~(Past(5) /\ s.cgroupSet /\ ~left)),
             !.root   = With(@, id, id \in @ /\ ~(CloseStep["root"] < CloseStep[err]))]
      /\ pool' = IF Past(FreeStep) THEN FreeAssignment(pool, s.slice) ELSE pool
      /\ held' = IF Past(FreeStep) THEN [held EXCEPT ![id] = <<>>] ELSE held

(***************************************************************************)
(* The child process, and the half of Wait that follows its death.         *)
(***************************************************************************)
SetChild(id, from, to) ==
  /\ silo[id].child = from
  /\ silo' = [silo EXCEPT ![id].child = to]
  /\ UNCHANGED <<host, pool, held>>

Exit(id) == SetChild(id, "alive", "zombie")
Die(id) == SetChild(id, "killed", "zombie")
WaitDone(id) == SetChild(id, "zombie", "done")
WaitReap(id) == SetChild(id, "done", "reaped")

(***************************************************************************)
(* Silos driven by a caller that makes any call at any time; the guards    *)
(* are the ones the code has.                                              *)
(***************************************************************************)
SiloNext ==
  \/ TakeInterfaceFails
  \/ \E id \in SiloIDs :
       \/ TakeInterface(id)
       \/ \E req \in Requests : NewSilo(id, req)
       \/ InitSilo(id)
       \/ InitFails(id)
       \/ ReturnSlice(id)
       \/ Start(id)
       \/ StartFails(id)
       \/ silo[id].State # "None" /\ \E err \in DOMAIN CloseStep : Close(id, err)
       \/ Exit(id)
       \/ Die(id)
       \/ WaitDone(id)
       \/ WaitReap(id)

SiloSpec == SiloInit /\ [][SiloNext]_siloVars

(***************************************************************************)
(* Properties.                                                             *)
(***************************************************************************)
StructType ==
  [State : {"None", "Setup", "InternalError", "Dropped", "Pending", "Running", "Finished"},
   child : {"none", "alive", "killed", "zombie", "done", "reaped"},
   slice : Slice \cup {<<>>},
   isSetup : BOOLEAN, inet : BOOLEAN, limits : BOOLEAN, cgroupSet : BOOLEAN]

\* Types of the silos and of the host's resources.
SiloTypeOK ==
  /\ PoolTypeOK
  /\ silo \in [SiloIDs -> StructType]
  /\ host \in [bridge : SUBSET SiloIDs, nat : SUBSET SiloIDs,
                cgroup : SUBSET SiloIDs, root : SUBSET SiloIDs]

Addresses(id) == Range(silo[id].slice)

\* No two silos that run have an address in common, and none of their
\* addresses waits for reuse, whatever failed before (Close, Teardown and
\* the pool together: a slice goes back once, and after the kill).
LiveSilosDisjoint ==
  \A i \in SiloIDs : silo[i].child = "alive" =>
    /\ Addresses(i) \cap Free = {}
    /\ \A j \in SiloIDs \ {i} :
         silo[j].child = "alive" => Addresses(i) \cap Addresses(j) = {}

\* An interface that was set up keeps its addresses until its NAT rule and its
\* bridge are gone: Teardown returns them last, and not at all after an error.
InterfaceKeepsAddresses ==
  \A id \in SiloIDs :
    silo[id].isSetup /\ id \in host.bridge \cup host.nat => held[id] = silo[id].slice

\* ipPool.go:39 "Assignment assigns and returns a vacant IP address": an address
\* that waits for reuse is not the one of a bridge of the host.  It may be that of
\* a bridge whose setup stopped half way: Teardown leaves it and frees the slice.
FreeAddressesVacant ==
  \A id \in host.bridge : BridgeIP(silo[id].slice) \notin Free

\* Callers return a slice once: every step of the silos is a step the pool
\* expects, so that what is shown of the pool holds for the silos.
SilosUsePoolProperly == PoolSpec
=============================================================================
