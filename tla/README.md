# TLA+ specifications of colex

colex runs programs in *silos*: processes in Linux namespaces of their own, with
a root file system, a network interface behind a bridge, and optional limits.
`colexd` is the daemon that starts and stops them on request, `colex-cli` the
client that asks it to.  This directory specifies the parts of them that hold
state and run concurrently, checks them with TLC, and proves the central facts
with TLAPS.

## Inventory

| Part | Source | Modules | State |
|---|---|---|---|
| address pool | `controller/ipPool.go` | `IPPool` | modelled |
| silo lifecycle | `controller/controller.go`, `options.go` | `Silo` | modelled |
| network interface of a silo | `controller/interfaces.go`, `net.go`, `net_namespace.go` | `Silo`, `Boot` | modelled |
| boot inside the namespaces | `controller/reexec.go`, `process.go` | `Boot` | modelled |
| control groups | `cgroups.go` | `Silo`, `Boot` | one resource per silo |
| root file system, bases | `controller/bases.go`, `fs.go` | `Silo`, `Boot` | directory made, filled or not, removed |
| server | `colexd/serv.go`, `main.go` | `Server`, `Auth`, `Client` | all but set-host |
| metadata service | `colexd/metadata_service.go` | `Metadata` | modelled |
| authentication, enrolment | `colexd/auth.go`, `serv.go` | `Auth` | modelled |
| configuration | `colexd/config.go` | `Auth` | what authentication and certificates need |
| client and pin file | `colexd/colex-cli` | `Client` | the life of a command; payloads left out |
| key generation, utilities | `colexd/cert`, `util` | `Client`, `Auth` | as the choice of something new |
| wire formats, silo files | `colexd/wire`, `siloconf` | - | not modelled |
| namespace flags, demonstrations | `uts.go`, `ipc.go`, `user.go`, `colex-main`, `colex-test` | - | not modelled |

`PROJECT.json` lists the same parts with their sources, the map from definitions
to source lines, the runs, and the hazards of the code with the properties that
cover them.

## Modules

An arrow is EXTENDS; `=>` is an implementation that is proved.

    MCServer -> Server -> Metadata -> Silo -> IPPool
                  |                   ^  ^
                  => Registry         |  +--- Boot <- MCBoot   (Boot => Silo)
                  => Silo             => IPPool's PoolSpec
    MCAccess -> Client -> Auth

    ControllerProofs <- ServerProofs <- MetadataProofs
                                     <- ReleaseProofs
    ControllerProofs <- LossProofs, and RegistryProofs extends it and ReleaseProofs
    BootProofs          AccessProofs

There are thus four refinements: the silos implement the pool, a boot implements
a silo, the server implements the registry, and the server implements the silos.  The
last is the only one that no run checks: most of the server's steps on the silos are written as
actions of `Silo`, guards included, so that it says little by itself; it carries what is
shown of the silos, and of the pool below them, up to the server.

**IPPool.**  The struct `IPPool` is the record `pool`: the cursor `lastFromPool`
and the list `free`.  `Assignment`, `getNextFromPool`, `FreeAssignment` and
`IPInterface` are operators from a pool to a pool and a result.  Addresses are
natural numbers and the /30 block of `a` is `a \div 4`.  The Go code increments
the 16-byte form that `net.ParseCIDR` returns, so an IPv4 cursor does not wrap.
`held[id]` is what caller `id` has and has not returned.  `PoolSpec` is the
abstract specification of a well-behaved set of callers: a slice goes back once.

**Silo.**  `silo[id]` is the `Silo` struct of one attempt to bring a silo up with
the fields of its `IPInterface`, and the kernel's view of the child.  `host` has,
for each kind of resource, the silos that have one.  One action per method and
per way it can fail.  `Faults` names the host operations that may fail.
`Close(id, err)` numbers the steps of the Go method; `err` is the step at which
it returns an error, and everything before it has been done.  `SiloSpec` lets a
caller make any call at any time, but for one: `FreeAssignment` asks nothing, so a
caller that returns a slice itself (`GiveSliceBack`) has to know that it may, and
`ReturnSlice` is the call by one that does.  `Server` uses the first, and that it may is
checked and proved (`SilosUsePoolProperly`).

Three details of the code are kept because so much depends on them: the state is
`Running` before the child is started, it is `Finished` before anything is torn
down, and Setup marks the interface only at its end.  `Silo.lock`, which `Wait`
holds for the life of the child, is not in the model: `Close` does not take it.

A child that dies early is part of the model without any fault: moving an
interface into the namespace of a dead process fails.

**Boot.**  `Start` is one step in `Silo`.  Here it is one step per call of
`IPInterface.Setup` and `NewCGroupSet` (`setup` is the call that comes next), and
beside it runs `isolatedMain` (`inside`): read the invocation, mount, change the
root, set the host name, wait for the interface, add the route, bring up the
loopback device, run the program.  The two share only `link`, the device that Start
moves into the child's namespace.  The child may end at any stage and the daemon
may die at any call.  The kernel may give a link that is up an IPv6 address of its
own, which the child's test `len(addrs) > 0` cannot tell from the one it waits for.
`block` says whether the pool has given the silo addresses of one block, which it
does not always do (`pool_blocks`); the gateway can be reached only if it has.
`SiloBar` and `HostBar` hide a start in progress from module `Silo`.

**Metadata.**  The two maps, the listeners of each silo as goroutines, and the
`HostEvent` call in progress, which holds `dataLock`.  A stop is two steps per
listener: the rendezvous on `shouldShutdown`, then the spin on
`listenerShutdown`.  `wg.Add` is in the listener, so a listener that has not run
yet is not waited for.  The readers (`ServeDNS`, `ServeHTTP`) are operators from
the caller's address and the question to the set of answers that may be given; the
host map is an argument of `ServeDNS`.  `MemStats` may fail for a program that runs too:
its counters are read from files of the kernel.

**Server.**  `lock` is the holder of `Server.lock` and `job` the call it is in.
`startSiloInternal` and `stopSiloInternal` are one step per call they make, so
that the other goroutines interleave with them: the waiters (`waitNotifySilo`),
the collector, the listeners, `Close`, and the programs in the silos.  The plain
Boolean variables that are read without a lock (`closing`, `isClosing`,
`listenerShutdown`) are single loads and stores; the interleavings cover what
those can return.  `ServeList` changes nothing and is possible whenever the lock
is free and the daemon runs: with it, TLC's deadlock check in `server` and
`server_live` asks whether the lock can be lost.

The fault `rand` stands for both ways a start can end between the allocation of
the addresses and Init (`Finalize` and `NewSilo`).  A silo that fails to remove
its root directory when it has none yet is allowed to report an error; the code
would not, and the only caller ignores it.

**Registry.**  The abstract specification of names: a silo is new, started, listed,
gone, in this order and once; a name is given away only when nobody has it.  It has
no locks, goroutines, addresses or failures.

**Auth** and **Client.**  `Auth` has what outlives a request: the configuration
file, the certs file, the clock, and of the `Server` the enrolment deadline, the
code and the certificate.  `loadConfig` and `validateConfig` are operators;
`NewServer` applies them.  A line of the certs file is the key it ends with and whether
the search gets past it (`readable`): one that cannot be parsed, or that is longer than
the 64 KiB the scanner takes, ends every search that reaches it.  A failed write leaves
such a line, or one with nobody's key; an enrolment that succeeds leaves one if the name
is long enough.  The file may have lines before the daemon is first started
(`CertsFiles`), and the administrator may take any line out at any time (`EditCerts`):
it is opened and read again for every request, either of which may fail.  `Client` adds
the users: the files in
`~/.colex`, and one command at a time from the prompt over the key pair, the pin,
`checkAuthorized` (no lock held) and the handler (under `Server.lock`) to the
reply.  A command may be killed anywhere, leaving a file torn; a daemon that dies
ends the commands it was serving, whose replies are lost.  The `up`, `down`, `list`
and `set-host` commands are one kind, since nothing here tells them apart.  A
daemon that is started without a configuration file has a window of 0 in open
mode, where no line that is added matters; it is not told apart from one with the
default.

## Runs

| Run | Shows | States |
|---|---|---|
| `pool` | no address in two places; only usable ones; slices whole until the pool is exhausted; at most three addresses ever lost, and never missed; with this start address the slices are blocks | 748 |
| `silo` | running silos share nothing; an interface keeps its addresses until it is gone; `SiloSpec` implements `PoolSpec` | 640 767 |
| `boot` | Start taken apart implements `Silo`; the route is never added too early; a started program has its network; the child never waits for ever | 55 468 |
| `server` | the server implements `Registry`, and `PoolSpec` too: it returns no slice twice; no process nobody knows of; one silo per name; late reports do no harm; a stop is not held up by its listeners; metadata maps current, callers identified and names resolved; listeners closed before the bridge goes | 643 516 |
| `server_live` | starts that fail at any stage but exec: what an unregistered silo has given back; every address is free or with a registered silo; a silo whose program has ended is taken off the server, since somebody always watches it | 61 770 |
| `server_close` | shutdown at any point: no process after the loop, and it ends if no `HostEvent` is under way when it begins | 36 604 |
| `access` | commands need a line, if not at the moment then when they were checked; a new line needs an open window and its code; who was told to be enrolled keeps pair and line, is never told otherwise and is let in if the search gets to the line; a pinned certificate that is embedded stays | 2 521 176 |

The other runs are disagreements between the code and what is said of it:

| Run | Said | Done |
|---|---|---|
| `pool_blocks` | "giving each IPInterface a /30" (`ipPool.go:86`) | a call that fails at its second address returns the first on its own and shifts every later slice |
| `silo_bridge` | "Assignment assigns and returns a vacant IP address" (`ipPool.go:39`) | a bridge whose setup stopped half way stays (`isSetup` is not set) while its addresses are given out again |
| `server_late_up` | Close is "terminating and releasing all resources" (`serv.go:129`) | a request served after the loop starts a silo that stays |
| `server_panic` | the same | a waiter sends on the channel Close has closed |
| `server_hang` | the same | a stop waits for a listener the shutdown has ended, with the lock held |

More is visible in the models and has no run of its own:

- After a stop that failed in Teardown the second one succeeds, skips the teardown
  and keeps the addresses: the state was `Finished` before.
- After a failed exec Close finds no process, skips the teardown and keeps the
  addresses.
- Once the metadata service is closing, `HostEvent` returns at once and relies on its
  Close to have waited for the listeners; one that has not run yet is not waited for
  (`Counted`) and may be open when its bridge goes.
- `CGroupSet.Close` removes a group right after the kill, drops the error of a
  group that is still busy and reports success (`CGroupLeft`).
- `Wait` entered after Close returns an error at once, and nobody reaps the child.
- The certs file is read before the lock is taken: a command that waits for it is carried
  out although its line is taken out meanwhile (`CommandsNeedEnrolment` says so).
- One line of the certs file that cannot be parsed or scanned, left by a failed write or
  by an enrolment with a very long name, locks out every user whose line is behind it
  (`EnrolledClientAccepted` says what still holds for them).
- enable-enroll in open mode has no user to name in its log line and panics after
  it has set the deadline and the code.
- With the window turned off, enable-enroll hands out a code that never works.

### Bounds

- Addresses: a subnet of 16.  `pool` starts at 0, which leaves three slices and
  three addresses over: the fourth assignment of a call fails, the worst case for
  `LossBounded`.  `pool_blocks` starts at 2, one over: the second fails.  The silo
  and server runs start at 5 (two slices) or 9 (one), two over: the third fails.
  Addresses are reused in all of them, and in `pool`, `silo` and `server` the pool is
  exhausted; in `server` a failed start or stop has to lose a slice for that.
- `MaxOverrun` bounds how far past the subnet a failing cursor is followed; beyond
  it nothing depends on the value, since every further call fails alike.
- Two silo IDs: an ID is one attempt to bring a silo up, so two are needed for a
  replacement, a collision or a late report.  `boot`, `server_close` and the shutdown
  counterexamples have one.  Requests go on when the IDs are used up: silos are still
  stopped and replaced, and the start is then refused.
- Two names in `server`, where two silos run side by side; one name where the
  subject is what becomes of one silo and its successor.
- `SiloDir` is false in the silo runs, `server` and `server_live`, where Init makes a
  temporary root, and true in the others, where NewSilo makes it; in `boot` it can fail to.
- `silo` and `boot` have every fault and every kind of request.  `server` has a
  fault for each way the server's own code goes on, since the rest only repeats
  `silo`.  In `server_live` neither exec nor teardown fails, as `UnregisteredReleased` and
  `AddressesAccountedFor` ask; all else on the way up does.
- `MaxPolls` is 3 for the 1000 of the code: the child may find its interface at the
  first, at a later or at no poll.
- `access`: two users, so that one may enrol while the other is served; as many
  keys as users, since a pair that is replaced before it was used can be made anew.
  Two starts give a restart.  A window of one tick and a clock of three values give
  requests before, at and after the deadline of either daemon.  `MaxCodes` 2 leaves
  a code for enable-enroll or for the second start.  The certs file has one line to begin
  with, whose key a user has or nobody has any more, so that there is someone to ask for
  enable-enroll also when the window is turned off; two lines are enough for a torn line
  before or behind a whole one.
- Silos, names, users and keys are symmetric; the runs with liveness properties use
  no symmetry.

### Fairness

`Fairness` of `Server` says that goroutines which can run do run (weak fairness on
each goroutine's steps), and that one waiting for `Server.lock` or in a channel send
is not passed over for ever (strong fairness on `Collect`, `CloseLock`, `Send`):
`sync.Mutex` hands the lock to a waiter that has starved for a millisecond, and a
channel serves blocked senders in order.  A killed process dies.  `Boot` assumes
that Start goes on while the daemon lives, that the child goes on while it lives,
and that a killed process dies.  Nothing is assumed of clients, of signals, of the
administrator, or of the programs in silos.

## Proofs

Every invariant and every action property that a passing run checks is proved; only
liveness is not.  The theorems hold for every value of the constants: subnet, start
address, silos, names, users, keys, faults, requests, configuration files, polls, and
bounds.  The assumptions are the `ASSUME`s of the modules, which say that the start
address is in the subnet, that the constants have their types, and that the model
values are different from each other.  Six theorems assume more, as said below:
`SlicesAreBlocks` and `ServerSlicesAreBlocks` of the subnet, `MendedServerReleases`,
`ServerAccountsForAddresses`, `ServerLosesLittle` and `WatchedUntilGone` of the faults.

`ControllerProofs`, the pool: `PoolSpec` implies `PoolTypeOK`, `NoAddressTwice` and
`OnlyUsableAddresses`.  `NoAddressTwice` alone is not inductive: an address fresh
from the cursor is new only because all others are below it.  `PoolInv` adds
this.  Its core is `Sound(p, X)`, which speaks of a pool and the set of addresses
outside it, so that it can be carried through the four assignments of
`IPInterface`, whose intermediate pools are no states of the system.  The lemmas
follow the calls: `AssignmentSound`, `FreeAssignmentSound`, `IPInterfaceSound`.
The paths that lose addresses are covered by `SoundSubset`.

`ControllerProofs`, the silos: `SiloSpec` implies `PoolSpec` (`SilosImplementPool`), `SiloTypeOK`,
`LiveSilosDisjoint` and `InterfaceKeepsAddresses`.  The invariant `SiloInv` adds
to `PoolInv` that until a silo is `Finished` the slice in its struct is the one
the pool has lent it.  This is what makes the single `FreeAssignment` in Close
correct, and it is why setting `Finished` first, which costs the addresses after
a failed teardown, never frees them twice.

`ServerProofs`: every step of the server is a step of the silos
or none (`ServerDrivesSilos`), which brings the theorems about silos up to the
server (`ServerSilosDisjoint`, `ServerUsesPoolProperly`); the step that is not one by its
form is the return of a slice after a failed start, which `JobKnows` shows to be on loan
(`GiveBackReturns`); and `LiveSilosAreRegistered`, `OneSiloPerName` and
`CollectorSparesLive` hold.  None of them is inductive.  `ServerInv` adds who holds
the lock in which call (`LockOwned`), what each call relies on, in particular that
the name is free from the end of a stop to the entry (`JobKnows`), that an entry in
`Server.silos` and the name of the silo agree (`SilosKnown`), and that a waiter
past Wait, and thus a report the collector has, is about a process that has ended
(`ReportsTrue`).  There is one lemma per step.  What a call of the controller does
to a silo is an assumption of the lemma on the step, supplied by lemmas about
`Silo` (`TakeEffect`, `StartEffect`, `CloseKills`, ...).  `CloseKills` is the one that
counts: Close returns without having killed only if the process had ended.

More results rest on `ServerInv`.  `CloseLoopStopsAll` (`CloseStopsAll`): the loop
of Close ends when `Server.silos` is empty and the lock is held, and a process that
runs is then registered or the subject of a call in progress, which there is not.
`InterfaceKeepsAddresses` holds for the server, by `ServerDrivesSilos`.  And in
`RegistryProofs` the server implements `Registry` (`ServerImplementsRegistry`): a step is
`Launch`, `Enter`, `End` or `Leave`, or changes nothing that the registry sees
(`NothingSeen`).

`MetadataProofs`: `MetadataCurrent`, `CallerIsIdentified`, `NamesLeadHome`,
`ListenersStopBeforeBridge` and the type invariant of the server hold.  The maps follow
`Server.silos` with a delay, so none of these is inductive.  `MetaInv` says which call
of the server a `HostEvent` in progress belongs to (`EventFits`), that a silo
about to be announced is `Running` on its bridge and that a stop past its event has
left no entry (`JobFits`), that an entry
of the maps is about a silo that is registered, has its bridge and is `Running`, while a
silo that runs is missing only where its call has not come to the event yet or is past
it (`EntriesTrue`, `Untold`), and that the listeners are closed in their order
(`ListenersFit`).  All of this is claimed only until `isClosing` is set, because
`HostEvent` does nothing afterwards.  That a caller is taken for itself needs the pool as
well: two silos that are both `Running` have different slices, by `SiloInv`.

`StopMeetsListener` (`StopsAreAnswered`) says that a stop, which holds `Server.lock` and
`dataLock`, never waits for a listener that will not answer, as long as there is no
shutdown; `server_hang` shows what happens in one.  `StopInv` says why: the service has a
silo in its map only while its listeners wait for the stop, but for those that the stop
in progress has told already (`Told`), and the map forgets the silo before the stop
ends.  So a second stop, after a first one that failed later on, finds no entry instead
of listeners that have gone.

`LossProofs` has what the pool loses, for every subnet and start address.
`WholeSlicesUntilExhausted` and `LossBounded` rest on `LossInv`: up to the first failure
the cursor and the free list move by whole slices (`Whole`), and afterwards the free list
is a multiple of four long or one more.  The call that crosses the end of the subnet
therefore starts with an empty free list and takes at most three addresses; later ones
find four, or a single one, which the failure path of the second assignment puts back.
`RefusesOnlyWhenFull` (`RefusedOnlyWhenFull`) says that the loss costs no silo: a caller
is refused only when all the slices are lent for which the subnet has room.  `CountInv`
counts slices instead of addresses: those on loan, those in the free list and those the
cursor has not passed are always as many.  `SliceIsABlock` (`SlicesAreBlocks`) holds under
`KeepsBlocks`: the start address is not the last of a block of four, and the addresses
from it to the end are not one more than a number of slices.  In a subnet of a block or
more this means that the start address is the first or the second of its block, as in the
README's `10.21.0.1/24`.  `pool_blocks` shows what happens at the third.
`RegistryProofs` brings the results up to the server (`ServerPoolLoss`,
`ServerRefusesOnlyWhenFull`, `ServerSlicesAreBlocks`).  To the pool a slice that a silo
was given up with, after a failed exec or teardown, is still on loan; so these say
nothing of slices that the server itself loses.  `ServerAccountsForAddresses` does.

`ReleaseProofs` has what becomes of silos.  `UnregisteredReleased` holds under
`MendedFaults`, that is, if the process of a silo can always be started and no step of a
teardown fails; every other failure on the way up is allowed.  Both conditions are
needed: after a failed exec, Close finds no process and skips the teardown, and after a
failed teardown it stops half way.  Addresses, NAT rule and root are covered, the bridge
if the setup of the interface was completed (`silo_bridge` shows what becomes of another)
and control groups are not (`CGroupLeft`).  `CleanInv` adds that what is neither registered nor
being brought up is released, that a registered silo is `Running`, so that its Close does
tear it down, and that a NAT rule belongs to an interface whose setup was completed.
Close can then fail only while Wait is reaping the process, and the silo stays registered.
`AddressesAccountedFor` (`ServerAccountsForAddresses`, in `RegistryProofs`) follows under
the same conditions from this and from what the pool loses: with nothing left on loan to
a silo that is off the server, the addresses astray are those that `IPInterface` lost
(`AstrayIsLost`), none before the pool is exhausted.  `ServerLosesLittle` adds that they
are never more than three, which `server_live`, whose pool is not exhausted, cannot show.

`RegisteredIsWatched` (`WatchedUntilGone`) is the safety half of `ExitedSiloCollected`: a
silo in `Server.silos` always has a waiter, or the collector has its report.  It needs
only `SureTeardown`, the second of those conditions: after a stop that failed in the
teardown the report is used up and nobody stops the silo again.  A stop can also fail
because Wait is reaping the process, and then the report is not used up: `WatchInv` says
that a process in this state has its waiter still in Wait, while the collector has a
report only of a waiter that is over.

`BootProofs`: `RouteNeverTooEarly`, `InternetWhenStarted` and `BootTypeOK` hold, and
`Boot` implements `Silo` (`BootRefinesSilo`).  `BootInv` says what there is
on the host at each call of Start (`StartSane`) and what the child may conclude from
its stage (`LinkSane`): past the wait the device is up, and a device that is up has
its address, because Setup makes the two calls in this order.  The refinement has
three kinds of steps: the calls of Start that are hidden (`Hidden`), the call at
which it returns (`StartCallsMap`), and steps that are steps of `Silo` themselves
(`PlainSteps`).

`AccessProofs`: `AccessTypeOK`, `EnrolledClientAccepted`, `CommandsNeedEnrolment`,
`PinSurvivesRestart` and `EnrolmentOnlyInWindow` hold for any number of users,
restarts and failures.  `AccessInv` adds that a command past its first stages and
the files of its user have one key, that a successful reply to an enrolment is
about a key that is in the file or was taken out by the administrator since (`revoked`),
and how the deadline and the code of a running daemon depend on its configuration
(`DaemonSane`).  The daemon only adds to the file (`FileGrows`); an edit takes out one
line and leaves the other keys in it (`FileShrinks`).  `EnrolledClientAccepted` says that
a user with a line is let in if the search gets to it, and otherwise sees an error and
never a refusal.

Only model-checked: liveness under fairness (`ExitedSiloCollected`,
`ShutdownEndsUnlessMidEvent`, `BootSettles`), which is out of reach of the proof system,
and the properties of the runs that end in a counterexample, which do not hold.

## Not modelled

- set-host (`serv.go:586`): it writes the map of host names under `Server.lock` while
  `ServeDNS` reads it under `dataLock`.  No other part depends on the content, and
  `CallerIsIdentified` and `NamesLeadHome` are checked for a map with no entry and with
  an entry for every question.  A concurrent map access in Go ends the process or does
  nothing; neither is a state the other parts could see.
- Wire formats and silo files: struct definitions and library encoders.  A request that
  cannot be decoded changes nothing.
- The contents of a root file system, bind mounts and control group files: steps that
  succeed or fail, with nothing later that depends on them.
- Two commands of one user at the same time, which may leave `cert.pem` of one pair and
  `key.pem` of another.
- Namespace flags and the demonstration programs: constants, and sequential callers of
  the controller.
