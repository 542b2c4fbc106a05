------------------------------- MODULE IPPool -------------------------------
(***************************************************************************)
(* The address pool of controller/ipPool.go.  An address is a natural      *)
(* number; the /30 block of an address a is a \div 4.  The increment of    *)
(* getNextFromPool works on the 16-byte form ParseCIDR returns, so an      *)
(* IPv4 cursor never wraps around: plain naturals are enough.              *)
(*                                                                         *)
(* pool is the IPPool struct.  held[id] is the slice that the caller id of *)
(* IPInterface has received and not yet returned with FreeAssignment, or   *)
(* <<>>; it is what the callers know, not a field of the struct.           *)
(***************************************************************************)
EXTENDS Integers, Sequences, FiniteSets, Functions

CONSTANTS
  SubnetFirst, SubnetLast,  \* the addresses IPPool.Subnet contains
  StartIP,                  \* the address written in the CIDR string
  SiloIDs,                  \* the callers: one per attempt to bring a silo up
  MaxOverrun                \* bound: how far past the subnet the cursor is followed

ASSUME PoolAssumption ==
  /\ SubnetFirst \in Nat /\ SubnetLast \in Nat /\ StartIP \in Nat
  /\ SubnetFirst <= StartIP /\ StartIP <= SubnetLast
  /\ MaxOverrun \in Nat

VARIABLES pool, held

poolVars == <<pool, held>>

(***************************************************************************)
(* The operations, as functions of the struct.                             *)
(***************************************************************************)
NewIPPool == [lastFromPool |-> StartIP, free |-> <<>>]

InSubnet(ip) == SubnetFirst <= ip /\ ip <= SubnetLast

\* FreeAssignment that forgets the last address of what it is given
FreeAssignmentDropsLast(p, ips) ==
  [p EXCEPT !.free = @ \o SubSeq(ips, 1, Len(ips) - 1)]

FreeAssignment(p, ips) == [p EXCEPT !.free = @ \o ips]

\* the boundary test made on the address handed out, not on its successor
getNextFromPoolTestsIP(p) ==
  [pool |-> [p EXCEPT !.lastFromPool = @ + 1],
   ip   |-> p.lastFromPool,
   ok   |-> InSubnet(p.lastFromPool)]

\* The cursor advances even when the call fails, and the test is on the next
\* address: the last address of the subnet is never handed out.
getNextFromPool(p) ==
  LET next == p.lastFromPool + 1
  IN  [pool |-> [p EXCEPT !.lastFromPool = next],
       ip   |-> p.lastFromPool,
       ok   |-> InSubnet(next)]

\* the head is read and not removed
AssignmentKeepsHead(p) ==
  IF p.free # <<>>
  THEN [pool |-> p, ip |-> Head(p.free), ok |-> TRUE]
  ELSE getNextFromPool(p)

\* the most recently freed address is used first
AssignmentLIFO(p) ==
  IF p.free # <<>>
  THEN [pool |-> [p EXCEPT !.free = SubSeq(@, 1, Len(@) - 1)],
        ip |-> p.free[Len(p.free)], ok |-> TRUE]
  ELSE getNextFromPool(p)

Assignment(p) ==
  IF p.free # <<>>
  THEN [pool |-> [p EXCEPT !.free = Tail(@)], ip |-> Head(p.free), ok |-> TRUE]
  ELSE getNextFromPool(p)

\* the fourth address is taken and not recorded in the slice
IPInterfaceForgetsOne(p) ==
  LET a1 == Assignment(p)
      a2 == Assignment(a1.pool)
      a3 == Assignment(a2.pool)
      a4 == Assignment(a3.pool)
  IN  [pool |-> a4.pool, slice |-> <<a1.ip, a2.ip, a3.ip>>,
       ok |-> a1.ok /\ a2.ok /\ a3.ok /\ a4.ok]

\* Four assignments.  A failure of the second returns the first; a failure of
\* the third or the fourth returns nothing to the pool.
IPInterface(p) ==
  LET a1 == Assignment(p)
      a2 == Assignment(a1.pool)
      a3 == Assignment(a2.pool)
      a4 == Assignment(a3.pool)
      Failed(q) == [pool |-> q, slice |-> <<>>, ok |-> FALSE]
  IN  IF ~a1.ok THEN Failed(a1.pool)
      ELSE IF ~a2.ok THEN Failed(FreeAssignment(a2.pool, <<a1.ip>>))
      ELSE IF ~a3.ok THEN Failed(a3.pool)
      ELSE IF ~a4.ok THEN Failed(a4.pool)
      ELSE [pool |-> a4.pool, slice |-> <<a1.ip, a2.ip, a3.ip, a4.ip>>, ok |-> TRUE]

BridgeIP(slice) == slice[1]
SiloIP(slice) == slice[2]

(***************************************************************************)
(* The pool and its callers.  A caller returns a slice at most once; that  *)
(* colexd keeps to this is checked where the pool is composed with it.     *)
(***************************************************************************)
PoolInit ==
  /\ pool = NewIPPool
  /\ held = [id \in SiloIDs |-> <<>>]

PoolAlloc(id) ==
  LET r == IPInterface(pool)
  IN  /\ held[id] = <<>>
      /\ r.ok
      /\ pool' = r.pool
      /\ held' = [held EXCEPT ![id] = r.slice]

PoolAllocFails ==
  /\ pool.lastFromPool <= SubnetLast + MaxOverrun
  /\ ~IPInterface(pool).ok
  /\ pool' = IPInterface(pool).pool
  /\ UNCHANGED held

PoolFree(id) ==
  /\ held[id] # <<>>
  /\ pool' = FreeAssignment(pool, held[id])
  /\ held' = [held EXCEPT ![id] = <<>>]

PoolNext == PoolAllocFails \/ \E id \in SiloIDs : PoolAlloc(id) \/ PoolFree(id)

PoolSpec == PoolInit /\ [][PoolNext]_poolVars

(***************************************************************************)
(* Properties.                                                             *)
(***************************************************************************)
Slice == [1..4 -> Nat]

\* Types: the cursor and the free list hold addresses, a slice is four of them.
PoolTypeOK ==
  /\ pool \in [lastFromPool : Nat, free : Seq(Nat)]
  /\ held \in [SiloIDs -> Slice \cup {<<>>}]

Free == Range(pool.free)
Loaned == UNION {Range(held[id]) : id \in SiloIDs}
Issued == StartIP..(pool.lastFromPool - 1)
Lost == (Issued \cap (SubnetFirst..(SubnetLast - 1))) \ (Free \cup Loaned)

\* getNextFromPool has reported "pool exhausted" at least once.
Exhausted == pool.lastFromPool > SubnetLast

\* No address is in two places: the free list has no duplicates, the four
\* addresses of a slice differ, no two slices on loan overlap and none of them
\* overlaps the free list (Assignment, FreeAssignment, IPInterface).
NoAddressTwice ==
  /\ IsInjective(pool.free)
  /\ \A i \in SiloIDs : IsInjective(held[i]) /\ Range(held[i]) \cap Free = {}
  /\ \A i, j \in SiloIDs : i # j => Range(held[i]) \cap Range(held[j]) = {}

\* Every address on loan or waiting for reuse came from the cursor and is a
\* usable address of the subnet: never its last one, which getNextFromPool
\* refuses, and never one past it, however far a failing cursor has drifted.
OnlyUsableAddresses ==
  \A a \in Free \cup Loaned :
    StartIP <= a /\ a < SubnetLast /\ a < pool.lastFromPool

\* Until the pool is exhausted for the first time no address is lost, and the
\* first-in first-out free list keeps slices whole: each one is four
\* consecutive addresses at a multiple of four from the first.
WholeSlicesUntilExhausted ==
  ~Exhausted =>
    /\ Lost = {}
    /\ \A id \in SiloIDs : held[id] # <<>> =>
         /\ (held[id][1] - StartIP) % 4 = 0
         /\ \A i \in 2..4 : held[id][i] = held[id][1] + i - 1

\* The failure paths of IPInterface that return nothing to the pool cost at
\* most three addresses over the whole life of the pool: the free list is a
\* multiple of four long, or one more than that, at every later call.
LossBounded == Cardinality(Lost) <= 3

Holders == {id \in SiloIDs : held[id] # <<>>}
Capacity == (SubnetLast - StartIP) \div 4

\* What the failure paths lose is never missed: IPInterface refuses a caller only
\* when as many slices are on loan as the subnet has room for from the start
\* address on, however often the pool was exhausted and refilled before.
RefusesOnlyWhenFull == ~IPInterface(pool).ok => Cardinality(Holders) = Capacity

\* ipPool.go:86 "we are giving each IPInterface a /30": the bridge and the silo
\* address of a slice are in the same block of four, as their masks say.
SliceIsABlock ==
  \A id \in SiloIDs : held[id] # <<>> =>
    BridgeIP(held[id]) \div 4 = SiloIP(held[id]) \div 4
=============================================================================
