-------------------------- MODULE ControllerProofs --------------------------
(***************************************************************************)
(* The package controller: the address pool, and the silos that use it.    *)
(*                                                                         *)
(* The pool never has an address in two places, for any subnet, any start  *)
(* address, any number of callers and any sequence of calls.  Sound(p, X)  *)
(* is what every operation preserves of a pool p whose addresses outside   *)
(* the free list are X.  The lemmas follow the calls of the code:          *)
(* Assignment moves one address from p to X, FreeAssignment moves some     *)
(* back, IPInterface is four of the former.                                *)
(*                                                                         *)
(* The silos use the pool as it expects, for any set of failures, requests *)
(* and silos: SiloSpec implements PoolSpec.  With the invariant of the     *)
(* pool this gives that silos that run have no address in common.          *)
(* Sane(s, h, br, nt) is what holds of one silo: s is its struct, h the    *)
(* addresses it has from the pool, br and nt say whether its bridge and    *)
(* its NAT rule are on the host.  The addresses of the struct are the ones *)
(* from the pool until the state is Finished or the attempt is dropped:    *)
(* this is why Close may return them, and why it must not do so twice.     *)
(***************************************************************************)
EXTENDS Silo, TLAPS

\* Facts about sequences.
LEMMA SeqLen ==
  ASSUME NEW T, NEW s \in Seq(T)
  PROVE  Len(s) \in Nat /\ DOMAIN s = 1..Len(s) /\ s \in [1..Len(s) -> T]
OBVIOUS

LEMMA SeqOfFunction ==
  ASSUME NEW T, NEW n \in Nat, NEW f \in [1..n -> T]
  PROVE  f \in Seq(T) /\ Len(f) = n
OBVIOUS

LEMMA SeqEmpty ==
  ASSUME NEW T
  PROVE  <<>> \in Seq(T) /\ \A s \in Seq(T) : s = <<>> <=> Len(s) = 0
OBVIOUS

LEMMA SeqHeadTail ==
  ASSUME NEW T, NEW s \in Seq(T), s # <<>>
  PROVE  /\ Head(s) \in T /\ Tail(s) \in Seq(T) /\ Len(Tail(s)) = Len(s) - 1
         /\ \A i \in 1..Len(Tail(s)) : Tail(s)[i] = s[i + 1]
OBVIOUS

LEMMA SeqConcat ==
  ASSUME NEW T, NEW s \in Seq(T), NEW t \in Seq(T)
  PROVE  /\ s \o t \in Seq(T) /\ Len(s \o t) = Len(s) + Len(t)
         /\ \A i \in 1..(Len(s) + Len(t)) : (s \o t)[i] = IF i <= Len(s) THEN s[i] ELSE t[i - Len(s)]
OBVIOUS

LEMMA SeqConcatEmpty ==
  ASSUME NEW T, NEW s \in Seq(T)
  PROVE  s \o <<>> = s /\ <<>> \o s = s
OBVIOUS

LEMMA ConcatRange ==
  ASSUME NEW T, NEW s \in Seq(T), NEW t \in Seq(T)
  PROVE  Range(s \o t) = Range(s) \cup Range(t)
<1> DEFINE u == s \o t
<1>1. /\ Len(s) \in Nat /\ DOMAIN s = 1..Len(s)
      /\ Len(t) \in Nat /\ DOMAIN t = 1..Len(t)
      /\ u \in Seq(T) /\ Len(u) = Len(s) + Len(t)
      /\ \A i \in 1..(Len(s) + Len(t)) : u[i] = IF i <= Len(s) THEN s[i] ELSE t[i - Len(s)]
  BY SeqLen, SeqConcat
<1>2. DOMAIN u = 1..(Len(s) + Len(t))
  BY <1>1, SeqLen
<1> HIDE DEF u
<1>3. \A i \in DOMAIN u : \/ i \in DOMAIN s /\ u[i] = s[i]
                          \/ i - Len(s) \in DOMAIN t /\ u[i] = t[i - Len(s)]
  BY <1>1, <1>2
<1>4. \A i \in DOMAIN s : i \in DOMAIN u /\ u[i] = s[i]
  BY <1>1, <1>2
<1>5. \A i \in DOMAIN t : i + Len(s) \in DOMAIN u /\ u[i + Len(s)] = t[i]
  BY <1>1, <1>2
<1>6. Range(u) \subseteq Range(s) \cup Range(t)
  BY <1>3 DEF Range
<1>7. Range(s) \subseteq Range(u)
  BY <1>4 DEF Range
<1>8. Range(t) \subseteq Range(u)
  BY <1>5 DEF Range
<1> QED
  BY <1>6, <1>7, <1>8 DEF u

-----------------------------------------------------------------------------
(***************************************************************************)
(* The pool.                                                               *)
(***************************************************************************)
Usable(a, p) == a \in Nat /\ StartIP <= a /\ a < SubnetLast /\ a < p.lastFromPool

Sound(p, X) ==
  /\ p \in [lastFromPool : Nat, free : Seq(Nat)]
  /\ StartIP <= p.lastFromPool
  /\ IsInjective(p.free)
  /\ Range(p.free) \cap X = {}
  /\ \A a \in Range(p.free) \cup X : Usable(a, p)

\* The inductive invariant of the pool and its callers.
PoolInv ==
  /\ held \in [SiloIDs -> Slice \cup {<<>>}]
  /\ Sound(pool, Loaned)
  /\ \A i \in SiloIDs : IsInjective(held[i])
  /\ \A i, j \in SiloIDs : i # j => Range(held[i]) \cap Range(held[j]) = {}

\* Addresses that are forgotten (the failure paths of IPInterface that return
\* nothing) do no harm to what is left.
LEMMA SoundSubset ==
  ASSUME NEW p, NEW X, NEW Y \in SUBSET X, Sound(p, X)
  PROVE  Sound(p, Y)
BY DEF Sound

\* The head of a free list is not in its tail.
LEMMA HeadTailSplit ==
  ASSUME NEW s \in Seq(Nat), s # <<>>, IsInjective(s)
  PROVE  /\ Tail(s) \in Seq(Nat)
         /\ IsInjective(Tail(s))
         /\ Head(s) \in Range(s)
         /\ Range(Tail(s)) \subseteq Range(s)
         /\ Head(s) \notin Range(Tail(s))
<1>1. /\ Tail(s) \in Seq(Nat)
      /\ Len(Tail(s)) = Len(s) - 1
      /\ \A i \in 1..Len(Tail(s)) : Tail(s)[i] = s[i + 1]
  BY SeqHeadTail
<1>2. Len(s) \in Nat \ {0} /\ DOMAIN s = 1..Len(s)
  BY SeqEmpty, SeqLen
<1>3. DOMAIN Tail(s) = 1..(Len(s) - 1)
  BY <1>1, SeqLen
<1>4. Head(s) = s[1]
  OBVIOUS
<1>5. \A i \in DOMAIN Tail(s) : i + 1 \in DOMAIN s /\ i + 1 # 1 /\ Tail(s)[i] = s[i + 1]
  BY <1>1, <1>2, <1>3
<1>6. IsInjective(Tail(s))
  BY <1>2, <1>3, <1>5 DEF IsInjective
<1>7. Head(s) \notin Range(Tail(s))
  BY <1>2, <1>4, <1>5 DEF IsInjective, Range
<1> QED
  BY <1>1, <1>2, <1>4, <1>5, <1>6, <1>7 DEF Range

\* Joining two sequences without duplicates and without a common element.
LEMMA ConcatInjective ==
  ASSUME NEW s \in Seq(Nat), NEW t \in Seq(Nat), IsInjective(s), IsInjective(t),
         Range(s) \cap Range(t) = {}
  PROVE  IsInjective(s \o t)
<1>1. /\ s \o t \in Seq(Nat)
      /\ Len(s \o t) = Len(s) + Len(t)
      /\ \A i \in 1..(Len(s) + Len(t)) :
           (s \o t)[i] = IF i <= Len(s) THEN s[i] ELSE t[i - Len(s)]
  BY SeqConcat
<1>2. /\ Len(s) \in Nat /\ Len(t) \in Nat
      /\ DOMAIN s = 1..Len(s) /\ DOMAIN t = 1..Len(t)
      /\ DOMAIN (s \o t) = 1..(Len(s) + Len(t))
  BY <1>1, SeqLen
<1>3. \A k \in 1..(Len(s) + Len(t)) :
        /\ k <= Len(s) => k \in DOMAIN s /\ (s \o t)[k] = s[k]
        /\ ~(k <= Len(s)) => k - Len(s) \in DOMAIN t /\ (s \o t)[k] = t[k - Len(s)]
  <2>1. \A k \in 1..(Len(s) + Len(t)) : /\ k <= Len(s) => k \in 1..Len(s)
                                       /\ ~(k <= Len(s)) => k - Len(s) \in 1..Len(t)
    BY <1>2
  <2>2. \A k \in 1..(Len(s) + Len(t)) :
          /\ k <= Len(s) => (s \o t)[k] = s[k]
          /\ ~(k <= Len(s)) => (s \o t)[k] = t[k - Len(s)]
    BY <1>1
  <2> QED
    BY <1>2, <2>1, <2>2
<1>4. SUFFICES ASSUME NEW i \in 1..(Len(s) + Len(t)), NEW j \in 1..(Len(s) + Len(t)),
                      (s \o t)[i] = (s \o t)[j]
               PROVE  i = j
  BY <1>2, Zenon DEF IsInjective
<1>5. \A x \in DOMAIN s, y \in DOMAIN t : s[x] # t[y]
  BY Zenon DEF Range
<1>6. CASE i <= Len(s) /\ j <= Len(s)
  BY <1>3, <1>4, <1>6, Zenon DEF IsInjective
<1>7. CASE ~(i <= Len(s)) /\ ~(j <= Len(s))
  <2>1. i - Len(s) = j - Len(s)
    BY <1>3, <1>4, <1>7, Zenon DEF IsInjective
  <2> QED
    BY <1>2, <2>1
<1>8. CASE i <= Len(s) /\ ~(j <= Len(s))
  BY <1>3, <1>4, <1>5, <1>8, Zenon
<1>9. CASE ~(i <= Len(s)) /\ j <= Len(s)
  BY <1>3, <1>4, <1>5, <1>9, Zenon
<1> QED
  BY <1>6, <1>7, <1>8, <1>9, Zenon

\* A slice is a sequence.
LEMMA SliceIsSeq ==
  ASSUME NEW s \in Slice \cup {<<>>}
  PROVE  s \in Seq(Nat)
<1>1. CASE s = <<>>
  BY <1>1, SeqEmpty
<1>2. CASE s \in Slice
  BY <1>2, 4 \in Nat, SeqOfFunction, Zenon DEF Slice
<1> QED
  BY <1>1, <1>2

-----------------------------------------------------------------------------
\* What one call of Assignment does: on success the address leaves the pool
\* and was nowhere outside it; on failure nothing but the cursor changes.
LEMMA AssignmentSound ==
  ASSUME NEW p, NEW X, Sound(p, X)
  PROVE  LET r == Assignment(p)
         IN  /\ r.ok \in BOOLEAN
             /\ r.ok => /\ r.ip \in Nat /\ r.ip \notin X
                        /\ Sound(r.pool, X \cup {r.ip})
             /\ ~r.ok => Sound(r.pool, X)
<1> DEFINE r == Assignment(p)
<1>0. /\ SubnetFirst \in Nat /\ SubnetLast \in Nat /\ StartIP \in Nat
      /\ SubnetFirst <= StartIP
  BY PoolAssumption
<1>1. /\ p \in [lastFromPool : Nat, free : Seq(Nat)]
      /\ p.lastFromPool \in Nat /\ p.free \in Seq(Nat)
      /\ IsInjective(p.free)
      /\ StartIP <= p.lastFromPool
      /\ Range(p.free) \cap X = {}
      /\ \A a \in Range(p.free) \cup X : Usable(a, p)
  BY DEF Sound
<1>2. CASE p.free # <<>>
  <2> DEFINE q == [p EXCEPT !.free = Tail(@)]
  <2>1. r.pool = q /\ r.ip = Head(p.free) /\ r.ok = TRUE
    BY <1>2 DEF Assignment
  <2>2. /\ Tail(p.free) \in Seq(Nat)
        /\ IsInjective(Tail(p.free))
        /\ Head(p.free) \in Range(p.free)
        /\ Range(Tail(p.free)) \subseteq Range(p.free)
        /\ Head(p.free) \notin Range(Tail(p.free))
    BY <1>1, <1>2, HeadTailSplit
  <2>3. /\ q \in [lastFromPool : Nat, free : Seq(Nat)]
        /\ q.lastFromPool = p.lastFromPool /\ q.free = Tail(p.free)
    BY <1>1, <2>2, Zenon
  <2>4. Head(p.free) \in Nat /\ Head(p.free) \notin X
    BY <1>1, <2>2 DEF Usable
  <2>5. \A a \in Range(q.free) \cup X \cup {Head(p.free)} : Usable(a, q)
    BY <1>1, <2>2, <2>3 DEF Usable
  <2>6. Sound(q, X \cup {Head(p.free)})
    BY <1>1, <2>2, <2>3, <2>5, Zenon DEF Sound
  <2> QED
    BY <2>1, <2>4, <2>6, Zenon
<1>3. CASE p.free = <<>>
  <2> DEFINE q == [p EXCEPT !.lastFromPool = p.lastFromPool + 1]
  <2>1. r.pool = q /\ r.ip = p.lastFromPool /\ r.ok = InSubnet(p.lastFromPool + 1)
    BY <1>3 DEF Assignment, getNextFromPool
  <2>2. /\ q \in [lastFromPool : Nat, free : Seq(Nat)]
        /\ q.lastFromPool = p.lastFromPool + 1 /\ q.free = p.free
    BY <1>1
  <2>3. Range(p.free) = {}
    BY <1>3 DEF Range
  <2>4. \A a \in X : Usable(a, q) /\ a # p.lastFromPool
    BY <1>1, <2>2 DEF Usable
  <2>5. Sound(q, X)
    <3>1. StartIP <= q.lastFromPool
      BY <1>0, <1>1, <2>2
    <3> QED
      BY <1>1, <2>2, <2>3, <2>4, <3>1, Zenon DEF Sound
  <2>6. ASSUME InSubnet(p.lastFromPool + 1)
        PROVE  Sound(q, X \cup {p.lastFromPool})
    <3>1. Usable(p.lastFromPool, q)
      BY <1>0, <1>1, <2>2, <2>6 DEF Usable, InSubnet
    <3> QED
      BY <2>2, <2>3, <2>4, <2>5, <3>1, Zenon DEF Sound
  <2>7. InSubnet(p.lastFromPool + 1) \in BOOLEAN
    BY DEF InSubnet
  <2> QED
    BY <1>1, <2>1, <2>4, <2>5, <2>6, <2>7
<1> QED
  BY <1>2, <1>3

\* FreeAssignment of addresses that are outside the pool, none of them twice.
LEMMA FreeAssignmentSound ==
  ASSUME NEW p, NEW X, Sound(p, X),
         NEW s \in Seq(Nat), IsInjective(s), Range(s) \subseteq X
  PROVE  Sound(FreeAssignment(p, s), X \ Range(s))
<1> DEFINE q == [p EXCEPT !.free = @ \o s]
<1>1. /\ p \in [lastFromPool : Nat, free : Seq(Nat)]
      /\ p.lastFromPool \in Nat /\ p.free \in Seq(Nat)
      /\ IsInjective(p.free) /\ Range(p.free) \cap Range(s) = {}
      /\ StartIP <= p.lastFromPool
      /\ Range(p.free) \cap X = {}
      /\ \A a \in Range(p.free) \cup X : Usable(a, p)
  BY DEF Sound
<1>2. p.free \o s \in Seq(Nat) /\ Range(p.free \o s) = Range(p.free) \cup Range(s)
  BY <1>1, SeqConcat, ConcatRange
<1>3. IsInjective(p.free \o s)
  BY <1>1, ConcatInjective
<1>4. /\ q \in [lastFromPool : Nat, free : Seq(Nat)]
      /\ q.lastFromPool = p.lastFromPool /\ q.free = p.free \o s
  BY <1>1, <1>2, Zenon
<1>5. \A a \in Range(q.free) \cup (X \ Range(s)) : Usable(a, q)
  BY <1>1, <1>2, <1>4 DEF Usable
<1>6. Sound(q, X \ Range(s))
  BY <1>1, <1>2, <1>3, <1>4, <1>5, Zenon DEF Sound
<1> QED
  BY <1>6 DEF FreeAssignment

\* IPInterface returns four different addresses that nobody had, or fails and
\* leaves a sound pool.
LEMMA IPInterfaceSound ==
  ASSUME NEW p, NEW X, Sound(p, X)
  PROVE  LET r == IPInterface(p)
         IN  /\ r.ok \in BOOLEAN
             /\ r.ok => /\ r.slice \in Slice
                        /\ IsInjective(r.slice)
                        /\ Range(r.slice) \cap X = {}
                        /\ Sound(r.pool, X \cup Range(r.slice))
             /\ ~r.ok => Sound(r.pool, X)
<1> DEFINE a1 == Assignment(p)
           a2 == Assignment(a1.pool)
           a3 == Assignment(a2.pool)
           a4 == Assignment(a3.pool)
           X1 == X \cup {a1.ip}
           X2 == X1 \cup {a2.ip}
           X3 == X2 \cup {a3.ip}
           X4 == X3 \cup {a4.ip}
           r == IPInterface(p)
<1> SUFFICES /\ r.ok \in BOOLEAN
             /\ r.ok => /\ r.slice \in Slice
                        /\ IsInjective(r.slice)
                        /\ Range(r.slice) \cap X = {}
                        /\ Sound(r.pool, X \cup Range(r.slice))
             /\ ~r.ok => Sound(r.pool, X)
  BY Zenon
<1>1. /\ a1.ok \in BOOLEAN
      /\ a1.ok => a1.ip \in Nat /\ a1.ip \notin X /\ Sound(a1.pool, X1)
      /\ ~a1.ok => Sound(a1.pool, X)
  BY AssignmentSound
<1>2. ASSUME a1.ok
      PROVE  /\ a2.ok \in BOOLEAN
             /\ a2.ok => a2.ip \in Nat /\ a2.ip \notin X1 /\ Sound(a2.pool, X2)
             /\ ~a2.ok => Sound(a2.pool, X1)
  <2>1. Sound(a1.pool, X1)
    BY <1>1, <1>2
  <2> HIDE DEF a1, X1
  <2> QED
    BY <2>1, AssignmentSound
<1>3. ASSUME a1.ok, a2.ok
      PROVE  /\ a3.ok \in BOOLEAN
             /\ a3.ok => a3.ip \in Nat /\ a3.ip \notin X2 /\ Sound(a3.pool, X3)
             /\ ~a3.ok => Sound(a3.pool, X2)
  <2>1. Sound(a2.pool, X2)
    BY <1>2, <1>3
  <2> HIDE DEF a2, X2
  <2> QED
    BY <2>1, AssignmentSound, Zenon
<1>4. ASSUME a1.ok, a2.ok, a3.ok
      PROVE  /\ a4.ok \in BOOLEAN
             /\ a4.ok => a4.ip \in Nat /\ a4.ip \notin X3 /\ Sound(a4.pool, X4)
             /\ ~a4.ok => Sound(a4.pool, X3)
  <2>1. Sound(a3.pool, X3)
    BY <1>3, <1>4
  <2> HIDE DEF a3, X3
  <2> QED
    BY <2>1, AssignmentSound
<1>5. /\ ~a1.ok => r = [pool |-> a1.pool, slice |-> <<>>, ok |-> FALSE]
      /\ a1.ok /\ ~a2.ok =>
           r = [pool |-> FreeAssignment(a2.pool, <<a1.ip>>), slice |-> <<>>, ok |-> FALSE]
      /\ a1.ok /\ a2.ok /\ ~a3.ok => r = [pool |-> a3.pool, slice |-> <<>>, ok |-> FALSE]
      /\ a1.ok /\ a2.ok /\ a3.ok /\ ~a4.ok => r = [pool |-> a4.pool, slice |-> <<>>, ok |-> FALSE]
      /\ a1.ok /\ a2.ok /\ a3.ok /\ a4.ok =>
           r = [pool |-> a4.pool, slice |-> <<a1.ip, a2.ip, a3.ip, a4.ip>>, ok |-> TRUE]
  BY Zenon DEF IPInterface
<1> HIDE DEF a1, a2, a3, a4, r
<1>6. CASE ~a1.ok
  <2>1. r.ok = FALSE /\ r.pool = a1.pool
    BY <1>5, <1>6
  <2> QED
    BY <1>1, <1>6, <2>1, Zenon
<1>7. CASE a1.ok /\ ~a2.ok
  <2>1. a1.ip \in Nat /\ a1.ip \notin X /\ Sound(a2.pool, X1)
    BY <1>1, <1>2, <1>7
  <2>2. <<a1.ip>> \in Seq(Nat) /\ IsInjective(<<a1.ip>>) /\ Range(<<a1.ip>>) = {a1.ip}
    BY <2>1 DEF IsInjective, Range
  <2>3. Sound(FreeAssignment(a2.pool, <<a1.ip>>), X1 \ {a1.ip})
    <3>1. Range(<<a1.ip>>) \subseteq X1
      BY <2>2
    <3> HIDE DEF X1
    <3>2. Sound(FreeAssignment(a2.pool, <<a1.ip>>), X1 \ Range(<<a1.ip>>))
      BY <2>1, <2>2, <3>1, FreeAssignmentSound, Zenon
    <3> QED
      BY <2>2, <3>2, Zenon
  <2>4. X1 \ {a1.ip} = X
    BY <2>1
  <2>5. Sound(FreeAssignment(a2.pool, <<a1.ip>>), X)
    BY <2>3, <2>4, Zenon
  <2>6. r.ok = FALSE /\ r.pool = FreeAssignment(a2.pool, <<a1.ip>>)
    BY <1>5, <1>7
  <2> QED
    BY <2>5, <2>6, Zenon
<1>8. CASE a1.ok /\ a2.ok /\ ~a3.ok
  <2>1. Sound(a3.pool, X2) /\ X \subseteq X2
    BY <1>3, <1>8
  <2>2. Sound(a3.pool, X)
    <3> HIDE DEF X2
    <3> QED
      BY <2>1, SoundSubset
  <2>3. r.ok = FALSE /\ r.pool = a3.pool
    BY <1>5, <1>8
  <2> QED
    BY <2>2, <2>3, Zenon
<1>9. CASE a1.ok /\ a2.ok /\ a3.ok /\ ~a4.ok
  <2>1. Sound(a4.pool, X3) /\ X \subseteq X3
    BY <1>4, <1>9
  <2>2. Sound(a4.pool, X)
    <3> HIDE DEF X3
    <3> QED
      BY <2>1, SoundSubset
  <2>3. r.ok = FALSE /\ r.pool = a4.pool
    BY <1>5, <1>9
  <2> QED
    BY <2>2, <2>3, Zenon
<1>10. CASE a1.ok /\ a2.ok /\ a3.ok /\ a4.ok
  <2> DEFINE s == <<a1.ip, a2.ip, a3.ip, a4.ip>>
  <2>1. /\ a1.ip \in Nat /\ a1.ip \notin X
        /\ a2.ip \in Nat /\ a2.ip \notin X1
        /\ a3.ip \in Nat /\ a3.ip \notin X2
        /\ a4.ip \in Nat /\ a4.ip \notin X3
        /\ Sound(a4.pool, X4)
    BY <1>1, <1>2, <1>3, <1>4, <1>10
  <2>2. /\ DOMAIN s = 1..4
        /\ s[1] = a1.ip /\ s[2] = a2.ip /\ s[3] = a3.ip /\ s[4] = a4.ip
    OBVIOUS
  <2>3. s \in Slice
    BY <2>1 DEF Slice
  <2> HIDE DEF s
  <2>4. \A i \in 1..4 : i = 1 \/ i = 2 \/ i = 3 \/ i = 4
    OBVIOUS
  <2>5. Range(s) = {a1.ip, a2.ip, a3.ip, a4.ip}
    BY <2>2, <2>4 DEF Range
  <2>6. IsInjective(s)
    BY <2>1, <2>2, <2>4 DEF IsInjective
  <2>7. Range(s) \cap X = {} /\ X \cup Range(s) = X4
    BY <2>1, <2>5
  <2>8. r.slice = s /\ r.pool = a4.pool /\ r.ok = TRUE
    BY <1>5, <1>10 DEF s
  <2> HIDE DEF X4
  <2> QED
    BY <2>1, <2>3, <2>6, <2>7, <2>8, Zenon
<1> QED
  BY <1>1, <1>2, <1>3, <1>4, <1>6, <1>7, <1>8, <1>9, <1>10

-----------------------------------------------------------------------------
\* A slice that is handed out or returned changes the addresses on loan by its
\* own addresses and by no others.
LEMMA LoanedChange ==
  ASSUME NEW id \in SiloIDs, NEW s, held \in [SiloIDs -> Slice \cup {<<>>}],
         held' = [held EXCEPT ![id] = s]
  PROVE  /\ held[id] = <<>> => Loaned' = Loaned \cup Range(s)
         /\ s = <<>> /\ (\A j \in SiloIDs : j # id => Range(held[id]) \cap Range(held[j]) = {})
              => Loaned' = Loaned \ Range(held[id])
<1>1. /\ held'[id] = s
      /\ \A j \in SiloIDs : j # id => held'[j] = held[j]
  OBVIOUS
<1>2. Range(<<>>) = {}
  BY DEF Range
<1>3. Loaned' = UNION {Range(held'[j]) : j \in SiloIDs}
  BY DEF Loaned, Range
<1>4. ASSUME held[id] = <<>>
      PROVE  Loaned' = Loaned \cup Range(s)
  BY <1>1, <1>2, <1>3, <1>4, Zenon DEF Loaned
<1>5. ASSUME s = <<>>, \A j \in SiloIDs : j # id => Range(held[id]) \cap Range(held[j]) = {}
      PROVE  Loaned' = Loaned \ Range(held[id])
  <2>1. ASSUME NEW a \in Loaned'
        PROVE  a \in Loaned \ Range(held[id])
    <3>1. PICK j \in SiloIDs : a \in Range(held'[j])
      BY <1>3, <2>1, Zenon
    <3>2. j # id
      BY <1>1, <1>2, <1>5, <3>1, Zenon
    <3>3. a \in Range(held[j])
      BY <1>1, <3>1, <3>2, Zenon
    <3> QED
      BY <1>5, <3>2, <3>3, Zenon DEF Loaned
  <2>2. ASSUME NEW a \in Loaned \ Range(held[id])
        PROVE  a \in Loaned'
    <3>1. PICK j \in SiloIDs : a \in Range(held[j])
      BY Zenon DEF Loaned
    <3>2. j # id
      BY <3>1, <2>2, Zenon
    <3> QED
      BY <1>1, <1>3, <3>1, <3>2, Zenon
  <2> QED
    BY <2>1, <2>2, Zenon
<1> QED
  BY <1>4, <1>5

\* A new pool, with nothing on loan, satisfies the invariant.
LEMMA PoolInvInit ==
  PoolInit => PoolInv
<1> SUFFICES ASSUME PoolInit PROVE PoolInv
  OBVIOUS
<1>1. Range(<<>>) = {} /\ IsInjective(<<>>)
  BY DEF Range, IsInjective
<1>2. /\ held \in [SiloIDs -> Slice \cup {<<>>}]
      /\ \A i \in SiloIDs : held[i] = <<>>
  BY DEF PoolInit
<1>3. Loaned = {}
  BY <1>1, <1>2, Zenon DEF Loaned
<1>4. pool = [lastFromPool |-> StartIP, free |-> <<>>] /\ StartIP \in Nat
  BY PoolAssumption DEF PoolInit, NewIPPool
<1>5. /\ pool \in [lastFromPool : Nat, free : Seq(Nat)]
      /\ pool.free = <<>> /\ StartIP <= pool.lastFromPool
  BY <1>4, SeqEmpty
<1>6. Sound(pool, Loaned)
  BY <1>1, <1>3, <1>5, Zenon DEF Sound
<1> QED
  BY <1>1, <1>2, <1>6, Zenon DEF PoolInv

\* Every call of IPInterface and FreeAssignment preserves the invariant.
LEMMA PoolInvStep ==
  PoolInv /\ [PoolNext]_poolVars => PoolInv'
<1> SUFFICES ASSUME PoolInv, [PoolNext]_poolVars PROVE PoolInv'
  OBVIOUS
<1>1. /\ held \in [SiloIDs -> Slice \cup {<<>>}]
      /\ Sound(pool, Loaned)
      /\ \A i \in SiloIDs : IsInjective(held[i])
      /\ \A i, j \in SiloIDs : i # j => Range(held[i]) \cap Range(held[j]) = {}
  BY DEF PoolInv
<1> DEFINE r == IPInterface(pool)
<1>2. /\ r.ok => /\ r.slice \in Slice
                 /\ IsInjective(r.slice)
                 /\ Range(r.slice) \cap Loaned = {}
                 /\ Sound(r.pool, Loaned \cup Range(r.slice))
      /\ ~r.ok => Sound(r.pool, Loaned)
  BY <1>1, IPInterfaceSound, Zenon
<1>3. ASSUME UNCHANGED held
      PROVE  Loaned' = Loaned
  BY <1>3 DEF Loaned
<1>4. CASE PoolAllocFails
  <2>1. pool' = r.pool /\ ~r.ok /\ UNCHANGED held
    BY <1>4 DEF PoolAllocFails
  <2>2. Sound(pool', Loaned')
    BY <1>2, <1>3, <2>1, Zenon
  <2> QED
    BY <1>1, <2>1, <2>2 DEF PoolInv, Sound
<1>5. ASSUME NEW id \in SiloIDs, PoolAlloc(id)
      PROVE  PoolInv'
  <2>1. held[id] = <<>> /\ r.ok /\ pool' = r.pool /\ held' = [held EXCEPT ![id] = r.slice]
    BY <1>5 DEF PoolAlloc
  <2> HIDE DEF r
  <2>2. Loaned' = Loaned \cup Range(r.slice)
    BY <1>1, <2>1, LoanedChange, Zenon
  <2>3. Sound(pool', Loaned')
    BY <1>2, <2>1, <2>2, Zenon
  <2>4. /\ held' \in [SiloIDs -> Slice \cup {<<>>}]
        /\ held'[id] = r.slice
        /\ \A j \in SiloIDs : j # id => held'[j] = held[j]
    BY <1>1, <1>2, <2>1
  <2>5. \A i \in SiloIDs : IsInjective(held'[i])
    BY <1>1, <1>2, <2>1, <2>4, Zenon
  <2>6. \A j \in SiloIDs : Range(held[j]) \subseteq Loaned
    BY DEF Loaned
  <2>7. \A j \in SiloIDs : Range(r.slice) \cap Range(held[j]) = {}
    BY <1>2, <2>1, <2>6
  <2>8. \A i, j \in SiloIDs : i # j => Range(held'[i]) \cap Range(held'[j]) = {}
    BY <1>1, <2>4, <2>7, Zenon
  <2> QED
    BY <2>3, <2>4, <2>5, <2>8, Zenon DEF PoolInv, Sound, IsInjective, Range
<1>6. ASSUME NEW id \in SiloIDs, PoolFree(id)
      PROVE  PoolInv'
  <2>1. /\ pool' = FreeAssignment(pool, held[id])
        /\ held' = [held EXCEPT ![id] = <<>>]
    BY <1>6 DEF PoolFree
  <2>2. held[id] \in Seq(Nat)
    BY <1>1, SliceIsSeq
  <2>3. Range(held[id]) \subseteq Loaned
    BY DEF Loaned
  <2>4. Loaned' = Loaned \ Range(held[id])
    BY <1>1, <2>1, LoanedChange, Zenon
  <2>5. Sound(pool', Loaned')
    BY <1>1, <2>1, <2>2, <2>3, <2>4, FreeAssignmentSound, Zenon
  <2>6. /\ held' \in [SiloIDs -> Slice \cup {<<>>}]
        /\ held'[id] = <<>>
        /\ \A j \in SiloIDs : j # id => held'[j] = held[j]
    BY <1>1, <2>1
  <2>7. Range(<<>>) = {} /\ IsInjective(<<>>)
    BY DEF Range, IsInjective
  <2>8. \A i \in SiloIDs : IsInjective(held'[i])
    BY <1>1, <2>6, <2>7, Zenon
  <2>9. \A i, j \in SiloIDs : i # j => Range(held'[i]) \cap Range(held'[j]) = {}
    BY <1>1, <2>6, <2>7, Zenon
  <2> QED
    BY <2>5, <2>6, <2>8, <2>9, Zenon DEF PoolInv, Sound, IsInjective, Range
<1>7. CASE UNCHANGED poolVars
  BY <1>1, <1>3, <1>7 DEF PoolInv, Sound, poolVars
<1> QED
  BY <1>4, <1>5, <1>6, <1>7 DEF PoolNext

\* The invariant holds in every state of the pool and its callers.
THEOREM PoolInvariant == PoolSpec => []PoolInv
BY PoolInvInit, PoolInvStep, PTL DEF PoolSpec

\* IPPool and its callers keep to their types.
THEOREM PoolTypeCorrect == PoolSpec => []PoolTypeOK
<1>1. PoolInv => PoolTypeOK
  BY DEF PoolInv, PoolTypeOK, Sound
<1> QED
  BY <1>1, PoolInvariant, PTL

\* No address is in two places: whatever the order of IPInterface and
\* FreeAssignment calls, and however often the pool was exhausted.
THEOREM AddressesUnique == PoolSpec => []NoAddressTwice
<1>1. PoolInv => NoAddressTwice
  <2> SUFFICES ASSUME PoolInv PROVE NoAddressTwice
    OBVIOUS
  <2>1. \A i \in SiloIDs : Range(held[i]) \cap Free = {}
    BY DEF PoolInv, Sound, Loaned, Free
  <2> QED
    BY <2>1, Zenon DEF PoolInv, Sound, NoAddressTwice
<1> QED
  BY <1>1, PoolInvariant, PTL

\* Only addresses below the last one of the subnet that the cursor has passed
\* are ever handed out or kept for reuse.
THEOREM AddressesUsable == PoolSpec => []OnlyUsableAddresses
<1>1. PoolInv => OnlyUsableAddresses
  BY DEF PoolInv, Sound, Usable, Free, OnlyUsableAddresses
<1> QED
  BY <1>1, PoolInvariant, PTL

-----------------------------------------------------------------------------
(***************************************************************************)
(* The silos.                                                              *)
(***************************************************************************)
Sane(s, h, br, nt) ==
  /\ s.State \notin {"Finished", "Dropped"} => h = s.slice
  /\ s.State # "None" => s.slice # <<>>
  /\ s.child = "alive" => s.State = "Running"
  /\ s.isSetup => s.State \in {"Running", "Finished"}
  /\ s.isSetup /\ (br \/ nt) => h = s.slice
  /\ nt => s.inet /\ s.State \in {"Running", "Finished"}

HostType ==
  [bridge : SUBSET SiloIDs, nat : SUBSET SiloIDs, cgroup : SUBSET SiloIDs, root : SUBSET SiloIDs]

SilosSane ==
  /\ silo \in [SiloIDs -> StructType]
  /\ host \in HostType
  /\ \A id \in SiloIDs : Sane(silo[id], held[id], id \in host.bridge, id \in host.nat)

\* A step leaves the bridges and the NAT rules of the other silos alone.
OthersKept(id) ==
  \A j \in SiloIDs \ {id} :
    /\ (j \in host'.bridge) <=> (j \in host.bridge)
    /\ (j \in host'.nat) <=> (j \in host.nat)

\* The inductive invariant of the silos over the pool.
SiloInv == PoolInv /\ SilosSane

\* A step of one silo that leaves the addresses, the bridges and the NAT rules
\* of the others alone.
LEMMA OneSiloChanges ==
  ASSUME SilosSane, NEW id \in SiloIDs, NEW t \in StructType,
         silo' = [silo EXCEPT ![id] = t],
         host' \in HostType,
         \A j \in SiloIDs \ {id} : held'[j] = held[j],
         OthersKept(id),
         Sane(t, held'[id], id \in host'.bridge, id \in host'.nat)
  PROVE  SilosSane'
<1>1. /\ silo' \in [SiloIDs -> StructType]
      /\ silo'[id] = t
      /\ \A j \in SiloIDs : j # id => silo'[j] = silo[j]
  BY DEF SilosSane
<1>2. ASSUME NEW j \in SiloIDs
      PROVE  Sane(silo'[j], held'[j], j \in host'.bridge, j \in host'.nat)
  <2>1. CASE j = id
    BY <1>1, <2>1
  <2>2. CASE j # id
    <3>1. Sane(silo[j], held[j], j \in host.bridge, j \in host.nat)
      BY DEF SilosSane
    <3>2. silo'[j] = silo[j] /\ held'[j] = held[j]
      BY <1>1, <2>2, Zenon
    <3>3. (j \in host'.bridge <=> j \in host.bridge) /\ (j \in host'.nat <=> j \in host.nat)
      BY <2>2, Zenon DEF OthersKept
    <3> QED
      BY <3>1, <3>2, <3>3, Zenon DEF Sane
  <2> QED
    BY <2>1, <2>2
<1> QED
  BY <1>1, <1>2, Zenon DEF SilosSane, Sane

\* What is known of one silo and of the host in a state of the invariant.
LEMMA SaneFacts ==
  ASSUME SiloInv, NEW id \in SiloIDs
  PROVE  /\ silo \in [SiloIDs -> StructType] /\ silo[id] \in StructType
         /\ host \in HostType
         /\ held \in [SiloIDs -> Slice \cup {<<>>}]
         /\ silo[id].State \notin {"Finished", "Dropped"} => held[id] = silo[id].slice
         /\ silo[id].State # "None" => silo[id].slice # <<>>
         /\ silo[id].child = "alive" => silo[id].State = "Running"
         /\ silo[id].isSetup => silo[id].State \in {"Running", "Finished"}
         /\ silo[id].isSetup /\ (id \in host.bridge \/ id \in host.nat) => held[id] = silo[id].slice
         /\ id \in host.nat => silo[id].inet /\ silo[id].State \in {"Running", "Finished"}
BY DEF SiloInv, SilosSane, Sane, PoolInv

\* A struct stays one when the fields that the operations assign change.
States == {"None", "Setup", "InternalError", "Dropped", "Pending", "Running", "Finished"}

Children == {"none", "alive", "killed", "zombie", "done", "reaped"}

LEMMA StructUpdates ==
  ASSUME NEW s \in StructType
  PROVE  /\ \A st \in States : [s EXCEPT !.State = st] \in StructType
         /\ \A c \in Children : [s EXCEPT !.child = c] \in StructType
         /\ \A st \in States, c \in Children : [s EXCEPT !.State = st, !.child = c] \in StructType
         /\ \A st \in States, b, d \in BOOLEAN :
              [s EXCEPT !.State = st, !.inet = b, !.limits = d] \in StructType
         /\ \A st \in States, c \in Children, b \in BOOLEAN :
              [s EXCEPT !.State = st, !.child = c, !.isSetup = b] \in StructType
         /\ \A st \in States, c \in Children, b, d \in BOOLEAN :
              [s EXCEPT !.State = st, !.child = c, !.isSetup = b, !.cgroupSet = d] \in StructType
<1>1. ASSUME NEW st \in States PROVE [s EXCEPT !.State = st] \in StructType
  BY DEF StructType, States
<1>2. ASSUME NEW c \in Children PROVE [s EXCEPT !.child = c] \in StructType
  BY DEF StructType, Children
<1>3. ASSUME NEW st \in States, NEW c \in Children
      PROVE  [s EXCEPT !.State = st, !.child = c] \in StructType
  BY Zenon DEF StructType, States, Children
<1>4. ASSUME NEW st \in States, NEW b \in BOOLEAN, NEW d \in BOOLEAN
      PROVE  [s EXCEPT !.State = st, !.inet = b, !.limits = d] \in StructType
  BY Zenon DEF StructType, States
<1>5. ASSUME NEW st \in States, NEW c \in Children, NEW b \in BOOLEAN
      PROVE  [s EXCEPT !.State = st, !.child = c, !.isSetup = b] \in StructType
  BY Zenon DEF StructType, States, Children
<1>6. ASSUME NEW st \in States, NEW c \in Children, NEW b \in BOOLEAN, NEW d \in BOOLEAN
      PROVE  [s EXCEPT !.State = st, !.child = c, !.isSetup = b, !.cgroupSet = d] \in StructType
  BY Zenon DEF StructType, States, Children
<1> QED
  BY <1>1, <1>2, <1>3, <1>4, <1>5, <1>6, Zenon

LEMMA IsStruct ==
  ASSUME SiloInv, NEW id \in SiloIDs
  PROVE  silo[id] \in StructType
BY SaneFacts

\* No silo has anything at the start.
LEMMA SiloInvInit ==
  SiloInit => SiloInv
<1> SUFFICES ASSUME SiloInit PROVE SiloInv
  OBVIOUS
<1>1. PoolInv
  BY PoolInvInit DEF SiloInit
<1>2. NoStruct \in StructType
  BY DEF NoStruct, StructType
<1>3. /\ silo \in [SiloIDs -> StructType]
      /\ \A id \in SiloIDs : silo[id] = NoStruct
  BY <1>2 DEF SiloInit
<1>4. host \in HostType /\ host.bridge = {} /\ host.nat = {}
  BY DEF SiloInit, HostType
<1>5. \A id \in SiloIDs : held[id] = <<>>
  BY DEF SiloInit, PoolInit
<1>6. \A id \in SiloIDs : Sane(silo[id], held[id], id \in host.bridge, id \in host.nat)
  BY <1>3, <1>4, <1>5 DEF Sane, NoStruct
<1> QED
  BY <1>1, <1>3, <1>4, <1>6 DEF SiloInv, SilosSane

-----------------------------------------------------------------------------
\* Close, with its two conditions named: torn says that the silo is Finished
\* now, freed that its addresses were returned.
LEMMA CloseEffect ==
  ASSUME SiloInv, NEW id \in SiloIDs, NEW err, Close(id, err)
  PROVE  \E torn, freed \in BOOLEAN :
           /\ torn => silo[id].State = "Running"
           /\ freed => torn
           /\ silo' = IF torn THEN [silo EXCEPT ![id].State = "Finished", ![id].child = Killed(@)]
                              ELSE silo
           /\ host' \in HostType
           /\ OthersKept(id)
           /\ id \in host'.bridge => id \in host.bridge /\ ~(freed /\ silo[id].isSetup)
           /\ id \in host'.nat => /\ id \in host.nat
                                 /\ ~(freed /\ silo[id].isSetup /\ silo[id].inet)
           /\ pool' = IF freed THEN FreeAssignment(pool, silo[id].slice) ELSE pool
           /\ held' = IF freed THEN [held EXCEPT ![id] = <<>>] ELSE held
<1> DEFINE s == silo[id]
           Past(step) == HasProcess(s) /\ step < CloseStep[err]
<1>1. /\ err \in CloseErrors(s)
      /\ silo' = IF Past(1)
                 THEN [silo EXCEPT ![id].State = "Finished", ![id].child = Killed(@)]
                 ELSE silo
      /\ pool' = IF Past(FreeStep) THEN FreeAssignment(pool, s.slice) ELSE pool
      /\ held' = IF Past(FreeStep) THEN [held EXCEPT ![id] = <<>>] ELSE held
  BY Zenon DEF Close
<1>2. PICK left \in CGroupLeft(s) :
        host' = [host EXCEPT
             !.nat    = With(@, id, id \in @ /\ ~(Past(2) /\ s.isSetup /\ s.inet)),
             !.bridge = With(@, id, id \in @ /\ ~(Past(3) /\ s.isSetup)),
             !.cgroup = With(@, id, id \in @ /\ ~(Past(5) /\ s.cgroupSet /\ ~left)),
             !.root   = With(@, id, id \in @ /\ ~(CloseStep["root"] < CloseStep[err]))]
  BY Zenon DEF Close
<1>3. CloseStep[err] \in Nat
  <2>1. err \in {"none", "root", "pid", "nat", "bridge", "cgroup"}
    BY <1>1 DEF CloseErrors
  <2> QED
    BY <2>1 DEF CloseStep
<1>4. /\ Past(1) => s.State = "Running"
      /\ Past(FreeStep) => Past(1) /\ Past(2) /\ Past(3)
      /\ Past(1) \in BOOLEAN /\ Past(FreeStep) \in BOOLEAN
  BY <1>3 DEF HasProcess, FreeStep
<1>5. host \in HostType
  BY SaneFacts
<1>6. /\ host' \in HostType
      /\ host'.nat = With(host.nat, id, id \in host.nat /\ ~(Past(2) /\ s.isSetup /\ s.inet))
      /\ host'.bridge = With(host.bridge, id, id \in host.bridge /\ ~(Past(3) /\ s.isSetup))
  <2> HIDE DEF Past, s
  <2> QED
    BY <1>2, <1>5, ZenonT(40) DEF HostType, With
<1> HIDE DEF Past
<1>7. OthersKept(id)
  BY <1>6 DEF With, OthersKept
<1>8. /\ id \in host'.bridge => id \in host.bridge /\ ~(Past(FreeStep) /\ s.isSetup)
      /\ id \in host'.nat => id \in host.nat /\ ~(Past(FreeStep) /\ s.isSetup /\ s.inet)
  BY <1>4, <1>6 DEF With
<1> QED
  BY <1>1, <1>4, <1>6, <1>7, <1>8, Zenon

\* Every step of the silos is a step of the pool or leaves it alone.
LEMMA PoolStep ==
  SiloInv /\ [SiloNext]_siloVars => [PoolNext]_poolVars
<1> SUFFICES ASSUME SiloInv, [SiloNext]_siloVars PROVE [PoolNext]_poolVars
  OBVIOUS
<1>1. CASE TakeInterfaceFails
  BY <1>1 DEF TakeInterfaceFails, PoolNext
<1>2. ASSUME NEW id \in SiloIDs, TakeInterface(id)
      PROVE  PoolNext
  BY <1>2 DEF TakeInterface, PoolNext
<1>3. ASSUME NEW id \in SiloIDs, NEW err, Close(id, err)
      PROVE  [PoolNext]_poolVars
  <2>1. PICK torn, freed \in BOOLEAN :
          /\ torn => silo[id].State = "Running"
          /\ freed => torn
          /\ pool' = IF freed THEN FreeAssignment(pool, silo[id].slice) ELSE pool
          /\ held' = IF freed THEN [held EXCEPT ![id] = <<>>] ELSE held
    BY <1>3, CloseEffect, Zenon
  <2>2. CASE freed
    <3>1. held[id] = silo[id].slice /\ held[id] # <<>>
      BY <2>1, <2>2, SaneFacts
    <3>2. PoolFree(id)
      BY <2>1, <2>2, <3>1 DEF PoolFree
    <3> QED
      BY <3>2 DEF PoolNext
  <2>3. CASE ~freed
    BY <2>1, <2>3, Zenon DEF poolVars
  <2> QED
    BY <2>2, <2>3
<1>4. ASSUME NEW id \in SiloIDs,
             \/ \E req \in Requests : NewSilo(id, req)
             \/ InitSilo(id) \/ InitFails(id) \/ Start(id) \/ StartFails(id)
             \/ Exit(id) \/ Die(id) \/ WaitDone(id) \/ WaitReap(id)
      PROVE  UNCHANGED poolVars
  BY <1>4, Zenon DEF NewSilo, InitSilo, InitFails, InitFailsTempDir, InitFailsBase,
              InitFailsFiles, InitFailsInvocation, siloVars, Start, StartFails, StartFailsExec, StartFailsNet,
              StartFailsLimit, Exit, Die, WaitDone, WaitReap, SetChild, poolVars
<1>5. ASSUME NEW id \in SiloIDs, ReturnSlice(id)
      PROVE  PoolNext
  <2>1. held[id] = silo[id].slice /\ held[id] # <<>>
    BY <1>5, SaneFacts DEF ReturnSlice, GiveSliceBack
  <2>2. PoolFree(id)
    BY <1>5, <2>1 DEF ReturnSlice, GiveSliceBack, PoolFree
  <2> QED
    BY <2>2 DEF PoolNext
<1>6. CASE UNCHANGED siloVars
  BY <1>6 DEF siloVars, poolVars
<1> QED
  BY <1>1, <1>2, <1>3, <1>4, <1>5, <1>6 DEF SiloNext

\* Every step leaves every silo sane.
LEMMA SaneStep ==
  SiloInv /\ PoolInv' /\ [SiloNext]_siloVars => SilosSane'
<1> SUFFICES ASSUME SiloInv, PoolInv', [SiloNext]_siloVars PROVE SilosSane'
  OBVIOUS
<1>0. held' \in [SiloIDs -> Slice \cup {<<>>}]
  BY DEF PoolInv
<1>1. CASE UNCHANGED siloVars
  BY <1>1 DEF SiloInv, SilosSane, siloVars, Sane
<1>2. CASE TakeInterfaceFails
  BY <1>2 DEF SiloInv, SilosSane, Sane, TakeInterfaceFails, PoolAllocFails
<1>3. ASSUME NEW id \in SiloIDs, TakeInterface(id)
      PROVE  SilosSane'
  <2> DEFINE t == [silo[id] EXCEPT !.slice = held'[id]]
  <2>1. t \in StructType /\ silo' = [silo EXCEPT ![id] = t]
    BY <1>0, <1>3, SaneFacts DEF StructType, TakeInterface, PoolAlloc
  <2>2. /\ host' \in HostType
        /\ \A j \in SiloIDs \ {id} : held'[j] = held[j]
        /\ OthersKept(id)
    BY <1>0, <1>3, SaneFacts DEF OthersKept, HostType, With, poolVars, TakeInterface, PoolAlloc
  <2>3. Sane(t, held'[id], id \in host'.bridge, id \in host'.nat)
    BY <1>0, <1>3, SaneFacts DEF Sane, StructType, HostType, With, poolVars, TakeInterface, PoolAlloc
  <2> HIDE DEF t
  <2> QED
    BY <2>1, <2>2, <2>3, OneSiloChanges, Zenon DEF SiloInv
<1>4. ASSUME NEW id \in SiloIDs, NEW req \in Requests, NewSilo(id, req)
      PROVE  SilosSane'
  <2> DEFINE t == [silo[id] EXCEPT !.State = "Setup", !.inet = req.inet, !.limits = req.limits]
  <2>1. t \in StructType /\ silo' = [silo EXCEPT ![id] = t]
    <3>1. t \in StructType
      BY IsStruct, SiloAssumption, StructUpdates, Zenon DEF States
    <3> QED
      BY <1>4, <3>1, Zenon DEF NewSilo
  <2>2. /\ host' \in HostType
        /\ \A j \in SiloIDs \ {id} : held'[j] = held[j]
        /\ OthersKept(id)
    BY <1>4, SaneFacts, SiloAssumption DEF OthersKept, HostType, With, poolVars, NewSilo
  <2>3. Sane(t, held'[id], id \in host'.bridge, id \in host'.nat)
    BY <1>4, SaneFacts, SiloAssumption DEF Sane, StructType, HostType, With, poolVars, NewSilo
  <2> HIDE DEF t
  <2> QED
    BY <2>1, <2>2, <2>3, OneSiloChanges, Zenon DEF SiloInv
<1>5. ASSUME NEW id \in SiloIDs, InitSilo(id)
      PROVE  SilosSane'
  <2> DEFINE t == [silo[id] EXCEPT !.State = "Pending"]
  <2>1. t \in StructType /\ silo' = [silo EXCEPT ![id] = t]
    <3>1. t \in StructType
      BY IsStruct, StructUpdates, Zenon DEF States
    <3> QED
      BY <1>5, <3>1, Zenon DEF InitSilo
  <2>2. /\ host' \in HostType
        /\ \A j \in SiloIDs \ {id} : held'[j] = held[j]
        /\ OthersKept(id)
    BY <1>5, SaneFacts DEF OthersKept, HostType, With, poolVars, InitSilo, MakeRoot
  <2>3. Sane(t, held'[id], id \in host'.bridge, id \in host'.nat)
    BY <1>5, SaneFacts DEF Sane, StructType, HostType, With, poolVars, InitSilo, MakeRoot
  <2> HIDE DEF t
  <2> QED
    BY <2>1, <2>2, <2>3, OneSiloChanges, Zenon DEF SiloInv
<1>6. ASSUME NEW id \in SiloIDs, InitFails(id)
      PROVE  SilosSane'
  <2>0. /\ silo[id].State = "Setup" /\ UNCHANGED poolVars
        /\ UNCHANGED host \/ MakeRoot(id)
        /\ \E st \in {"Setup", "InternalError"} : silo' = [silo EXCEPT ![id].State = st]
    BY <1>6, SaneFacts
       DEF InitFails, InitFailsTempDir, InitFailsBase, InitFailsFiles, InitFailsInvocation,
           StructType, siloVars, poolVars
  <2>1. PICK st \in {"Setup", "InternalError"} : silo' = [silo EXCEPT ![id].State = st]
    BY <2>0, Zenon
  <2> DEFINE t == [silo[id] EXCEPT !.State = st]
  <2>2. t \in StructType /\ silo' = [silo EXCEPT ![id] = t]
    <3>1. t \in StructType
      BY IsStruct, StructUpdates, Zenon DEF States
    <3> QED
      BY <2>1, <3>1, Zenon
  <2>3. /\ host' \in HostType
        /\ \A j \in SiloIDs \ {id} : held'[j] = held[j]
        /\ OthersKept(id)
    BY <2>0, SaneFacts DEF OthersKept, HostType, With, poolVars, MakeRoot
  <2>4. Sane(t, held'[id], id \in host'.bridge, id \in host'.nat)
    BY <2>0, SaneFacts DEF Sane, StructType, HostType, With, poolVars, MakeRoot
  <2> HIDE DEF t
  <2> QED
    BY <2>2, <2>3, <2>4, OneSiloChanges, Zenon DEF SiloInv
<1>7. ASSUME NEW id \in SiloIDs, Start(id)
      PROVE  SilosSane'
  <2>0. PICK c \in {"alive", "zombie"} :
          silo' = [silo EXCEPT ![id].State = "Running", ![id].child = c,
                               ![id].isSetup = TRUE, ![id].cgroupSet = silo[id].limits]
    BY <1>7, Zenon DEF Start
  <2> DEFINE t == [silo[id] EXCEPT !.State = "Running", !.child = c,
                                  !.isSetup = TRUE, !.cgroupSet = silo[id].limits]
  <2>1. t \in StructType /\ silo' = [silo EXCEPT ![id] = t]
    <3>1. silo[id].limits \in BOOLEAN
      BY SaneFacts DEF StructType
    <3>2. "Running" \in States /\ c \in Children /\ TRUE \in BOOLEAN
      BY DEF States, Children
    <3>3. t \in StructType
      BY <3>1, <3>2, IsStruct, StructUpdates, Zenon
    <3> QED
      BY <2>0, <3>3, Zenon
  <2>2. /\ host' \in HostType
        /\ \A j \in SiloIDs \ {id} : held'[j] = held[j]
        /\ OthersKept(id)
    <3>1. /\ host' = [InterfaceUp(host, id, silo[id].inet) EXCEPT !.cgroup = With(@, id, silo[id].limits)]
          /\ UNCHANGED held
      BY <1>7, Zenon DEF Start, poolVars
    <3>2. host \in HostType
      BY SaneFacts
    <3>3. /\ host' \in HostType
          /\ host'.bridge = With(host.bridge, id, TRUE)
          /\ host'.nat = With(host.nat, id, silo[id].inet)
      BY <3>1, <3>2, ZenonT(40) DEF HostType, InterfaceUp, With
    <3> QED
      BY <3>1, <3>3 DEF OthersKept, With
  <2>3. Sane(t, held'[id], id \in host'.bridge, id \in host'.nat)
    BY <1>7, SaneFacts DEF Sane, StructType, HostType, With, poolVars, Start, InterfaceUp
  <2> HIDE DEF t
  <2> QED
    BY <2>1, <2>2, <2>3, OneSiloChanges, Zenon DEF SiloInv
<1>8. ASSUME NEW id \in SiloIDs, StartFailsExec(id)
      PROVE  SilosSane'
  <2> DEFINE t == [silo[id] EXCEPT !.State = "Running"]
  <2>1. t \in StructType /\ silo' = [silo EXCEPT ![id] = t]
    <3>1. t \in StructType
      BY IsStruct, StructUpdates, Zenon DEF States
    <3> QED
      BY <1>8, <3>1, Zenon DEF StartFailsExec
  <2>2. /\ host' \in HostType
        /\ \A j \in SiloIDs \ {id} : held'[j] = held[j]
        /\ OthersKept(id)
    BY <1>8, SaneFacts DEF OthersKept, HostType, With, poolVars, StartFailsExec
  <2>3. Sane(t, held'[id], id \in host'.bridge, id \in host'.nat)
    BY <1>8, SaneFacts DEF Sane, StructType, HostType, With, poolVars, StartFailsExec
  <2> HIDE DEF t
  <2> QED
    BY <2>1, <2>2, <2>3, OneSiloChanges, Zenon DEF SiloInv
<1>9. ASSUME NEW id \in SiloIDs, StartFailsNet(id)
      PROVE  SilosSane'
  <2>0. PICK c \in {"zombie", "alive"} :
          silo' = [silo EXCEPT ![id].State = "Running", ![id].child = c]
    BY <1>9, Zenon DEF StartFailsNet
  <2> DEFINE t == [silo[id] EXCEPT !.State = "Running", !.child = c]
  <2>1. t \in StructType /\ silo' = [silo EXCEPT ![id] = t]
    <3>1. t \in StructType
      BY IsStruct, StructUpdates, ZenonT(40) DEF States, Children
    <3> QED
      BY <2>0, <3>1, Zenon
  <2>2. /\ host' \in HostType
        /\ \A j \in SiloIDs \ {id} : held'[j] = held[j]
        /\ OthersKept(id)
    BY <1>9, <2>0, SaneFacts DEF OthersKept, HostType, With, poolVars, StartFailsNet
  <2>3. Sane(t, held'[id], id \in host'.bridge, id \in host'.nat)
    BY <1>9, <2>0, SaneFacts DEF Sane, StructType, HostType, With, poolVars, StartFailsNet
  <2> HIDE DEF t
  <2> QED
    BY <2>1, <2>2, <2>3, OneSiloChanges, Zenon DEF SiloInv
<1>10. ASSUME NEW id \in SiloIDs, StartFailsLimit(id)
      PROVE  SilosSane'
  <2>0. PICK c \in {"zombie", "alive"} :
          silo' = [silo EXCEPT ![id].State = "Running", ![id].child = c, ![id].isSetup = TRUE]
    BY <1>10, Zenon DEF StartFailsLimit
  <2> DEFINE t == [silo[id] EXCEPT !.State = "Running", !.child = c, !.isSetup = TRUE]
  <2>1. t \in StructType /\ silo' = [silo EXCEPT ![id] = t]
    <3>1. t \in StructType
      BY IsStruct, StructUpdates, ZenonT(40) DEF States, Children
    <3> QED
      BY <2>0, <3>1, Zenon
  <2>2. /\ host' \in HostType
        /\ \A j \in SiloIDs \ {id} : held'[j] = held[j]
        /\ OthersKept(id)
    <3>1. PICK made \in BOOLEAN :
            host' = [InterfaceUp(host, id, silo[id].inet) EXCEPT !.cgroup = With(@, id, made)]
      BY <1>10, Zenon DEF StartFailsLimit
    <3>2. UNCHANGED held
      BY <1>10 DEF StartFailsLimit, poolVars
    <3>3. host \in HostType
      BY SaneFacts
    <3>4. /\ host' \in HostType
          /\ host'.bridge = With(host.bridge, id, TRUE)
          /\ host'.nat = With(host.nat, id, silo[id].inet)
      BY <3>1, <3>3, ZenonT(40) DEF HostType, InterfaceUp, With
    <3> QED
      BY <3>2, <3>4 DEF OthersKept, With
  <2>3. Sane(t, held'[id], id \in host'.bridge, id \in host'.nat)
    BY <1>10, <2>0, SaneFacts DEF Sane, StructType, HostType, With, poolVars, StartFailsLimit, InterfaceUp
  <2> HIDE DEF t
  <2> QED
    BY <2>1, <2>2, <2>3, OneSiloChanges, Zenon DEF SiloInv
<1>11. ASSUME NEW id \in SiloIDs, NEW c \in {"zombie", "done", "reaped"}, NEW b, SetChild(id, b, c)
      PROVE  SilosSane'
  <2> DEFINE t == [silo[id] EXCEPT !.child = c]
  <2>1. t \in StructType /\ silo' = [silo EXCEPT ![id] = t]
    <3>1. t \in StructType
      BY IsStruct, StructUpdates, Zenon DEF Children
    <3> QED
      BY <1>11, <3>1, Zenon DEF SetChild
  <2>2. /\ host' \in HostType
        /\ \A j \in SiloIDs \ {id} : held'[j] = held[j]
        /\ OthersKept(id)
    BY <1>11, SaneFacts DEF OthersKept, HostType, With, poolVars, SetChild
  <2>3. Sane(t, held'[id], id \in host'.bridge, id \in host'.nat)
    BY <1>11, SaneFacts DEF Sane, StructType, HostType, With, poolVars, SetChild
  <2> HIDE DEF t
  <2> QED
    BY <2>1, <2>2, <2>3, OneSiloChanges, Zenon DEF SiloInv
<1>12. ASSUME NEW id \in SiloIDs, NEW err, Close(id, err)
      PROVE  SilosSane'
  <2>0. PICK torn, freed \in BOOLEAN :
          /\ torn => silo[id].State = "Running"
          /\ freed => torn
          /\ silo' = IF torn THEN [silo EXCEPT ![id].State = "Finished", ![id].child = Killed(@)]
                             ELSE silo
          /\ host' \in HostType
          /\ OthersKept(id)
          /\ id \in host'.bridge => id \in host.bridge /\ ~(freed /\ silo[id].isSetup)
          /\ id \in host'.nat => id \in host.nat /\ ~(freed /\ silo[id].isSetup /\ silo[id].inet)
          /\ held' = IF freed THEN [held EXCEPT ![id] = <<>>] ELSE held
    BY <1>12, CloseEffect, Zenon
  <2> DEFINE t == IF torn THEN [silo[id] EXCEPT !.State = "Finished", !.child = Killed(@)]
                          ELSE silo[id]
  <2>1. t \in StructType /\ silo' = [silo EXCEPT ![id] = t]
    <3>1. Killed(silo[id].child) \in Children
      BY SaneFacts DEF StructType, Children, Killed
    <3>2. t \in StructType
      BY <3>1, IsStruct, StructUpdates, Zenon DEF States
    <3>3. CASE torn
      BY <2>0, <3>2, <3>3, Zenon
    <3>4. CASE ~torn
      BY <2>0, <3>2, <3>4, SaneFacts
    <3> QED
      BY <3>3, <3>4
  <2>2. \A j \in SiloIDs \ {id} : held'[j] = held[j]
    BY <2>0, SaneFacts
  <2>3. Sane(t, held'[id], id \in host'.bridge, id \in host'.nat)
    BY <2>0, SaneFacts DEF Sane, StructType, Killed
  <2> HIDE DEF t
  <2> QED
    BY <2>0, <2>1, <2>2, <2>3, OneSiloChanges, Zenon DEF SiloInv
<1>13. ASSUME NEW id \in SiloIDs, ReturnSlice(id)
      PROVE  SilosSane'
  <2> DEFINE t == [silo[id] EXCEPT !.State = "Dropped"]
  <2>1. t \in StructType /\ silo' = [silo EXCEPT ![id] = t]
    <3>1. t \in StructType
      BY IsStruct, StructUpdates, Zenon DEF States
    <3> QED
      BY <1>13, <3>1, Zenon DEF ReturnSlice, GiveSliceBack
  <2>2. /\ host' \in HostType
        /\ \A j \in SiloIDs \ {id} : held'[j] = held[j]
        /\ OthersKept(id)
    BY <1>0, <1>13, SaneFacts DEF OthersKept, HostType, ReturnSlice, GiveSliceBack
  <2>3. Sane(t, held'[id], id \in host'.bridge, id \in host'.nat)
    BY <1>13, SaneFacts DEF Sane, StructType, HostType, ReturnSlice, GiveSliceBack
  <2> HIDE DEF t
  <2> QED
    BY <2>1, <2>2, <2>3, OneSiloChanges DEF SiloInv
<1> QED
  BY <1>1, <1>2, <1>3, <1>4, <1>5, <1>6, <1>7, <1>8, <1>9, <1>10, <1>11, <1>12, <1>13
     DEF SiloNext, StartFails, Exit, Die, WaitDone, WaitReap

LEMMA SiloInvStep ==
  SiloInv /\ [SiloNext]_siloVars => SiloInv'
<1> SUFFICES ASSUME SiloInv, [SiloNext]_siloVars PROVE SiloInv'
  OBVIOUS
<1>1. PoolInv'
  BY PoolStep, PoolInvStep DEF SiloInv
<1> QED
  BY <1>1, SaneStep DEF SiloInv

\* The invariant holds in every state of the silos.
THEOREM SiloInvariant == SiloSpec => []SiloInv
  BY SiloInvInit, SiloInvStep, PTL DEF SiloSpec

\* The silos take and return addresses as the pool expects: whatever fails,
\* no slice is returned twice and none that was not received.
THEOREM SilosImplementPool == SiloSpec => SilosUsePoolProperly
<1>1. SiloInit => PoolInit
  BY DEF SiloInit
<1> QED
  BY <1>1, SiloInvariant, PoolStep, PTL DEF SiloSpec, PoolSpec, SilosUsePoolProperly

\* Silos and host resources keep to their types.
THEOREM SiloTypeCorrect == SiloSpec => []SiloTypeOK
<1>1. SiloInv => SiloTypeOK
  <2> SUFFICES ASSUME SiloInv PROVE SiloTypeOK
    OBVIOUS
  <2>1. PoolTypeOK
    BY DEF SiloInv, PoolInv, PoolTypeOK, Sound
  <2> QED
    BY <2>1 DEF SiloInv, SilosSane, HostType, SiloTypeOK
<1> QED
  BY <1>1, SiloInvariant, PTL

\* Silos that run have no address in common, and none of their addresses waits
\* in the pool, for any number of silos and any failures of the host.
THEOREM RunningSilosDisjoint == SiloSpec => []LiveSilosDisjoint
<1>1. SiloInv => LiveSilosDisjoint
  <2> SUFFICES ASSUME SiloInv PROVE LiveSilosDisjoint
    OBVIOUS
  <2>1. \A i \in SiloIDs : silo[i].child = "alive" => silo[i].slice = held[i]
    BY SaneFacts
  <2>2. \A i \in SiloIDs : Range(held[i]) \cap Free = {}
    BY DEF SiloInv, PoolInv, Sound, Loaned, Free
  <2>3. \A i, j \in SiloIDs : i # j => Range(held[i]) \cap Range(held[j]) = {}
    BY DEF SiloInv, PoolInv
  <2> QED
    BY <2>1, <2>2, <2>3, Zenon DEF LiveSilosDisjoint, Addresses
<1> QED
  BY <1>1, SiloInvariant, PTL

\* An interface that was set up has its addresses as long as its bridge or its
\* NAT rule is on the host: Teardown frees last.
THEOREM AddressesOutliveInterface == SiloSpec => []InterfaceKeepsAddresses
<1>1. SiloInv => InterfaceKeepsAddresses
  BY SaneFacts DEF InterfaceKeepsAddresses
<1> QED
  BY <1>1, SiloInvariant, PTL
=============================================================================
