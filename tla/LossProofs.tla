----------------------------- MODULE LossProofs -----------------------------
(***************************************************************************)
(* What the failure paths of IPInterface cost.  Until the pool reports that*)
(* it is exhausted, the cursor and the free list move by whole slices.  The*)
(* one call that crosses the end of the subnet starts with an empty free   *)
(* list and loses what it took; from then on addresses come from the free  *)
(* list alone, four at a time, and a single one left over is put back.     *)
(***************************************************************************)
EXTENDS ControllerProofs, FiniteSetTheorems

\* Four consecutive addresses, at a multiple of four from the first, at the
\* places of s after place i.
WholeAt(s, i, q) ==
  /\ s[i + 1] = StartIP + 4 * q     /\ s[i + 2] = StartIP + 4 * q + 1
  /\ s[i + 3] = StartIP + 4 * q + 2 /\ s[i + 4] = StartIP + 4 * q + 3

Whole(s) == \E m \in Nat : /\ Len(s) = 4 * m
                           /\ \A k \in 0..(m - 1) : \E q \in Nat : WholeAt(s, 4 * k, q)

\* The inductive invariant, beside PoolInv.
LossInv ==
  /\ ~Exhausted => /\ \E m \in Nat : pool.lastFromPool = StartIP + 4 * m
                   /\ Whole(pool.free)
                   /\ \A id \in SiloIDs : held[id] # <<>> => \E q \in Nat : WholeAt(held[id], 0, q)
                   /\ Lost = {}
  /\ Exhausted => /\ \E m \in Nat : Len(pool.free) = 4 * m \/ Len(pool.free) = 4 * m + 1
                  /\ Lost \subseteq (SubnetLast - 3)..(SubnetLast - 1)

\* One call of Assignment when the free list is empty: the cursor advances.
LEMMA FromCursor ==
  ASSUME NEW c \in Nat, StartIP <= c
  PROVE  LET r == Assignment([lastFromPool |-> c, free |-> <<>>])
         IN  /\ r.pool = [lastFromPool |-> c + 1, free |-> <<>>]
             /\ r.ip = c
             /\ r.ok = (c + 1 <= SubnetLast)
BY PoolAssumption, SMTT(20) DEF Assignment, getNextFromPool, InSubnet

\* One call of Assignment when it is not: its head is handed out.
LEMMA FromFreeList ==
  ASSUME NEW c \in Nat, NEW s \in Seq(Nat), s # <<>>
  PROVE  LET r == Assignment([lastFromPool |-> c, free |-> s])
         IN  /\ r.pool = [lastFromPool |-> c, free |-> Tail(s)]
             /\ r.ip = s[1]
             /\ r.ok = TRUE
<1> DEFINE p == [lastFromPool |-> c, free |-> s]
<1>1. p.free = s /\ [p EXCEPT !.free = Tail(@)] = [lastFromPool |-> c, free |-> Tail(s)]
  <2>1. p.free = s /\ \A t : [p EXCEPT !.free = t] = [lastFromPool |-> c, free |-> t]
    OBVIOUS
  <2> HIDE DEF p
  <2> QED
    BY <2>1, Zenon
<1>2. Head(s) = s[1]
  OBVIOUS
<1> HIDE DEF p
<1>3. /\ Assignment(p).pool = [p EXCEPT !.free = Tail(@)]
      /\ Assignment(p).ip = Head(s) /\ Assignment(p).ok = TRUE
  BY <1>1 DEF Assignment
<1> QED
  BY <1>1, <1>2, <1>3, Zenon DEF p

\* The results of IPInterface, by the first of the four assignments that fails.
LEMMA InterfaceCases ==
  ASSUME NEW p
  PROVE  LET a1 == Assignment(p)
             a2 == Assignment(a1.pool)
             a3 == Assignment(a2.pool)
             a4 == Assignment(a3.pool)
             r  == IPInterface(p)
         IN  /\ ~a1.ok => r.ok = FALSE /\ r.pool = a1.pool
             /\ a1.ok /\ ~a2.ok => r.ok = FALSE /\ r.pool = FreeAssignment(a2.pool, <<a1.ip>>)
             /\ a1.ok /\ a2.ok /\ ~a3.ok => r.ok = FALSE /\ r.pool = a3.pool
             /\ a1.ok /\ a2.ok /\ a3.ok /\ ~a4.ok => r.ok = FALSE /\ r.pool = a4.pool
             /\ a1.ok /\ a2.ok /\ a3.ok /\ a4.ok =>
                  /\ r.ok = TRUE /\ r.pool = a4.pool
                  /\ r.slice = <<a1.ip, a2.ip, a3.ip, a4.ip>>
BY DEF IPInterface

\* IPInterface with nothing to reuse: a slice from the cursor when one is left in
\* the subnet; otherwise the addresses before the last one are taken, and only
\* when there is a single one of them is it put back.
LEMMA InterfaceFromCursor ==
  ASSUME NEW c \in Nat, StartIP <= c
  PROVE  LET r == IPInterface([lastFromPool |-> c, free |-> <<>>])
         IN  /\ c + 4 <= SubnetLast =>
                  /\ r.ok = TRUE /\ r.slice = <<c, c + 1, c + 2, c + 3>>
                  /\ r.pool = [lastFromPool |-> c + 4, free |-> <<>>]
             /\ c + 4 > SubnetLast =>
                  /\ r.ok = FALSE
                  /\ c >= SubnetLast => r.pool = [lastFromPool |-> c + 1, free |-> <<>>]
                  /\ c = SubnetLast - 1 => r.pool = [lastFromPool |-> c + 2, free |-> <<c>>]
                  /\ c = SubnetLast - 2 => r.pool = [lastFromPool |-> c + 3, free |-> <<>>]
                  /\ c = SubnetLast - 3 => r.pool = [lastFromPool |-> c + 4, free |-> <<>>]
<1> DEFINE P(d) == [lastFromPool |-> d, free |-> <<>>]
           r == IPInterface(P(c))
           a1 == Assignment(P(c))
           a2 == Assignment(a1.pool)
           a3 == Assignment(a2.pool)
           a4 == Assignment(a3.pool)
<1>0. SubnetLast \in Nat /\ StartIP \in Nat
  BY PoolAssumption
<1>1. \A d \in Nat : StartIP <= d =>
        /\ Assignment(P(d)).pool = P(d + 1)
        /\ Assignment(P(d)).ip = d
        /\ Assignment(P(d)).ok = (d + 1 <= SubnetLast)
  BY FromCursor
<1>2. /\ ~a1.ok => r.ok = FALSE /\ r.pool = a1.pool
      /\ a1.ok /\ ~a2.ok => r.ok = FALSE /\ r.pool = FreeAssignment(a2.pool, <<a1.ip>>)
      /\ a1.ok /\ a2.ok /\ ~a3.ok => r.ok = FALSE /\ r.pool = a3.pool
      /\ a1.ok /\ a2.ok /\ a3.ok /\ ~a4.ok => r.ok = FALSE /\ r.pool = a4.pool
      /\ a1.ok /\ a2.ok /\ a3.ok /\ a4.ok =>
           /\ r.ok = TRUE /\ r.pool = a4.pool
           /\ r.slice = <<a1.ip, a2.ip, a3.ip, a4.ip>>
  BY InterfaceCases, Zenon
<1>3. FreeAssignment(P(c + 2), <<c>>) = [lastFromPool |-> c + 2, free |-> <<c>>]
  <2>1. <<>> \o <<c>> = <<c>>
    BY SeqConcatEmpty
  <2> QED
    BY <2>1 DEF FreeAssignment
<1> HIDE DEF P, r
<1>4. /\ c + 1 \in Nat /\ StartIP <= c + 1 /\ (c + 1) + 1 = c + 2
      /\ c + 2 \in Nat /\ StartIP <= c + 2 /\ (c + 2) + 1 = c + 3
      /\ c + 3 \in Nat /\ StartIP <= c + 3 /\ (c + 3) + 1 = c + 4
  BY <1>0
<1>5. /\ a1.pool = P(c + 1) /\ a1.ip = c     /\ a1.ok = (c + 1 <= SubnetLast)
      /\ a2.pool = P(c + 2) /\ a2.ip = c + 1 /\ a2.ok = (c + 2 <= SubnetLast)
      /\ a3.pool = P(c + 3) /\ a3.ip = c + 2 /\ a3.ok = (c + 3 <= SubnetLast)
      /\ a4.pool = P(c + 4) /\ a4.ip = c + 3 /\ a4.ok = (c + 4 <= SubnetLast)
  <2>1. a1.pool = P(c + 1) /\ a1.ip = c /\ a1.ok = (c + 1 <= SubnetLast)
    BY <1>1
  <2>2. a2.pool = P(c + 2) /\ a2.ip = c + 1 /\ a2.ok = (c + 2 <= SubnetLast)
    BY <1>1, <1>4, <2>1
  <2>3. a3.pool = P(c + 3) /\ a3.ip = c + 2 /\ a3.ok = (c + 3 <= SubnetLast)
    BY <1>1, <1>4, <2>2
  <2>4. a4.pool = P(c + 4) /\ a4.ip = c + 3 /\ a4.ok = (c + 4 <= SubnetLast)
    BY <1>1, <1>4, <2>3
  <2> QED
    BY <2>1, <2>2, <2>3, <2>4
<1> HIDE DEF a1, a2, a3, a4
<1>6. /\ c + 4 <= SubnetLast => a1.ok /\ a2.ok /\ a3.ok /\ a4.ok
      /\ c >= SubnetLast => ~a1.ok
      /\ c = SubnetLast - 1 => a1.ok /\ ~a2.ok
      /\ c = SubnetLast - 2 => a1.ok /\ a2.ok /\ ~a3.ok
      /\ c = SubnetLast - 3 => a1.ok /\ a2.ok /\ a3.ok /\ ~a4.ok
      /\ c + 4 > SubnetLast => \/ c >= SubnetLast    \/ c = SubnetLast - 1
                               \/ c = SubnetLast - 2 \/ c = SubnetLast - 3
  <2>1. /\ c + 4 <= SubnetLast => c + 1 <= SubnetLast /\ c + 2 <= SubnetLast /\ c + 3 <= SubnetLast
        /\ c >= SubnetLast => ~(c + 1 <= SubnetLast)
        /\ c = SubnetLast - 1 => c + 1 <= SubnetLast /\ ~(c + 2 <= SubnetLast)
        /\ c = SubnetLast - 2 => c + 1 <= SubnetLast /\ c + 2 <= SubnetLast /\ ~(c + 3 <= SubnetLast)
        /\ c = SubnetLast - 3 => /\ c + 1 <= SubnetLast /\ c + 2 <= SubnetLast
                                 /\ c + 3 <= SubnetLast /\ ~(c + 4 <= SubnetLast)
    BY <1>0
  <2>2. c + 4 > SubnetLast => \/ c >= SubnetLast    \/ c = SubnetLast - 1
                              \/ c = SubnetLast - 2 \/ c = SubnetLast - 3
    BY <1>0
  <2> QED
    BY <1>5, <2>1, <2>2, Zenon
<1>7. /\ c + 4 <= SubnetLast => r.ok = TRUE /\ r.slice = <<c, c + 1, c + 2, c + 3>> /\ r.pool = P(c + 4)
      /\ c >= SubnetLast => r.ok = FALSE /\ r.pool = P(c + 1)
      /\ c = SubnetLast - 1 => r.ok = FALSE /\ r.pool = [lastFromPool |-> c + 2, free |-> <<c>>]
      /\ c = SubnetLast - 2 => r.ok = FALSE /\ r.pool = P(c + 3)
      /\ c = SubnetLast - 3 => r.ok = FALSE /\ r.pool = P(c + 4)
  BY <1>2, <1>3, <1>5, <1>6, Zenon
<1> QED
  BY <1>6, <1>7, Zenon DEF r, P

\* The result r of IPInterface is the first four addresses of s, and leaves the
\* others and the cursor c.
TakesFour(r, c, s) ==
  /\ r.ok = TRUE /\ r.slice = <<s[1], s[2], s[3], s[4]>>
  /\ r.pool.lastFromPool = c
  /\ r.pool.free \in Seq(Nat) /\ Len(r.pool.free) = Len(s) - 4
  /\ \A i \in 1..(Len(s) - 4) : r.pool.free[i] = s[i + 4]

\* IPInterface with at least four addresses to reuse takes the four oldest and
\* leaves the cursor alone.
LEMMA InterfaceFromFreeList ==
  ASSUME NEW c \in Nat, NEW s \in Seq(Nat), Len(s) >= 4
  PROVE  TakesFour(IPInterface([lastFromPool |-> c, free |-> s]), c, s)
<1> DEFINE P(t) == [lastFromPool |-> c, free |-> t]
           r == IPInterface(P(s))
           a1 == Assignment(P(s))
           a2 == Assignment(a1.pool)
           a3 == Assignment(a2.pool)
           a4 == Assignment(a3.pool)
           t1 == Tail(s)
           t2 == Tail(t1)
           t3 == Tail(t2)
           t4 == Tail(t3)
<1>1. \A t \in Seq(Nat) : t # <<>> =>
        /\ Assignment(P(t)).pool = P(Tail(t))
        /\ Assignment(P(t)).ip = t[1]
        /\ Assignment(P(t)).ok = TRUE
  BY FromFreeList
<1>2. a1.ok /\ a2.ok /\ a3.ok /\ a4.ok =>
        /\ r.ok = TRUE /\ r.pool = a4.pool
        /\ r.slice = <<a1.ip, a2.ip, a3.ip, a4.ip>>
  BY InterfaceCases, Zenon
<1> HIDE DEF P, r
<1>3. \A t \in Seq(Nat) : Len(t) \in Nat /\ (Len(t) > 0 => 
        /\ t # <<>> /\ Tail(t) \in Seq(Nat) /\ Len(Tail(t)) = Len(t) - 1
        /\ \A i \in 1..(Len(t) - 1) : Tail(t)[i] = t[i + 1])
  BY SeqHeadTail, SeqEmpty, SeqLen
<1>0. Len(s) \in Nat
  BY <1>3
<1>4. /\ s # <<>>  /\ t1 \in Seq(Nat) /\ Len(t1) = Len(s) - 1 /\ Len(s) \in Nat
      /\ t1 # <<>> /\ t2 \in Seq(Nat) /\ Len(t2) = Len(s) - 2
      /\ t2 # <<>> /\ t3 \in Seq(Nat) /\ Len(t3) = Len(s) - 3
      /\ t3 # <<>> /\ t4 \in Seq(Nat) /\ Len(t4) = Len(s) - 4
  <2>1. s # <<>> /\ t1 \in Seq(Nat) /\ Len(t1) = Len(s) - 1 /\ Len(s) \in Nat
    BY <1>3
  <2> HIDE DEF t1
  <2>2. t1 # <<>> /\ t2 \in Seq(Nat) /\ Len(t2) = Len(s) - 2
    BY <1>3, <2>1
  <2> HIDE DEF t2
  <2>3. t2 # <<>> /\ t3 \in Seq(Nat) /\ Len(t3) = Len(s) - 3
    BY <1>3, <2>1, <2>2
  <2> HIDE DEF t3
  <2>4. t3 # <<>> /\ t4 \in Seq(Nat) /\ Len(t4) = Len(s) - 4
    BY <1>3, <2>1, <2>3
  <2> QED
    BY <2>1, <2>2, <2>3, <2>4
<1>5. /\ \A i \in 1..(Len(s) - 1) : t1[i] = s[i + 1]
      /\ \A i \in 1..(Len(s) - 2) : t2[i] = s[i + 2]
      /\ \A i \in 1..(Len(s) - 3) : t3[i] = s[i + 3]
      /\ \A i \in 1..(Len(s) - 4) : t4[i] = s[i + 4]
  <2>1. \A i \in 1..(Len(s) - 1) : t1[i] = s[i + 1]
    BY <1>3, <1>4
  <2> HIDE DEF t1
  <2>2. \A i \in 1..(Len(s) - 2) : t2[i] = t1[i + 1]
    BY <1>3, <1>4
  <2>3. ASSUME NEW i \in 1..(Len(s) - 2) PROVE t2[i] = s[i + 2]
    <3>1. i + 1 \in 1..(Len(s) - 1) /\ (i + 1) + 1 = i + 2
      BY <1>0
    <3>2. t1[i + 1] = s[(i + 1) + 1]
      BY <2>1, <3>1, Zenon
    <3> QED
      BY <2>2, <3>1, <3>2, Zenon
  <2> HIDE DEF t2
  <2>4. \A i \in 1..(Len(s) - 3) : t3[i] = t2[i + 1]
    BY <1>3, <1>4
  <2>5. ASSUME NEW i \in 1..(Len(s) - 3) PROVE t3[i] = s[i + 3]
    <3>1. i + 1 \in 1..(Len(s) - 2) /\ (i + 1) + 2 = i + 3
      BY <1>0
    <3>2. t2[i + 1] = s[(i + 1) + 2]
      BY <2>3, <3>1, Zenon
    <3> QED
      BY <2>4, <3>1, <3>2, Zenon
  <2> HIDE DEF t3
  <2>6. \A i \in 1..(Len(s) - 4) : t4[i] = t3[i + 1]
    BY <1>3, <1>4
  <2>7. ASSUME NEW i \in 1..(Len(s) - 4) PROVE t4[i] = s[i + 4]
    <3>1. i + 1 \in 1..(Len(s) - 3) /\ (i + 1) + 3 = i + 4
      BY <1>0
    <3>2. t3[i + 1] = s[(i + 1) + 3]
      BY <2>5, <3>1, Zenon
    <3> QED
      BY <2>6, <3>1, <3>2, Zenon
  <2> QED
    BY <2>1, <2>3, <2>5, <2>7
<1> HIDE DEF t1, t2, t3, t4
<1>6. /\ a1.pool = P(t1) /\ a1.ip = s[1] /\ a1.ok
      /\ a2.pool = P(t2) /\ a2.ip = t1[1] /\ a2.ok
      /\ a3.pool = P(t3) /\ a3.ip = t2[1] /\ a3.ok
      /\ a4.pool = P(t4) /\ a4.ip = t3[1] /\ a4.ok
  <2>1. a1.pool = P(t1) /\ a1.ip = s[1] /\ a1.ok
    BY <1>1, <1>4, Zenon DEF t1
  <2>2. a2.pool = P(t2) /\ a2.ip = t1[1] /\ a2.ok
    BY <1>1, <1>4, <2>1, Zenon DEF t2
  <2>3. a3.pool = P(t3) /\ a3.ip = t2[1] /\ a3.ok
    BY <1>1, <1>4, <2>2, Zenon DEF t3
  <2>4. a4.pool = P(t4) /\ a4.ip = t3[1] /\ a4.ok
    BY <1>1, <1>4, <2>3, Zenon DEF t4
  <2> QED
    BY <2>1, <2>2, <2>3, <2>4
<1>7. t1[1] = s[2] /\ t2[1] = s[3] /\ t3[1] = s[4]
  <2>1. 1 \in 1..(Len(s) - 1) /\ 1 \in 1..(Len(s) - 2) /\ 1 \in 1..(Len(s) - 3)
    <3>1. \A n \in Nat : n >= 4 => 1 \in 1..(n - 1) /\ 1 \in 1..(n - 2) /\ 1 \in 1..(n - 3)
      OBVIOUS
    <3> QED
      BY <1>4, <3>1, Zenon
  <2>2. t1[1] = s[1 + 1] /\ t2[1] = s[1 + 2] /\ t3[1] = s[1 + 3]
    BY <1>5, <2>1, Zenon
  <2> QED
    BY <2>2
<1> HIDE DEF a1, a2, a3, a4
<1>8. r.ok = TRUE /\ r.pool = P(t4) /\ r.slice = <<s[1], s[2], s[3], s[4]>>
  BY <1>2, <1>6, <1>7, Zenon
<1>9. P(t4).lastFromPool = c /\ P(t4).free = t4
  BY DEF P
<1>10. TakesFour(r, c, s)
  BY <1>4, <1>5, <1>8, <1>9 DEF TakesFour
<1> QED
  BY <1>10, Zenon DEF r, P

\* IPInterface of an exhausted pool with one address to reuse puts it back.
LEMMA InterfaceOneLeft ==
  ASSUME NEW c \in Nat, c > SubnetLast, NEW s \in Seq(Nat), Len(s) = 1
  PROVE  LET r == IPInterface([lastFromPool |-> c, free |-> s])
         IN  r.ok = FALSE /\ r.pool = [lastFromPool |-> c + 1, free |-> <<s[1]>>]
<1> DEFINE p == [lastFromPool |-> c, free |-> s]
           q == [lastFromPool |-> c, free |-> <<>>]
           q1 == [lastFromPool |-> c + 1, free |-> <<>>]
           r == IPInterface(p)
           a1 == Assignment(p)
           a2 == Assignment(a1.pool)
<1>1. /\ ~a1.ok => r.ok = FALSE /\ r.pool = a1.pool
      /\ a1.ok /\ ~a2.ok => r.ok = FALSE /\ r.pool = FreeAssignment(a2.pool, <<a1.ip>>)
  BY InterfaceCases, Zenon
<1>2. s # <<>> /\ Tail(s) = <<>>
  <2>1. s # <<>>
    BY Len(<<>>) # 1, Zenon
  <2>2. Tail(s) \in Seq(Nat) /\ Len(Tail(s)) = 0
    BY <2>1, SeqHeadTail
  <2> QED
    BY <2>1, <2>2, SeqEmpty
<1>3. a1.pool = q /\ a1.ip = s[1] /\ a1.ok = TRUE
  BY <1>2, FromFreeList
<1>4. SubnetLast \in Nat /\ StartIP <= c /\ ~(c + 1 <= SubnetLast)
  BY PoolAssumption
<1>5. Assignment(q).pool = q1 /\ Assignment(q).ok = FALSE
  <2>1. Assignment(q).pool = q1 /\ Assignment(q).ok = (c + 1 <= SubnetLast)
    BY <1>4, FromCursor, Zenon
  <2>2. (c + 1 <= SubnetLast) = FALSE
    BY <1>4
  <2> QED
    BY <2>1, <2>2, Zenon
<1>6. FreeAssignment(q1, <<s[1]>>) = [lastFromPool |-> c + 1, free |-> <<s[1]>>]
  <2>1. s[1] \in Nat
    BY SeqLen, 1 \in 1..Len(s)
  <2>2. <<>> \o <<s[1]>> = <<s[1]>>
    BY <2>1, SeqConcatEmpty
  <2> QED
    BY <2>2 DEF FreeAssignment
<1> HIDE DEF r, q1, q, p
<1> QED
  BY <1>1, <1>3, <1>5, <1>6, Zenon DEF r, p

\* A free list of whole slices is empty or has one to give away, and is a list
\* of whole slices after that.
LEMMA WholeTake ==
  ASSUME NEW s \in Seq(Nat), Whole(s)
  PROVE  /\ s = <<>> \/ Len(s) >= 4
         /\ Len(s) >= 4 =>
              /\ \E q \in Nat : WholeAt(s, 0, q)
              /\ \A t \in Seq(Nat) :
                   Len(t) = Len(s) - 4 /\ (\A i \in 1..(Len(s) - 4) : t[i] = s[i + 4]) => Whole(t)
<1>1. PICK m \in Nat : /\ Len(s) = 4 * m
                       /\ \A k \in 0..(m - 1) : \E q \in Nat : WholeAt(s, 4 * k, q)
  BY DEF Whole
<1>2. s = <<>> \/ Len(s) >= 4
  <2>1. m = 0 \/ m >= 1
    OBVIOUS
  <2>2. m = 0 => Len(s) = 0
    BY <1>1
  <2>3. m >= 1 => Len(s) >= 4
    BY <1>1
  <2> QED
    BY <2>1, <2>2, <2>3, SeqEmpty
<1>3. ASSUME Len(s) >= 4
      PROVE  \E q \in Nat : WholeAt(s, 0, q)
  <2>1. 0 \in 0..(m - 1) /\ 4 * 0 = 0
    BY <1>1, <1>3
  <2> QED
    BY <1>1, <2>1
<1>4. ASSUME Len(s) >= 4, NEW t \in Seq(Nat), Len(t) = Len(s) - 4,
             \A i \in 1..(Len(s) - 4) : t[i] = s[i + 4]
      PROVE  Whole(t)
  <2>1. m - 1 \in Nat /\ Len(t) = 4 * (m - 1)
    BY <1>1, <1>4
  <2>2. ASSUME NEW k \in 0..((m - 1) - 1)
        PROVE  \E q \in Nat : WholeAt(t, 4 * k, q)
    <3>1. k + 1 \in 0..(m - 1)
      BY <2>1
    <3>2. PICK q \in Nat : WholeAt(s, 4 * (k + 1), q)
      BY <1>1, <3>1
    <3>3. /\ 4 * k + 1 \in 1..(Len(s) - 4) /\ 4 * k + 2 \in 1..(Len(s) - 4)
          /\ 4 * k + 3 \in 1..(Len(s) - 4) /\ 4 * k + 4 \in 1..(Len(s) - 4)
      BY <1>1, <2>1
    <3>4. /\ t[4 * k + 1] = s[(4 * k + 1) + 4] /\ t[4 * k + 2] = s[(4 * k + 2) + 4]
          /\ t[4 * k + 3] = s[(4 * k + 3) + 4] /\ t[4 * k + 4] = s[(4 * k + 4) + 4]
      BY <1>4, <3>3, Zenon
    <3>5. /\ (4 * k + 1) + 4 = 4 * (k + 1) + 1 /\ (4 * k + 2) + 4 = 4 * (k + 1) + 2
          /\ (4 * k + 3) + 4 = 4 * (k + 1) + 3 /\ (4 * k + 4) + 4 = 4 * (k + 1) + 4
      OBVIOUS
    <3>6. WholeAt(t, 4 * k, q)
      BY <3>2, <3>4, <3>5, Zenon DEF WholeAt
    <3> QED
      BY <3>6
  <2> QED
    BY <2>1, <2>2 DEF Whole
<1> QED
  BY <1>2, <1>3, <1>4

\* A whole slice that is returned keeps the free list one of whole slices.
LEMMA WholeJoin ==
  ASSUME NEW s \in Seq(Nat), Whole(s), NEW h \in Seq(Nat), Len(h) = 4,
         NEW r \in Nat, WholeAt(h, 0, r)
  PROVE  Whole(s \o h)
<1>1. PICK m \in Nat : /\ Len(s) = 4 * m
                       /\ \A k \in 0..(m - 1) : \E q \in Nat : WholeAt(s, 4 * k, q)
  BY DEF Whole
<1>2. /\ Len(s \o h) = Len(s) + Len(h)
      /\ \A i \in 1..(Len(s) + Len(h)) :
           (s \o h)[i] = IF i <= Len(s) THEN s[i] ELSE h[i - Len(s)]
  BY SeqConcat
<1> DEFINE j == s \o h
<1>3. Len(j) = 4 * (m + 1)
  BY <1>1, <1>2
<1>4. \A i \in 1..(4 * m + 4) : /\ i <= 4 * m => j[i] = s[i]
                                /\ ~(i <= 4 * m) => j[i] = h[i - 4 * m]
  BY <1>1, <1>2
<1> HIDE DEF j
<1>5. ASSUME NEW k \in 0..((m + 1) - 1)
      PROVE  \E q \in Nat : WholeAt(j, 4 * k, q)
  <2>1. CASE k = m
    <3>1. /\ 4 * k + 1 \in 1..(4 * m + 4) /\ ~(4 * k + 1 <= 4 * m) /\ (4 * k + 1) - 4 * m = 0 + 1
          /\ 4 * k + 2 \in 1..(4 * m + 4) /\ ~(4 * k + 2 <= 4 * m) /\ (4 * k + 2) - 4 * m = 0 + 2
          /\ 4 * k + 3 \in 1..(4 * m + 4) /\ ~(4 * k + 3 <= 4 * m) /\ (4 * k + 3) - 4 * m = 0 + 3
          /\ 4 * k + 4 \in 1..(4 * m + 4) /\ ~(4 * k + 4 <= 4 * m) /\ (4 * k + 4) - 4 * m = 0 + 4
      BY <2>1
    <3>2. /\ j[4 * k + 1] = h[0 + 1] /\ j[4 * k + 2] = h[0 + 2]
          /\ j[4 * k + 3] = h[0 + 3] /\ j[4 * k + 4] = h[0 + 4]
      <4>1. /\ j[4 * k + 1] = h[(4 * k + 1) - 4 * m] /\ j[4 * k + 2] = h[(4 * k + 2) - 4 * m]
            /\ j[4 * k + 3] = h[(4 * k + 3) - 4 * m] /\ j[4 * k + 4] = h[(4 * k + 4) - 4 * m]
        BY <1>4, <3>1
      <4> QED
        BY <3>1, <4>1
    <3>3. WholeAt(j, 4 * k, r)
      BY <3>2, Zenon DEF WholeAt
    <3> QED
      BY <3>3
  <2>2. CASE k # m
    <3>1. k \in 0..(m - 1)
      BY <2>2
    <3>2. /\ 4 * k + 1 \in 1..(4 * m + 4) /\ 4 * k + 1 <= 4 * m
          /\ 4 * k + 2 \in 1..(4 * m + 4) /\ 4 * k + 2 <= 4 * m
          /\ 4 * k + 3 \in 1..(4 * m + 4) /\ 4 * k + 3 <= 4 * m
          /\ 4 * k + 4 \in 1..(4 * m + 4) /\ 4 * k + 4 <= 4 * m
      BY <3>1
    <3>3. PICK q \in Nat : WholeAt(s, 4 * k, q)
      BY <1>1, <3>1
    <3>4. /\ j[4 * k + 1] = s[4 * k + 1] /\ j[4 * k + 2] = s[4 * k + 2]
          /\ j[4 * k + 3] = s[4 * k + 3] /\ j[4 * k + 4] = s[4 * k + 4]
      BY <1>4, <3>2, Zenon
    <3>5. WholeAt(j, 4 * k, q)
      BY <3>3, <3>4, Zenon DEF WholeAt
    <3> QED
      BY <3>5
  <2> QED
    BY <2>1, <2>2
<1> QED
  <2>1. m + 1 \in Nat
    OBVIOUS
  <2>2. Whole(j)
    BY <1>3, <1>5, <2>1, Zenon DEF Whole
  <2> QED
    BY <2>2 DEF j

\* The addresses of a list are its first four and those of the rest.
LEMMA RangeTake ==
  ASSUME NEW s \in Seq(Nat), Len(s) >= 4, NEW t \in Seq(Nat), Len(t) = Len(s) - 4,
         \A i \in 1..(Len(s) - 4) : t[i] = s[i + 4]
  PROVE  Range(s) \subseteq Range(<<s[1], s[2], s[3], s[4]>>) \cup Range(t)
<1>1. DOMAIN s = 1..Len(s) /\ DOMAIN t = 1..(Len(s) - 4) /\ Len(s) \in Nat
  BY SeqLen
<1>2. Range(<<s[1], s[2], s[3], s[4]>>) = {s[1], s[2], s[3], s[4]}
  <2> DEFINE f == <<s[1], s[2], s[3], s[4]>>
  <2>1. DOMAIN f = 1..4 /\ f[1] = s[1] /\ f[2] = s[2] /\ f[3] = s[3] /\ f[4] = s[4]
    OBVIOUS
  <2>2. \A i \in 1..4 : i = 1 \/ i = 2 \/ i = 3 \/ i = 4
    OBVIOUS
  <2> HIDE DEF f
  <2> QED
    BY <2>1, <2>2 DEF Range, f
<1>3. ASSUME NEW i \in 1..Len(s)
      PROVE  s[i] \in {s[1], s[2], s[3], s[4]} \cup Range(t)
  <2>1. CASE i \in 1..4
    BY <2>1
  <2>2. CASE i \notin 1..4
    <3>1. i - 4 \in 1..(Len(s) - 4) /\ (i - 4) + 4 = i
      BY <1>1, <2>2
    <3>2. t[i - 4] = s[(i - 4) + 4]
      BY <3>1, Zenon
    <3>3. i - 4 \in DOMAIN t /\ t[i - 4] = s[i]
      BY <1>1, <3>1, <3>2, Zenon
    <3> QED
      BY <3>3 DEF Range
  <2> QED
    BY <2>1, <2>2
<1> SUFFICES ASSUME NEW a \in Range(s)
             PROVE  a \in {s[1], s[2], s[3], s[4]} \cup Range(t)
  BY <1>2, Zenon
<1>4. PICK i \in 1..Len(s) : a = s[i]
  BY <1>1 DEF Range
<1> QED
  BY <1>3, <1>4, Zenon

\* A new pool has lost nothing.
LEMMA LossInvInit ==
  PoolInit => LossInv
<1> SUFFICES ASSUME PoolInit PROVE LossInv
  OBVIOUS
<1>1. /\ StartIP \in Nat /\ SubnetLast \in Nat /\ StartIP <= SubnetLast
  BY PoolAssumption
<1>2. pool.lastFromPool = StartIP /\ pool.free = <<>> /\ \A id \in SiloIDs : held[id] = <<>>
  BY DEF PoolInit, NewIPPool
<1>3. ~Exhausted /\ Issued = {}
  BY <1>1, <1>2 DEF Exhausted, Issued
<1>4. Lost = {}
  BY <1>3 DEF Lost
<1>5. Whole(<<>>)
  <2>1. 0 \in Nat /\ Len(<<>>) = 4 * 0 /\ 0..(0 - 1) = {}
    OBVIOUS
  <2> QED
    BY <2>1, Zenon DEF Whole
<1>6. \E m \in Nat : pool.lastFromPool = StartIP + 4 * m
  <2>1. StartIP = StartIP + 4 * 0
    BY <1>1
  <2> QED
    BY <1>2, <2>1
<1> QED
  BY <1>2, <1>3, <1>4, <1>5, <1>6, Zenon DEF LossInv

\* A step after which every address in the pool or on loan still is loses
\* nothing but what the cursor passes.
LEMMA LostStep ==
  ASSUME pool.lastFromPool \in Nat, pool'.lastFromPool \in Nat,
         Free \cup Loaned \subseteq Free' \cup Loaned',
         NEW a \in Lost'
  PROVE  /\ a \in Nat /\ StartIP <= a /\ a < SubnetLast /\ a < pool'.lastFromPool
         /\ a \notin Free' \cup Loaned'
         /\ a \in Lost \/ a >= pool.lastFromPool
<1>1. StartIP \in Nat /\ SubnetFirst \in Nat /\ SubnetLast \in Nat /\ SubnetFirst <= StartIP
  BY PoolAssumption
<1>2. /\ a \in StartIP..(pool'.lastFromPool - 1) /\ a \in SubnetFirst..(SubnetLast - 1)
      /\ a \notin Free' \cup Loaned'
  BY DEF Lost, Issued
<1>3. a \in Nat /\ StartIP <= a /\ a < SubnetLast /\ a < pool'.lastFromPool
  BY <1>1, <1>2
<1>4. ASSUME ~(a >= pool.lastFromPool)
      PROVE  a \in Lost
  <2>1. a \in StartIP..(pool.lastFromPool - 1) /\ a \notin Free \cup Loaned
    BY <1>1, <1>2, <1>3, <1>4
  <2> QED
    BY <1>2, <2>1 DEF Lost, Issued
<1> QED
  BY <1>2, <1>3, <1>4

\* A caller of a pool with these invariants gets the first four addresses of the
\* free list, or four fresh ones, or is refused with a list of at most one.
LEMMA InterfaceResult ==
  ASSUME PoolInv, LossInv
  PROVE  LET c == pool.lastFromPool
             s == pool.free
             r == IPInterface(pool)
         IN  /\ s = <<>> \/ Len(s) >= 4 \/ (Len(s) = 1 /\ c > SubnetLast)
             /\ Len(s) >= 4 => TakesFour(r, c, s)
             /\ s = <<>> =>
                  /\ c + 4 <= SubnetLast =>
                       /\ r.ok = TRUE /\ r.slice = <<c, c + 1, c + 2, c + 3>>
                       /\ r.pool = [lastFromPool |-> c + 4, free |-> <<>>]
                  /\ c + 4 > SubnetLast =>
                       /\ r.ok = FALSE
                       /\ c >= SubnetLast => r.pool = [lastFromPool |-> c + 1, free |-> <<>>]
                       /\ c = SubnetLast - 1 => r.pool = [lastFromPool |-> c + 2, free |-> <<c>>]
                       /\ c = SubnetLast - 2 => r.pool = [lastFromPool |-> c + 3, free |-> <<>>]
                       /\ c = SubnetLast - 3 => r.pool = [lastFromPool |-> c + 4, free |-> <<>>]
             /\ Len(s) = 1 /\ c > SubnetLast =>
                  r.ok = FALSE /\ r.pool = [lastFromPool |-> c + 1, free |-> <<s[1]>>]
<1> DEFINE c == pool.lastFromPool
           s == pool.free
           r == IPInterface(pool)
<1>b. pool = [lastFromPool |-> c, free |-> s]
  BY DEF PoolInv, Sound
<1>1. c \in Nat /\ s \in Seq(Nat) /\ StartIP <= c
  BY DEF PoolInv, Sound
<1>n. Len(s) \in Nat
  BY <1>1, SeqLen
<1>4. /\ ~Exhausted => Whole(s)
      /\ Exhausted => c > SubnetLast /\ \E m \in Nat : Len(s) = 4 * m \/ Len(s) = 4 * m + 1
  BY <1>1 DEF LossInv, Exhausted
<1>m. \A m, n \in Nat : n = 4 * m \/ n = 4 * m + 1 => n = 0 \/ n >= 4 \/ n = 1
  OBVIOUS
<1>5. /\ s = <<>> \/ Len(s) >= 4 \/ (Len(s) = 1 /\ c > SubnetLast)
  <2>1. CASE ~Exhausted
    BY <1>1, <1>4, <2>1, WholeTake
  <2>2. CASE Exhausted
    <3>1. PICK m \in Nat : Len(s) = 4 * m \/ Len(s) = 4 * m + 1
      BY <1>4, <2>2
    <3>2. Len(s) = 0 \/ Len(s) >= 4 \/ Len(s) = 1
      BY <1>m, <1>n, <3>1, Zenon
    <3> QED
      BY <1>1, <1>4, <2>2, <3>2, SeqEmpty
  <2> QED
    BY <2>1, <2>2
<1>6. Len(s) >= 4 => TakesFour(r, c, s)
  <2>1. r = IPInterface([lastFromPool |-> c, free |-> s])
    BY <1>b
  <2> HIDE DEF r, c, s
  <2> QED
    BY <1>1, <2>1, InterfaceFromFreeList, Zenon
<1>7. s = <<>> =>
        /\ c + 4 <= SubnetLast =>
             /\ r.ok = TRUE /\ r.slice = <<c, c + 1, c + 2, c + 3>>
             /\ r.pool = [lastFromPool |-> c + 4, free |-> <<>>]
        /\ c + 4 > SubnetLast =>
             /\ r.ok = FALSE
             /\ c >= SubnetLast => r.pool = [lastFromPool |-> c + 1, free |-> <<>>]
             /\ c = SubnetLast - 1 => r.pool = [lastFromPool |-> c + 2, free |-> <<c>>]
             /\ c = SubnetLast - 2 => r.pool = [lastFromPool |-> c + 3, free |-> <<>>]
             /\ c = SubnetLast - 3 => r.pool = [lastFromPool |-> c + 4, free |-> <<>>]
  <2>1. r = IPInterface([lastFromPool |-> c, free |-> s])
    BY <1>b
  <2> HIDE DEF r, c, s
  <2> QED
    BY <1>1, <2>1, InterfaceFromCursor, Zenon
<1>8. Len(s) = 1 /\ c > SubnetLast =>
        r.ok = FALSE /\ r.pool = [lastFromPool |-> c + 1, free |-> <<s[1]>>]
  <2>1. r = IPInterface([lastFromPool |-> c, free |-> s])
    BY <1>b
  <2> HIDE DEF r, c, s
  <2> QED
    BY <1>1, <2>1, InterfaceOneLeft, Zenon
<1> HIDE DEF r, c, s
<1> QED
  BY <1>5, <1>6, <1>7, <1>8, Zenon DEF r, c, s

\* Every call preserves the invariant of what is lost.
LEMMA LossInvStep ==
  PoolInv /\ LossInv /\ [PoolNext]_poolVars => LossInv'
<1> SUFFICES ASSUME PoolInv, LossInv, [PoolNext]_poolVars PROVE LossInv'
  OBVIOUS
<1>0. StartIP \in Nat /\ SubnetLast \in Nat /\ StartIP <= SubnetLast
  BY PoolAssumption
<1> DEFINE c == pool.lastFromPool
           s == pool.free
           r == IPInterface(pool)
<1>a. /\ held \in [SiloIDs -> Slice \cup {<<>>}]
      /\ \A i, j \in SiloIDs : i # j => Range(held[i]) \cap Range(held[j]) = {}
  BY DEF PoolInv
<1>b. pool = [lastFromPool |-> c, free |-> s]
  BY DEF PoolInv, Sound
<1>1. c \in Nat /\ s \in Seq(Nat) /\ StartIP <= c
  BY DEF PoolInv, Sound
<1>n. Len(s) \in Nat
  BY <1>1, SeqLen
<1>2. PoolInv'
  BY PoolInvStep
<1>3. c' \in Nat /\ s' \in Seq(Nat)
  BY <1>2 DEF PoolInv, Sound
<1>4. /\ ~Exhausted => /\ c <= SubnetLast
                       /\ \E m \in Nat : c = StartIP + 4 * m
                       /\ Whole(s) /\ Lost = {}
                       /\ \A id \in SiloIDs : held[id] # <<>> => \E q \in Nat : WholeAt(held[id], 0, q)
      /\ Exhausted => /\ c > SubnetLast
                      /\ \E m \in Nat : Len(s) = 4 * m \/ Len(s) = 4 * m + 1
                      /\ Lost \subseteq (SubnetLast - 3)..(SubnetLast - 1)
      /\ Exhausted \in BOOLEAN
  BY <1>0, <1>1 DEF LossInv, Exhausted
<1>m. \A m, n \in Nat : n = 4 * m \/ n = 4 * m + 1 =>
        /\ n = 0 \/ n >= 4 \/ n = 1
        /\ m + 1 \in Nat /\ (n + 4 = 4 * (m + 1) \/ n + 4 = 4 * (m + 1) + 1)
        /\ n >= 4 => m - 1 \in Nat /\ (n - 4 = 4 * (m - 1) \/ n - 4 = 4 * (m - 1) + 1)
  OBVIOUS
<1>5. /\ s = <<>> \/ Len(s) >= 4 \/ (Len(s) = 1 /\ c > SubnetLast)
  BY InterfaceResult, Zenon
<1>6. Len(s) >= 4 => TakesFour(r, c, s)
  BY InterfaceResult, Zenon
<1>7. s = <<>> =>
        /\ c + 4 <= SubnetLast =>
             /\ r.ok = TRUE /\ r.slice = <<c, c + 1, c + 2, c + 3>>
             /\ r.pool = [lastFromPool |-> c + 4, free |-> <<>>]
        /\ c + 4 > SubnetLast =>
             /\ r.ok = FALSE
             /\ c >= SubnetLast => r.pool = [lastFromPool |-> c + 1, free |-> <<>>]
             /\ c = SubnetLast - 1 => r.pool = [lastFromPool |-> c + 2, free |-> <<c>>]
             /\ c = SubnetLast - 2 => r.pool = [lastFromPool |-> c + 3, free |-> <<>>]
             /\ c = SubnetLast - 3 => r.pool = [lastFromPool |-> c + 4, free |-> <<>>]
  BY InterfaceResult, Zenon
<1>8. Len(s) = 1 /\ c > SubnetLast =>
        r.ok = FALSE /\ r.pool = [lastFromPool |-> c + 1, free |-> <<s[1]>>]
  BY InterfaceResult, Zenon
<1>9. Exhausted' <=> c' > SubnetLast
  BY DEF Exhausted
<1> HIDE DEF r
<1>10. ASSUME NEW id \in SiloIDs, PoolAlloc(id)
       PROVE  LossInv'
  <2>1. held[id] = <<>> /\ r.ok /\ pool' = r.pool /\ held' = [held EXCEPT ![id] = r.slice]
    BY <1>10 DEF PoolAlloc, r
  <2>2. Loaned' = Loaned \cup Range(r.slice)
    BY <1>a, <2>1, LoanedChange, Zenon
  <2>3. held'[id] = r.slice /\ \A j \in SiloIDs : j # id => held'[j] = held[j]
    BY <1>a, <2>1
  <2>4. CASE Len(s) >= 4
    <3>1. /\ r.slice = <<s[1], s[2], s[3], s[4]>> /\ c' = c
          /\ s' \in Seq(Nat) /\ Len(s') = Len(s) - 4
          /\ \A i \in 1..(Len(s) - 4) : s'[i] = s[i + 4]
      BY <1>6, <2>1, <2>4 DEF TakesFour
    <3>2. Range(s) \subseteq Range(r.slice) \cup Range(s')
      BY <1>1, <2>4, <3>1, RangeTake
    <3>3. Free \cup Loaned \subseteq Free' \cup Loaned'
      BY <2>2, <3>2 DEF Free, Range
    <3>4. Lost' \subseteq Lost
      BY <1>1, <1>3, <3>1, <3>3, LostStep
    <3>5. Exhausted' = Exhausted
      BY <3>1 DEF Exhausted
    <3>6. CASE Exhausted
      <4>1. PICK m \in Nat : Len(s) = 4 * m \/ Len(s) = 4 * m + 1
        BY <1>4, <3>6
      <4>2. m - 1 \in Nat /\ (Len(s') = 4 * (m - 1) \/ Len(s') = 4 * (m - 1) + 1)
        BY <1>m, <1>n, <2>4, <3>1, <4>1, Zenon
      <4> QED
        BY <1>4, <3>4, <3>5, <3>6, <4>2 DEF LossInv
    <3>7. CASE ~Exhausted
      <4>1. Whole(s') /\ \E q \in Nat : WholeAt(s, 0, q)
        BY <1>1, <1>4, <2>4, <3>1, <3>7, WholeTake
      <4>2. PICK q \in Nat : WholeAt(s, 0, q)
        BY <4>1
      <4>3. WholeAt(held'[id], 0, q)
        BY <2>3, <3>1, <4>2 DEF WholeAt
      <4>4. \A j \in SiloIDs : held'[j] # <<>> => \E q1 \in Nat : WholeAt(held'[j], 0, q1)
        BY <1>4, <2>3, <3>7, <4>3, Zenon
      <4>5. Lost' = {}
        BY <1>4, <3>4, <3>7
      <4> QED
        BY <1>4, <3>1, <3>5, <3>7, <4>1, <4>4, <4>5 DEF LossInv, Whole, WholeAt
    <3> QED
      BY <3>6, <3>7
  <2>5. CASE s = <<>>
    <3>1. c + 4 <= SubnetLast /\ ~Exhausted
      <4>1. ~(c + 4 > SubnetLast)
        BY <1>7, <2>1, <2>5, Zenon
      <4>2. ~(c > SubnetLast)
        BY <1>0, <1>1, <4>1
      <4>3. ~Exhausted
        BY <1>4, <4>2, Zenon
      <4> QED
        BY <1>0, <1>1, <4>1, <4>3
    <3>2. r.slice = <<c, c + 1, c + 2, c + 3>> /\ c' = c + 4 /\ s' = <<>>
      BY <1>7, <2>1, <2>5, <3>1
    <3>3. ~Exhausted'
      BY <1>0, <1>1, <1>9, <3>1, <3>2
    <3>4. Range(s) = {} /\ Range(s') = {}
      BY <2>5, <3>2 DEF Range
    <3>5. Range(r.slice) = {c, c + 1, c + 2, c + 3}
      <4> DEFINE f == <<c, c + 1, c + 2, c + 3>>
      <4>1. DOMAIN f = 1..4 /\ f[1] = c /\ f[2] = c + 1 /\ f[3] = c + 2 /\ f[4] = c + 3
        OBVIOUS
      <4>2. \A i \in 1..4 : i = 1 \/ i = 2 \/ i = 3 \/ i = 4
        OBVIOUS
      <4> HIDE DEF f
      <4>3. Range(f) = {c, c + 1, c + 2, c + 3}
        BY <4>1, <4>2 DEF Range
      <4> QED
        BY <3>2, <4>3 DEF f
    <3>6. Lost' = {}
      <4>1. Free \cup Loaned \subseteq Free' \cup Loaned'
        BY <2>2, <3>4 DEF Free, Range
      <4>2. ASSUME NEW a \in Lost' PROVE FALSE
        <5>1. a \in Nat /\ a < c + 4 /\ a \notin Loaned' /\ (a \in Lost \/ a >= c)
          BY <1>1, <1>3, <3>2, <4>1, LostStep
        <5>2. a = c \/ a = c + 1 \/ a = c + 2 \/ a = c + 3
          <6>1. a >= c
            BY <1>4, <3>1, <5>1, Zenon
          <6> HIDE DEF c, s
          <6> QED
            BY <1>1, <5>1, <6>1
        <5> QED
          BY <2>2, <3>5, <5>1, <5>2
      <4> QED
        BY <4>2
    <3>7. PICK m \in Nat : c = StartIP + 4 * m
      BY <1>4, <3>1
    <3>8. WholeAt(held'[id], 0, m)
      BY <1>0, <2>3, <3>2, <3>7 DEF WholeAt
    <3>9. \A j \in SiloIDs : held'[j] # <<>> => \E q \in Nat : WholeAt(held'[j], 0, q)
      BY <1>4, <2>3, <3>1, <3>8, Zenon
    <3>10. \E n \in Nat : c' = StartIP + 4 * n
      <4>1. m + 1 \in Nat /\ c' = StartIP + 4 * (m + 1)
        BY <1>0, <3>2, <3>7
      <4> QED
        BY <4>1, Zenon
    <3>11. Whole(s')
      BY <1>4, <2>5, <3>1, <3>2, Zenon
    <3> QED
      BY <3>3, <3>6, <3>9, <3>10, <3>11 DEF LossInv, Whole, WholeAt
  <2> QED
    BY <1>5, <1>8, <2>1, <2>4, <2>5
<1>11. CASE PoolAllocFails
  <2>1. pool' = r.pool /\ ~r.ok /\ UNCHANGED held
    BY <1>11 DEF PoolAllocFails, r
  <2>2. Loaned' = Loaned
    BY <2>1 DEF Loaned
  <2>3. CASE s = <<>>
    <3>1. /\ c + 4 > SubnetLast
          /\ \/ c >= SubnetLast /\ c' = c + 1 /\ s' = <<>>
             \/ c = SubnetLast - 1 /\ c' = c + 2 /\ s' = <<c>>
             \/ c = SubnetLast - 2 /\ c' = c + 3 /\ s' = <<>>
             \/ c = SubnetLast - 3 /\ c' = c + 4 /\ s' = <<>>
      <4>1. c + 4 > SubnetLast
        BY <1>0, <1>1, <1>7, <2>1, <2>3
      <4>2. c >= SubnetLast \/ c = SubnetLast - 1 \/ c = SubnetLast - 2 \/ c = SubnetLast - 3
        <5> HIDE DEF c, s
        <5> QED
          BY <1>0, <1>1, <4>1
      <4> QED
        BY <1>7, <2>1, <2>3, <4>1, <4>2, SMTT(20)
    <3>2. c' > SubnetLast /\ Exhausted'
      BY <1>0, <1>1, <1>9, <3>1
    <3>3. \E m \in Nat : Len(s') = 4 * m \/ Len(s') = 4 * m + 1
      <4>1. s' = <<>> \/ s' = <<c>>
        BY <3>1, Zenon
      <4>2. 0 \in Nat /\ Len(<<>>) = 4 * 0 /\ Len(<<c>>) = 4 * 0 + 1
        OBVIOUS
      <4> QED
        BY <4>1, <4>2, Zenon
    <3>4. Free \cup Loaned \subseteq Free' \cup Loaned'
      BY <2>2, <2>3 DEF Free, Range
    <3>5. ASSUME NEW a \in Lost'
          PROVE  a \in (SubnetLast - 3)..(SubnetLast - 1)
      <4>1. a \in Nat /\ a < SubnetLast /\ (a \in Lost \/ a >= c)
        BY <1>1, <1>3, <3>4, LostStep
      <4>2. a \in Lost => a \in (SubnetLast - 3)..(SubnetLast - 1)
        BY <1>4
      <4>3. a >= c => a \in (SubnetLast - 3)..(SubnetLast - 1)
        BY <1>0, <1>1, <3>1, <4>1
      <4> QED
        BY <4>1, <4>2, <4>3
    <3> QED
      BY <3>2, <3>3, <3>5 DEF LossInv
  <2>4. CASE Len(s) = 1 /\ c > SubnetLast
    <3>1. c' = c + 1 /\ s' = <<s[1]>> /\ Exhausted
      BY <1>8, <2>1, <2>4 DEF Exhausted
    <3>2. c' > SubnetLast /\ Exhausted'
      BY <1>0, <1>1, <1>9, <2>4, <3>1
    <3>3. \E m \in Nat : Len(s') = 4 * m \/ Len(s') = 4 * m + 1
      <4>1. Len(s') = 4 * 0 + 1
        BY <3>1
      <4> QED
        BY <4>1
    <3>4. Range(s) \subseteq Range(s')
      <4>1. DOMAIN s = {1}
        BY <1>1, <2>4, SeqLen
      <4> QED
        BY <3>1, <4>1 DEF Range
    <3>5. Free \cup Loaned \subseteq Free' \cup Loaned'
      BY <2>2, <3>4 DEF Free, Range
    <3>6. Lost' \subseteq Lost
      BY <1>0, <1>1, <1>3, <2>4, <3>5, LostStep
    <3> QED
      BY <1>4, <3>1, <3>2, <3>3, <3>6 DEF LossInv
  <2> QED
    BY <1>5, <1>6, <2>1, <2>3, <2>4 DEF TakesFour
<1>12. ASSUME NEW id \in SiloIDs, PoolFree(id)
       PROVE  LossInv'
  <2> DEFINE h == held[id]
  <2>1. /\ h # <<>> /\ pool' = FreeAssignment(pool, h)
        /\ held' = [held EXCEPT ![id] = <<>>]
    BY <1>12 DEF PoolFree
  <2>2. h \in Seq(Nat) /\ h \in Slice
    BY <1>a, <2>1, SliceIsSeq
  <2>3. Len(h) = 4
    BY <2>2, SeqLen DEF Slice
  <2>4. c' = c /\ s' = s \o h
    BY <1>b, <2>1 DEF FreeAssignment
  <2>5. Loaned' = Loaned \ Range(h)
    BY <1>a, <2>1, LoanedChange, Zenon
  <2>6. Range(s \o h) = Range(s) \cup Range(h) /\ Len(s \o h) = Len(s) + 4
    <3>1. Range(s \o h) = Range(s) \cup Range(h)
      BY <1>1, <2>2, ConcatRange
    <3>2. Len(s \o h) = Len(s) + Len(h)
      BY <1>1, <2>2, SeqConcat, Zenon
    <3> QED
      BY <2>3, <3>1, <3>2
  <2>7. held'[id] = <<>> /\ \A j \in SiloIDs : j # id => held'[j] = held[j]
    BY <1>a, <2>1
  <2> HIDE DEF h
  <2>8. Free \cup Loaned \subseteq Free' \cup Loaned'
    BY <2>4, <2>5, <2>6 DEF Free, Range
  <2>9. Lost' \subseteq Lost
    BY <1>1, <1>3, <2>4, <2>8, LostStep
  <2>10. Exhausted' = Exhausted
    BY <2>4 DEF Exhausted
  <2>11. CASE Exhausted
    <3>1. PICK m \in Nat : Len(s) = 4 * m \/ Len(s) = 4 * m + 1
      BY <1>4, <2>11
    <3>2. m + 1 \in Nat /\ (Len(s') = 4 * (m + 1) \/ Len(s') = 4 * (m + 1) + 1)
      BY <1>m, <1>n, <2>4, <2>6, <3>1, Zenon
    <3> QED
      BY <1>4, <2>9, <2>10, <2>11, <3>2 DEF LossInv
  <2>12. CASE ~Exhausted
    <3>1. PICK q \in Nat : WholeAt(h, 0, q)
      BY <1>4, <2>1, <2>12 DEF h
    <3>2. Whole(s')
      BY <1>1, <1>4, <2>2, <2>3, <2>4, <2>12, <3>1, WholeJoin
    <3>3. \A j \in SiloIDs : held'[j] # <<>> => \E q1 \in Nat : WholeAt(held'[j], 0, q1)
      BY <1>4, <2>7, <2>12, Zenon
    <3>4. Lost' = {}
      BY <1>4, <2>9, <2>12
    <3> QED
      BY <1>4, <2>4, <2>10, <2>12, <3>2, <3>3, <3>4 DEF LossInv, Whole, WholeAt
  <2> QED
    BY <2>11, <2>12
<1>13. CASE UNCHANGED poolVars
  <2>1. pool' = pool /\ held' = held
    BY <1>13 DEF poolVars
  <2>2. Exhausted' = Exhausted /\ Lost' = Lost /\ Whole(pool.free)' = Whole(pool.free)
    BY <2>1 DEF Exhausted, Lost, Issued, Free, Loaned, Range, Whole, WholeAt
  <2> QED
    BY <2>1, <2>2 DEF LossInv, WholeAt
<1> QED
  BY <1>10, <1>11, <1>12, <1>13 DEF PoolNext

\* The invariant holds in every state of the pool and its callers.
THEOREM LossInvariant == PoolSpec => []LossInv
BY PoolInvariant, LossInvInit, LossInvStep, PTL DEF PoolSpec

\* Until getNextFromPool reports an exhausted pool for the first time, nothing is
\* lost and every slice on loan is four consecutive addresses, a multiple of
\* four from the first.
THEOREM SlicesStayWhole == PoolSpec => []WholeSlicesUntilExhausted
<1>1. PoolInv /\ LossInv => WholeSlicesUntilExhausted
  <2> SUFFICES ASSUME PoolInv, LossInv, ~Exhausted, NEW id \in SiloIDs, held[id] # <<>>
               PROVE  /\ (held[id][1] - StartIP) % 4 = 0
                      /\ \A i \in 2..4 : held[id][i] = held[id][1] + i - 1
    BY DEF LossInv, WholeSlicesUntilExhausted
  <2>1. StartIP \in Nat
    BY PoolAssumption
  <2>2. PICK q \in Nat : WholeAt(held[id], 0, q)
    BY DEF LossInv
  <2>3. /\ held[id][1] = StartIP + 4 * q     /\ held[id][2] = StartIP + 4 * q + 1
        /\ held[id][3] = StartIP + 4 * q + 2 /\ held[id][4] = StartIP + 4 * q + 3
    BY <2>2 DEF WholeAt
  <2>4. \A i \in 2..4 : i = 2 \/ i = 3 \/ i = 4
    OBVIOUS
  <2>5. (4 * q) % 4 = 0 /\ (StartIP + 4 * q) - StartIP = 4 * q
    BY <2>1
  <2> QED
    BY <2>1, <2>3, <2>4, <2>5
<1> QED
  BY <1>1, PoolInvariant, LossInvariant, PTL

\* The failing calls of IPInterface lose at most three addresses over the whole
\* life of a pool, and those are the last three before the last of the subnet.
THEOREM LittleIsLost == PoolSpec => []LossBounded
<1>1. LossInv => LossBounded
  <2> SUFFICES ASSUME LossInv PROVE Cardinality(Lost) <= 3
    BY DEF LossBounded
  <2>1. SubnetLast - 3 \in Int /\ SubnetLast - 1 \in Int
    BY PoolAssumption
  <2> DEFINE last == (SubnetLast - 3)..(SubnetLast - 1)
  <2>2. IsFiniteSet(last) /\ Cardinality(last) = 3
    <3>1. /\ IsFiniteSet(last)
          /\ Cardinality(last) = IF SubnetLast - 3 > SubnetLast - 1 THEN 0
                                 ELSE (SubnetLast - 1) - (SubnetLast - 3) + 1
      BY <2>1, FS_Interval, Zenon
    <3>2. SubnetLast \in Nat
      BY PoolAssumption
    <3> HIDE DEF last
    <3> QED
      BY <3>1, <3>2
  <2>3. Lost \in SUBSET last
    BY DEF LossInv
  <2> HIDE DEF last
  <2>4. IsFiniteSet(Lost) /\ Cardinality(Lost) <= Cardinality(last)
    BY <2>2, <2>3, FS_Subset
  <2> QED
    BY <2>2, <2>4
<1> QED
  BY <1>1, LossInvariant, PTL

-----------------------------------------------------------------------------
\* The four things a step can do to a pool with these invariants.

\* caller id gets the four addresses that were freed first
Reused(id) ==
  LET s == pool.free
  IN  /\ held[id] = <<>> /\ Len(s) >= 4
      /\ held' = [held EXCEPT ![id] = <<s[1], s[2], s[3], s[4]>>]
      /\ pool'.lastFromPool = pool.lastFromPool
      /\ pool'.free \in Seq(Nat) /\ Len(pool'.free) = Len(s) - 4
      /\ \A i \in 1..(Len(s) - 4) : pool'.free[i] = s[i + 4]

\* caller id gets the next four of the subnet
Carved(id) ==
  LET c == pool.lastFromPool
  IN  /\ held[id] = <<>> /\ pool.free = <<>> /\ c + 4 <= SubnetLast
      /\ held' = [held EXCEPT ![id] = <<c, c + 1, c + 2, c + 3>>]
      /\ pool'.lastFromPool = c + 4 /\ pool'.free = <<>>

\* a caller is refused; a single address that was left is in the free list
Refused ==
  LET c == pool.lastFromPool
  IN  /\ held' = held /\ pool'.lastFromPool > SubnetLast
      /\ \/ /\ pool.free = <<>> /\ c + 4 > SubnetLast
            /\ pool'.free = <<>> \/ (c = SubnetLast - 1 /\ pool'.free = <<c>>)
         \/ c > SubnetLast /\ Len(pool.free) = 1 /\ Len(pool'.free) = 1

\* caller id returns its slice
Returned(id) ==
  /\ held[id] \in Slice
  /\ held' = [held EXCEPT ![id] = <<>>]
  /\ pool'.lastFromPool = pool.lastFromPool /\ pool'.free = pool.free \o held[id]

LEMMA PoolStepCases ==
  ASSUME PoolInv, LossInv, PoolNext
  PROVE  Refused \/ \E id \in SiloIDs : Reused(id) \/ Carved(id) \/ Returned(id)
<1> DEFINE c == pool.lastFromPool
           s == pool.free
           r == IPInterface(pool)
<1>0. SubnetLast \in Nat /\ c \in Nat
  BY PoolAssumption DEF PoolInv, Sound
<1>1. pool = [lastFromPool |-> c, free |-> s] /\ held \in [SiloIDs -> Slice \cup {<<>>}]
  BY DEF PoolInv, Sound
<1>5. s = <<>> \/ Len(s) >= 4 \/ (Len(s) = 1 /\ c > SubnetLast)
  BY InterfaceResult, Zenon
<1>6. Len(s) >= 4 => TakesFour(r, c, s)
  BY InterfaceResult, Zenon
<1>7. s = <<>> =>
        /\ c + 4 <= SubnetLast =>
             /\ r.ok = TRUE /\ r.slice = <<c, c + 1, c + 2, c + 3>>
             /\ r.pool = [lastFromPool |-> c + 4, free |-> <<>>]
        /\ c + 4 > SubnetLast =>
             /\ r.ok = FALSE
             /\ c >= SubnetLast => r.pool = [lastFromPool |-> c + 1, free |-> <<>>]
             /\ c = SubnetLast - 1 => r.pool = [lastFromPool |-> c + 2, free |-> <<c>>]
             /\ c = SubnetLast - 2 => r.pool = [lastFromPool |-> c + 3, free |-> <<>>]
             /\ c = SubnetLast - 3 => r.pool = [lastFromPool |-> c + 4, free |-> <<>>]
  BY InterfaceResult, Zenon
<1>8. Len(s) = 1 /\ c > SubnetLast =>
        r.ok = FALSE /\ r.pool = [lastFromPool |-> c + 1, free |-> <<s[1]>>]
  BY InterfaceResult, Zenon
<1>9. ASSUME NEW id \in SiloIDs, PoolAlloc(id) PROVE Reused(id) \/ Carved(id)
  <2>1. held[id] = <<>> /\ r.ok /\ pool' = r.pool /\ held' = [held EXCEPT ![id] = r.slice]
    BY <1>9 DEF PoolAlloc
  <2> HIDE DEF r
  <2>2. CASE Len(s) >= 4
    BY <1>6, <2>1, <2>2 DEF TakesFour, Reused
  <2>3. CASE s = <<>>
    <3>1. c + 4 <= SubnetLast
      BY <1>0, <1>7, <2>1, <2>3
    <3>2. r.slice = <<c, c + 1, c + 2, c + 3>> /\ c' = c + 4 /\ s' = <<>>
      BY <1>7, <2>1, <2>3, <3>1
    <3>3. held' = [held EXCEPT ![id] = <<c, c + 1, c + 2, c + 3>>]
      BY <2>1, <3>2, Zenon
    <3> QED
      BY <2>1, <2>3, <3>1, <3>2, <3>3, Zenon DEF Carved
  <2> QED
    BY <1>5, <1>8, <2>1, <2>2, <2>3
<1>10. ASSUME PoolAllocFails PROVE Refused
  <2>1. ~r.ok /\ pool' = r.pool /\ held' = held
    BY <1>10 DEF PoolAllocFails
  <2> HIDE DEF r
  <2>2. CASE s = <<>>
    <3>1. c + 4 > SubnetLast
      BY <1>0, <1>7, <2>1, <2>2
    <3>2. c >= SubnetLast \/ c = SubnetLast - 1 \/ c = SubnetLast - 2 \/ c = SubnetLast - 3
      <4> HIDE DEF c, s
      <4> QED
        BY <1>0, <3>1
    <3>3. \/ c >= SubnetLast /\ c' = c + 1 /\ s' = <<>>
          \/ c = SubnetLast - 1 /\ c' = c + 2 /\ s' = <<c>>
          \/ c = SubnetLast - 2 /\ c' = c + 3 /\ s' = <<>>
          \/ c = SubnetLast - 3 /\ c' = c + 4 /\ s' = <<>>
      BY <1>7, <2>1, <2>2, <3>1, <3>2
    <3>4. c' > SubnetLast
      BY <1>0, <3>3
    <3>5. s' = <<>> \/ (c = SubnetLast - 1 /\ s' = <<c>>)
      BY <3>3, Zenon
    <3> QED
      BY <2>1, <2>2, <3>1, <3>4, <3>5, Zenon DEF Refused
  <2>3. CASE Len(s) = 1 /\ c > SubnetLast
    <3>1. c' = c + 1 /\ s' = <<s[1]>>
      BY <1>8, <2>1, <2>3
    <3>2. c' > SubnetLast /\ Len(s') = 1
      BY <1>0, <2>3, <3>1
    <3> QED
      BY <2>1, <2>3, <3>2, Zenon DEF Refused
  <2> QED
    BY <1>5, <1>6, <2>1, <2>2, <2>3 DEF TakesFour
<1>11. ASSUME NEW id \in SiloIDs, PoolFree(id) PROVE Returned(id)
  BY <1>1, <1>11 DEF PoolFree, FreeAssignment, Returned
<1> QED
  BY <1>9, <1>10, <1>11 DEF PoolNext

-----------------------------------------------------------------------------
(***************************************************************************)
(* Room: k slices on loan and f in the free list are, together with what   *)
(* the cursor has not passed, all the slices the subnet has room for.      *)
(***************************************************************************)
Shares(k, f) ==
  /\ Len(pool.free) = 4 * f \/ (Exhausted /\ Len(pool.free) = 4 * f + 1)
  /\ ~Exhausted => pool.lastFromPool = StartIP + 4 * (k + f)
  /\ Exhausted => /\ 4 * (k + f) <= SubnetLast - StartIP
                  /\ SubnetLast - StartIP < 4 * (k + f) + 4

CountInv ==
  \E k, f \in Nat : IsFiniteSet(Holders) /\ Cardinality(Holders) = k /\ Shares(k, f)

\* A slice is four addresses.
LEMMA SliceHasFour ==
  ASSUME NEW h \in Slice
  PROVE  h # <<>> /\ Len(h) = 4 /\ h \in Seq(Nat)
<1>1. h \in Seq(Nat)
  BY SliceIsSeq
<1>2. Len(h) = 4
  BY <1>1, SeqLen DEF Slice
<1>3. Len(<<>>) = 0
  OBVIOUS
<1>4. h # <<>>
  <2>1. SUFFICES ASSUME h = <<>> PROVE FALSE
    OBVIOUS
  <2>2. Len(h) = 0
    BY <1>3, <2>1, Zenon
  <2> QED
    BY <1>2, <2>2
<1> QED
  BY <1>1, <1>2, <1>4

\* Fewer than two addresses are no slice.
LEMMA NoneLeft ==
  ASSUME NEW f \in Nat, NEW n \in {0, 1}, n = 4 * f \/ n = 4 * f + 1
  PROVE  f = 0
OBVIOUS

\* A caller is a holder from a successful call to the return of the slice.
LEMMA HoldersChange ==
  ASSUME PoolInv, NEW id \in SiloIDs, IsFiniteSet(Holders),
         NEW x, held' = [held EXCEPT ![id] = x]
  PROVE  /\ IsFiniteSet(Holders')
         /\ held[id] = <<>> /\ x # <<>> => Cardinality(Holders') = Cardinality(Holders) + 1
         /\ held[id] # <<>> /\ x = <<>> => Cardinality(Holders') = Cardinality(Holders) - 1
<1>1. held \in [SiloIDs -> Slice \cup {<<>>}]
  BY DEF PoolInv
<1>2. held'[id] = x /\ \A j \in SiloIDs : j # id => held'[j] = held[j]
  BY <1>1
<1>3. Holders' = IF x = <<>> THEN Holders \ {id} ELSE Holders \cup {id}
  BY <1>2 DEF Holders
<1>4. id \in Holders <=> held[id] # <<>>
  BY DEF Holders
<1>5. CASE x = <<>>
  BY <1>3, <1>4, <1>5, FS_RemoveElement, Zenon
<1>6. CASE x # <<>>
  BY <1>3, <1>4, <1>6, FS_AddElement, Zenon
<1> QED
  BY <1>5, <1>6

\* Nobody has a slice at the start.
LEMMA CountInvInit ==
  PoolInit => CountInv
<1> SUFFICES ASSUME PoolInit PROVE CountInv
  OBVIOUS
<1>1. Holders = {}
  BY DEF PoolInit, Holders
<1>2. IsFiniteSet(Holders) /\ Cardinality(Holders) = 0
  BY <1>1, FS_EmptySet, Zenon
<1>3. pool.free = <<>> /\ pool.lastFromPool = StartIP
  BY DEF PoolInit, NewIPPool
<1>4. Shares(0, 0)
  BY <1>3, PoolAssumption DEF Shares, Exhausted
<1> QED
  BY <1>2, <1>4 DEF CountInv

\* Every step keeps the count.
LEMMA CountInvStep ==
  ASSUME PoolInv, LossInv, CountInv, [PoolNext]_poolVars
  PROVE  CountInv'
<1> DEFINE c == pool.lastFromPool
           s == pool.free
<1>1. PICK k \in Nat, f \in Nat :
        IsFiniteSet(Holders) /\ Cardinality(Holders) = k /\ Shares(k, f)
  BY DEF CountInv
<1>2. StartIP \in Nat /\ SubnetLast \in Nat /\ c \in Nat /\ s \in Seq(Nat)
  BY PoolAssumption DEF PoolInv, Sound
<1>3. Len(s) \in Nat
  BY <1>2, SeqLen
<1>4. ASSUME NEW id \in SiloIDs, Reused(id) PROVE CountInv'
  <2>1. /\ held[id] = <<>> /\ Len(s) >= 4 /\ c' = c /\ Len(s') = Len(s) - 4
        /\ held' = [held EXCEPT ![id] = <<s[1], s[2], s[3], s[4]>>]
    BY <1>4 DEF Reused
  <2>2. <<s[1], s[2], s[3], s[4]>> # <<>>
    OBVIOUS
  <2>3. IsFiniteSet(Holders') /\ Cardinality(Holders') = k + 1
    BY <1>1, <2>1, <2>2, HoldersChange, Zenon
  <2>4. f - 1 \in Nat /\ Shares(k + 1, f - 1)'
    <3>1. f >= 1
      BY <1>1, <1>3, <2>1 DEF Shares
    <3>2. k + 1 + (f - 1) = k + f /\ 4 * (f - 1) = 4 * f - 4
      BY <3>1
    <3>3. Exhausted' <=> Exhausted
      BY <2>1 DEF Exhausted
    <3>4. Len(s') = 4 * (f - 1) \/ (Exhausted' /\ Len(s') = 4 * (f - 1) + 1)
      <4>1. Len(s) = 4 * f \/ (Exhausted /\ Len(s) = 4 * f + 1)
        BY <1>1 DEF Shares
      <4>2. ASSUME NEW n \in Nat, NEW m, m = n - 4
            PROVE  /\ n = 4 * f => m = 4 * (f - 1)
                   /\ n = 4 * f + 1 => m = 4 * (f - 1) + 1
        BY <4>2
      <4> QED
        BY <1>3, <2>1, <3>3, <4>1, <4>2
    <3>5. ~Exhausted' => c' = StartIP + 4 * (k + 1 + (f - 1))
      BY <1>1, <2>1, <3>2, <3>3 DEF Shares
    <3>6. Exhausted' => /\ 4 * (k + 1 + (f - 1)) <= SubnetLast - StartIP
                        /\ SubnetLast - StartIP < 4 * (k + 1 + (f - 1)) + 4
      BY <1>1, <3>2, <3>3 DEF Shares
    <3>7. f - 1 \in Nat
      BY <3>1
    <3> QED
      BY <3>4, <3>5, <3>6, <3>7 DEF Shares
  <2> QED
    BY <2>3, <2>4 DEF CountInv
<1>5. ASSUME NEW id \in SiloIDs, Carved(id) PROVE CountInv'
  <2>1. /\ held[id] = <<>> /\ s = <<>> /\ c + 4 <= SubnetLast /\ c' = c + 4 /\ s' = <<>>
        /\ held' = [held EXCEPT ![id] = <<c, c + 1, c + 2, c + 3>>]
    BY <1>5 DEF Carved
  <2>2. <<c, c + 1, c + 2, c + 3>> # <<>>
    OBVIOUS
  <2>3. IsFiniteSet(Holders') /\ Cardinality(Holders') = k + 1
    BY <1>1, <2>1, <2>2, HoldersChange, Zenon
  <2>4. Shares(k + 1, 0)'
    <3>1. Len(s) = 0 /\ Len(s') = 0
      BY <2>1
    <3>2. f = 0 /\ c = StartIP + 4 * k
      BY <1>1, <1>2, <2>1, <3>1 DEF Shares, Exhausted
    <3> QED
      BY <1>2, <2>1, <3>1, <3>2 DEF Shares, Exhausted
  <2> QED
    BY <2>3, <2>4 DEF CountInv
<1>6. ASSUME NEW id \in SiloIDs, Returned(id) PROVE CountInv'
  <2>1. /\ held[id] \in Slice /\ c' = c /\ s' = s \o held[id]
        /\ held' = [held EXCEPT ![id] = <<>>]
    BY <1>6 DEF Returned
  <2>2. held[id] # <<>> /\ Len(held[id]) = 4 /\ held[id] \in Seq(Nat)
    BY <2>1, SliceHasFour, Zenon
  <2>3. IsFiniteSet(Holders') /\ Cardinality(Holders') = k - 1
    BY <1>1, <2>1, <2>2, HoldersChange, Zenon
  <2>4. Len(s') = Len(s) + 4
    <3>1. Len(s \o held[id]) = Len(s) + Len(held[id])
      BY <1>2, <2>2, SeqConcat, Zenon
    <3> QED
      BY <2>1, <2>2, <3>1
  <2>5. k - 1 \in Nat
    BY <2>3, FS_CardinalityType
  <2>6. f + 1 \in Nat /\ Shares(k - 1, f + 1)'
    <3>1. (k - 1) + (f + 1) = k + f /\ 4 * (f + 1) = 4 * f + 4
      OBVIOUS
    <3>2. Len(s') = 4 * (f + 1) \/ (c > SubnetLast /\ Len(s') = 4 * (f + 1) + 1)
      BY <1>1, <1>3, <2>4, <3>1 DEF Shares, Exhausted
    <3>3. /\ ~(c > SubnetLast) => c = StartIP + 4 * ((k - 1) + (f + 1))
          /\ c > SubnetLast => /\ 4 * ((k - 1) + (f + 1)) <= SubnetLast - StartIP
                               /\ SubnetLast - StartIP < 4 * ((k - 1) + (f + 1)) + 4
      BY <1>1, <3>1, Zenon DEF Shares, Exhausted
    <3>4. Shares(k - 1, f + 1)'
      BY <2>1, <3>2, <3>3, Zenon DEF Shares, Exhausted
    <3> QED
      BY <3>4
  <2> QED
    BY <2>3, <2>5, <2>6 DEF CountInv
<1>7. ASSUME Refused PROVE CountInv'
  <2>1. /\ held' = held /\ c' > SubnetLast
        /\ \/ /\ s = <<>> /\ c + 4 > SubnetLast
              /\ s' = <<>> \/ (c = SubnetLast - 1 /\ s' = <<c>>)
           \/ c > SubnetLast /\ Len(s) = 1 /\ Len(s') = 1
    BY <1>7 DEF Refused
  <2>2. Len(s) \in {0, 1} /\ Len(s') \in {0, 1} /\ (Len(s) = 0 \/ c > SubnetLast)
    BY <2>1
  <2>3. f = 0
    <3>1. Len(s) = 4 * f \/ Len(s) = 4 * f + 1
      BY <1>1, Zenon DEF Shares
    <3>2. Len(s) \in {0, 1}
      BY <2>2, Zenon
    <3> QED
      BY <3>1, <3>2, NoneLeft, Zenon
  <2>4. 4 * k <= SubnetLast - StartIP /\ SubnetLast - StartIP < 4 * k + 4
    BY <1>1, <1>2, <2>1, <2>3 DEF Shares, Exhausted
  <2>5. Shares(k, 0)'
    BY <1>2, <2>1, <2>2, <2>4 DEF Shares, Exhausted
  <2>6. IsFiniteSet(Holders') /\ Cardinality(Holders') = k
    BY <1>1, <2>1 DEF Holders
  <2> QED
    BY <2>5, <2>6 DEF CountInv
<1>8. CASE UNCHANGED poolVars
  BY <1>8 DEF CountInv, Shares, Exhausted, Holders, poolVars
<1> QED
  BY <1>4, <1>5, <1>6, <1>7, <1>8, PoolStepCases

\* The count holds in every state of the pool and its callers.
THEOREM CountInvariant == PoolSpec => []CountInv
BY PoolInvariant, LossInvariant, CountInvInit, CountInvStep, PTL DEF PoolSpec

\* For every subnet, start address and set of callers: IPInterface refuses a
\* caller only when every slice the subnet has room for is on loan.
THEOREM RefusedOnlyWhenFull == PoolSpec => []RefusesOnlyWhenFull
<1>1. PoolInv /\ LossInv /\ CountInv => RefusesOnlyWhenFull
  <2> SUFFICES ASSUME PoolInv, LossInv, CountInv, ~IPInterface(pool).ok
               PROVE  Cardinality(Holders) = (SubnetLast - StartIP) \div 4
    BY DEF RefusesOnlyWhenFull, Capacity
  <2> DEFINE c == pool.lastFromPool
             s == pool.free
  <2>1. PICK k \in Nat, f \in Nat : Cardinality(Holders) = k /\ Shares(k, f)
    BY DEF CountInv
  <2>2. StartIP \in Nat /\ SubnetLast \in Nat /\ c \in Nat /\ s \in Seq(Nat)
    BY PoolAssumption DEF PoolInv, Sound
  <2>3. (s = <<>> /\ ~(c + 4 <= SubnetLast)) \/ (Len(s) = 1 /\ c > SubnetLast)
    BY InterfaceResult, Zenon DEF TakesFour
  <2>4. f = 0 /\ (Len(s) = 0 \/ c > SubnetLast)
    <3>1. Len(s) = 0 \/ Len(s) = 1
      BY <2>3
    <3>2. Len(s) = 4 * f \/ Len(s) = 4 * f + 1
      BY <2>1, Zenon DEF Shares
    <3>3. f = 0
      <4>1. Len(s) \in {0, 1}
        BY <3>1, Zenon
      <4> QED
        BY <3>2, <4>1, NoneLeft, Zenon
    <3>4. Len(s) = 0 \/ c > SubnetLast
      BY <2>3
    <3> QED
      BY <3>3, <3>4
  <2>5. 4 * k <= SubnetLast - StartIP /\ SubnetLast - StartIP < 4 * k + 4
    BY <2>1, <2>2, <2>3, <2>4 DEF Shares, Exhausted
  <2>6. (SubnetLast - StartIP) \div 4 = k
    BY <2>2, <2>5
  <2> QED
    BY <2>1, <2>6
<1> QED
  BY <1>1, PoolInvariant, LossInvariant, CountInvariant, PTL

-----------------------------------------------------------------------------
(***************************************************************************)
(* Blocks: what the comment in IPInterface says of a slice is true of the  *)
(* pools whose start address is not the last of a block and whose subnet   *)
(* does not end one address after a whole number of slices.                *)
(***************************************************************************)
KeepsBlocks == StartIP % 4 # 3 /\ (SubnetLast - StartIP) % 4 # 1

BlockInv ==
  /\ Whole(pool.free)
  /\ \A id \in SiloIDs : held[id] # <<>> => \E q \in Nat : WholeAt(held[id], 0, q)

\* Also when the pool is exhausted, slices come and go whole.
LEMMA BlockInvStep ==
  ASSUME KeepsBlocks, PoolInv, LossInv, BlockInv, [PoolNext]_poolVars
  PROVE  BlockInv'
<1> DEFINE c == pool.lastFromPool
           s == pool.free
<1>1. StartIP \in Nat /\ SubnetLast \in Nat /\ c \in Nat /\ s \in Seq(Nat)
  BY PoolAssumption DEF PoolInv, Sound
<1>2. held \in [SiloIDs -> Slice \cup {<<>>}]
  BY DEF PoolInv
<1>3. ASSUME NEW id \in SiloIDs, NEW h, held' = [held EXCEPT ![id] = h],
             h # <<>> => \E q \in Nat : WholeAt(h, 0, q)
      PROVE  \A j \in SiloIDs : held'[j] # <<>> => \E q \in Nat : WholeAt(held'[j], 0, q)
  <2>1. held'[id] = h /\ \A j \in SiloIDs : j # id => held'[j] = held[j]
    BY <1>2, <1>3
  <2> QED
    BY <1>3, <2>1, Zenon DEF BlockInv
<1>4. ASSUME NEW id \in SiloIDs, Reused(id) PROVE BlockInv'
  <2> DEFINE h == <<s[1], s[2], s[3], s[4]>>
  <2>1. /\ Len(s) >= 4 /\ held' = [held EXCEPT ![id] = h]
        /\ s' \in Seq(Nat) /\ Len(s') = Len(s) - 4
        /\ \A i \in 1..(Len(s) - 4) : s'[i] = s[i + 4]
    BY <1>4 DEF Reused
  <2>2. Whole(s)
    BY DEF BlockInv
  <2>3. Whole(s') /\ \E q \in Nat : WholeAt(s, 0, q)
    BY <1>1, <2>1, <2>2, WholeTake
  <2>4. \E q \in Nat : WholeAt(h, 0, q)
    BY <2>3 DEF WholeAt
  <2> HIDE DEF h
  <2>5. \A j \in SiloIDs : held'[j] # <<>> => \E q \in Nat : WholeAt(held'[j], 0, q)
    BY <1>3, <2>1, <2>4, Zenon
  <2> QED
    BY <2>3, <2>5 DEF BlockInv, Whole, WholeAt
<1>5. ASSUME NEW id \in SiloIDs, Carved(id) PROVE BlockInv'
  <2> DEFINE h == <<c, c + 1, c + 2, c + 3>>
  <2>1. /\ s = <<>> /\ s' = <<>> /\ c + 4 <= SubnetLast
        /\ held' = [held EXCEPT ![id] = h]
    BY <1>5 DEF Carved
  <2>2. PICK m \in Nat : c = StartIP + 4 * m
    BY <1>1, <2>1 DEF LossInv, Exhausted
  <2>3. WholeAt(h, 0, m)
    BY <1>1, <2>2 DEF WholeAt
  <2> HIDE DEF h
  <2>4. \A j \in SiloIDs : held'[j] # <<>> => \E q \in Nat : WholeAt(held'[j], 0, q)
    BY <1>3, <2>1, <2>3, Zenon
  <2>5. Whole(s')
    BY <2>1, Zenon DEF BlockInv
  <2> QED
    BY <2>4, <2>5 DEF BlockInv, Whole, WholeAt
<1>6. ASSUME NEW id \in SiloIDs, Returned(id) PROVE BlockInv'
  <2>1. /\ held[id] \in Slice /\ s' = s \o held[id] /\ held' = [held EXCEPT ![id] = <<>>]
    BY <1>6 DEF Returned
  <2>2. held[id] # <<>> /\ Len(held[id]) = 4 /\ held[id] \in Seq(Nat)
    BY <2>1, SliceHasFour, Zenon
  <2>3. PICK q \in Nat : WholeAt(held[id], 0, q)
    BY <2>2 DEF BlockInv
  <2>4. Whole(s \o held[id])
    <3>1. Whole(s)
      BY DEF BlockInv
    <3> QED
      BY <1>1, <2>2, <2>3, <3>1, WholeJoin
  <2>5. \A j \in SiloIDs : held'[j] # <<>> => \E q1 \in Nat : WholeAt(held'[j], 0, q1)
    BY <1>3, <2>1, Zenon
  <2>6. Whole(s')
    BY <2>1, <2>4, Zenon
  <2> QED
    BY <2>5, <2>6 DEF BlockInv, Whole, WholeAt
<1>7. ASSUME Refused PROVE BlockInv'
  <2>1. held' = held
    BY <1>7 DEF Refused
  <2>2. Len(s) # 1
    <3>1. PICK m \in Nat : Len(s) = 4 * m
      BY DEF BlockInv, Whole
    <3> QED
      BY <3>1
  <2>3. ~(c = SubnetLast - 1)
    <3>1. SUFFICES ASSUME c = SubnetLast - 1 PROVE FALSE
      OBVIOUS
    <3>2. PICK m \in Nat : c = StartIP + 4 * m
      BY <1>1, <3>1 DEF LossInv, Exhausted
    <3>3. SubnetLast - StartIP = 4 * m + 1
      BY <1>1, <3>1, <3>2
    <3>4. (4 * m + 1) % 4 = 1
      OBVIOUS
    <3> QED
      BY <3>3, <3>4 DEF KeepsBlocks
  <2>4. s = <<>> /\ s' = <<>>
    BY <1>7, <2>2, <2>3, Zenon DEF Refused
  <2> QED
    BY <2>1, <2>4 DEF BlockInv, Whole, WholeAt
<1>8. CASE UNCHANGED poolVars
  BY <1>8 DEF BlockInv, Whole, WholeAt, poolVars
<1> QED
  BY <1>4, <1>5, <1>6, <1>7, <1>8, PoolStepCases

\* For every pool with KeepsBlocks, the default one among them, the bridge and
\* the silo address of a slice are in one /30, however often it was exhausted.
THEOREM SlicesAreBlocks == KeepsBlocks => (PoolSpec => []SliceIsABlock)
<1>1. PoolInit => BlockInv
  <2> SUFFICES ASSUME PoolInit PROVE BlockInv
    OBVIOUS
  <2>1. pool.free = <<>> /\ \A id \in SiloIDs : held[id] = <<>>
    BY DEF PoolInit, NewIPPool
  <2>2. Whole(<<>>)
    <3>1. 0 \in Nat /\ Len(<<>>) = 4 * 0 /\ 0..(0 - 1) = {}
      OBVIOUS
    <3> QED
      BY <3>1 DEF Whole
  <2> QED
    BY <2>1, <2>2, Zenon DEF BlockInv
<1>2. KeepsBlocks /\ PoolInv /\ BlockInv => SliceIsABlock
  <2> SUFFICES ASSUME KeepsBlocks, BlockInv, NEW id \in SiloIDs, held[id] # <<>>
               PROVE  held[id][1] \div 4 = held[id][2] \div 4
    BY DEF SliceIsABlock, BridgeIP, SiloIP
  <2>1. PICK q \in Nat : WholeAt(held[id], 0, q)
    BY DEF BlockInv
  <2>2. held[id][1] = StartIP + 4 * q /\ held[id][2] = StartIP + 4 * q + 1
    BY <2>1 DEF WholeAt
  <2>3. StartIP \in Nat /\ StartIP % 4 # 3
    BY PoolAssumption DEF KeepsBlocks
  <2>4. (StartIP + 4 * q) \div 4 = (StartIP + 4 * q + 1) \div 4
    BY <2>3
  <2> QED
    BY <2>2, <2>4
<1>3. KeepsBlocks /\ PoolInv /\ LossInv /\ BlockInv /\ [PoolNext]_poolVars => BlockInv'
  BY BlockInvStep
<1>4. CASE KeepsBlocks
  BY <1>1, <1>2, <1>3, <1>4, PoolInvariant, LossInvariant, PTL DEF PoolSpec
<1> QED
  BY <1>4

=============================================================================
