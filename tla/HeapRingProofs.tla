--------------------------- MODULE HeapRingProofs ---------------------------
(***************************************************************************)
(* Theorems about HeapRing, for any slab size, alignment, number of rings, *)
(* threads and allocations.                                                *)
(*                                                                         *)
(* The argument is about one slab (RingShape): the regions after           *)
(* last_alive lie between tail and top, or, once the cursor has wrapped,   *)
(* first above tail and then below top, each group in allocation order.    *)
(* Bumping the cursor and advancing the tail keep that shape, and the      *)
(* shape keeps regions disjoint.                                           *)
(***************************************************************************)
EXTENDS HeapRing, TLAPS

(* Position i of a slab with cursors tp, tl: a region above the tail, or one *)
(* allocated after a wrap.                                                   *)
High(tl, st, i) == st[i] >= tl
Placed(tp, tl, st, en, i) ==
    /\ st[i] <= en[i] /\ en[i] <= HeapSize
    /\ IF High(tl, st, i) THEN tl <= tp => en[i] <= tp ELSE tp < tl /\ en[i] <= tp
Ordered(tl, st, en, i, j) ==
    /\ High(tl, st, j) => High(tl, st, i)
    /\ (High(tl, st, i) <=> High(tl, st, j)) => en[i] <= st[j]

RingShape(tp, tl, la, fr, st, en, L) ==
    /\ la <= L
    /\ fr \subseteq 1 .. L /\ 1 .. la \subseteq fr
    /\ la < L => la + 1 \notin fr /\ en[L] = tp
    /\ la = L => tl = tp
    /\ \A i \in la + 1 .. L : Placed(tp, tl, st, en, i)
    /\ \A i, j \in la + 1 .. L : i < j => Ordered(tl, st, en, i, j)

SlabTypes(tp, tl, la, fr, st, en, L) ==
    /\ tp \in 0 .. HeapSize /\ tl \in 0 .. HeapSize /\ la \in Nat /\ fr \in SUBSET Nat
    /\ L \in Nat /\ st \in [1 .. L -> Nat] /\ en \in [1 .. L -> Nat]

(* st2, en2 are st, en with the region from lo to hi appended. *)
Appended(st, en, L, lo, hi, st2, en2, M) ==
    /\ M = L + 1 /\ st2[M] = lo /\ en2[M] = hi
    /\ \A i \in 1 .. L : st2[i] = st[i] /\ en2[i] = en[i]

(* What try_bump_ring_heap_locked requires of the n bytes from lo to hi. *)
Room(tp, tl, lo, n) ==
    \/ n = 0 /\ lo = tp
    \/ tp >= tl /\ HeapSize - tp >= n /\ lo = tp
    \/ tp >= tl /\ tl > n /\ n > 0 /\ lo = 0
    \/ tp < tl /\ tl - tp > n /\ lo = tp

(* last_alive moves from la to n: everything up to n is released. *)
Advances(la, n, fr, L) == (\A i \in la + 1 .. n : i \in fr) /\ (n = L \/ n + 1 \notin fr)

(* A successful try_bump_ring_heap_locked, or a 0-byte slot, keeps the shape. *)
LEMMA BumpKeepsShape ==
    ASSUME NEW tp, NEW tl, NEW la, NEW fr, NEW st, NEW en, NEW L,
           SlabTypes(tp, tl, la, fr, st, en, L), RingShape(tp, tl, la, fr, st, en, L),
           NEW n \in Nat, NEW lo \in Nat, Room(tp, tl, lo, n),
           NEW hi, hi = lo + n, NEW st2, NEW en2, NEW M, Appended(st, en, L, lo, hi, st2, en2, M)
    PROVE  hi \in 0 .. HeapSize /\ RingShape(hi, tl, la, fr, st2, en2, M)
<1> USE DEF SlabTypes, Appended
<1>1. lo + n \in 0 .. HeapSize
  BY HeapSizeAssumption DEF Room
<1>2. \A i \in la + 1 .. L : i \in 1 .. L /\ st[i] \in Nat /\ en[i] \in Nat
  OBVIOUS
<1>3. la <= L
  BY Zenon DEF RingShape
<1>4. ASSUME NEW i \in la + 1 .. L
      PROVE  Placed(lo + n, tl, st2, en2, i) /\ Ordered(tl, st2, en2, i, L + 1)
  <2>1. Placed(tp, tl, st, en, i)
    BY Zenon DEF RingShape
  <2>2. st2[i] = st[i] /\ en2[i] = en[i] /\ st[i] \in Nat /\ en[i] \in Nat
    BY <1>2, Zenon
  <2>3. CASE High(tl, st, i)
    BY <2>1, <2>2, <2>3, HeapSizeAssumption, SMTT(30) DEF Placed, Ordered, High, Room
  <2>4. CASE ~High(tl, st, i)
    BY <2>1, <2>2, <2>4, HeapSizeAssumption, SMTT(30) DEF Placed, Ordered, High, Room
  <2>5. QED
    BY <2>3, <2>4, Zenon
<1>5. Placed(lo + n, tl, st2, en2, L + 1)
  BY <1>1, HeapSizeAssumption DEF Placed, High, Room
<1>6. ASSUME NEW i \in la + 1 .. L, NEW j \in la + 1 .. L, i < j
      PROVE  Ordered(tl, st2, en2, i, j)
  BY <1>2, <1>6, Zenon DEF RingShape, Ordered, High
<1>7. /\ la < L + 1 /\ fr \subseteq 1 .. L + 1 /\ 1 .. la \subseteq fr
      /\ la + 1 \notin fr /\ en2[L + 1] = lo + n
  <2>1. fr \subseteq 1 .. L /\ 1 .. la \subseteq fr /\ (la < L => la + 1 \notin fr)
    BY Zenon DEF RingShape
  <2>2. la + 1 \notin fr
    BY <1>3, <2>1
  <2>3. QED
    BY <1>3, <2>1, <2>2
<1>8. \A i \in la + 1 .. L + 1 : i \in la + 1 .. L \/ i = L + 1
  OBVIOUS
<1>9. \A i \in la + 1 .. L + 1 : Placed(lo + n, tl, st2, en2, i)
  BY <1>4, <1>5, <1>8, Zenon
<1>10. ASSUME NEW i \in la + 1 .. L + 1, NEW j \in la + 1 .. L + 1, i < j
       PROVE  Ordered(tl, st2, en2, i, j)
  <2>1. i \in la + 1 .. L
    BY <1>10
  <2>2. CASE j \in la + 1 .. L
    BY <1>6, <1>10, <2>1, <2>2, Zenon
  <2>3. CASE j = L + 1
    BY <1>4, <2>1, <2>3, Zenon
  <2>4. QED
    BY <1>8, <2>2, <2>3, Zenon
<1>11. QED
  BY <1>1, <1>7, <1>9, <1>10, SMTT(30) DEF RingShape

(* Releasing position p and advancing over the released prefix keeps it too. *)
LEMMA AdvanceKeepsShape ==
    ASSUME NEW tp, NEW tl, NEW la, NEW fr, NEW st, NEW en, NEW L,
           SlabTypes(tp, tl, la, fr, st, en, L), RingShape(tp, tl, la, fr, st, en, L),
           NEW p \in 1 .. L, NEW n \in la .. L, Advances(la, n, fr \cup {p}, L)
    PROVE  LET tl2 == IF n = la THEN tl ELSE en[n]
           IN  tl2 \in 0 .. HeapSize /\ RingShape(tp, tl2, n, fr \cup {p}, st, en, L)
<1> USE DEF SlabTypes, Advances
<1> DEFINE tl2 == IF n = la THEN tl ELSE en[n]
<1>1. la <= L /\ n \in Nat
  BY DEF RingShape
<1>2. \A i \in 1 .. L : st[i] \in Nat /\ en[i] \in Nat
  BY SMTT(30)
<1>3. CASE n = la
  <2>1. QED
    BY <1>1, <1>2, <1>3, Zenon DEF RingShape
<1>4. CASE n # la
  <2>1. n \in la + 1 .. L /\ n \in 1 .. L /\ tl2 = en[n]
    BY <1>1, <1>4
  <2> HIDE DEF tl2
  <2>2. Placed(tp, tl, st, en, n)
    BY <2>1, Zenon DEF RingShape
  <2>3. tl2 \in 0 .. HeapSize
    BY <1>2, <2>1, <2>2, HeapSizeAssumption DEF Placed
  <2>4. ASSUME NEW i \in n + 1 .. L
        PROVE  Placed(tp, tl, st, en, i) /\ Ordered(tl, st, en, n, i) /\ i \in 1 .. L
    <3>1. i \in la + 1 .. L /\ i \in 1 .. L /\ n < i
      BY <1>1, <2>1
    <3>2. Placed(tp, tl, st, en, i) /\ Ordered(tl, st, en, n, i)
      BY <2>1, <3>1, Zenon DEF RingShape
    <3>3. QED
      BY <3>1, <3>2, Zenon
  <2>5. ASSUME NEW i \in n + 1 .. L
        PROVE  /\ Placed(tp, tl2, st, en, i)
               /\ High(tl, st, n) => (High(tl2, st, i) <=> High(tl, st, i))
               /\ ~High(tl, st, n) => High(tl2, st, i) /\ ~High(tl, st, i)
    <3>1. /\ Placed(tp, tl, st, en, i) /\ Ordered(tl, st, en, n, i)
          /\ st[i] \in Nat /\ en[i] \in Nat /\ st[n] \in Nat /\ en[n] \in Nat
      BY <1>2, <2>1, <2>4, Zenon
    <3>6. tp \in 0 .. HeapSize /\ tl \in 0 .. HeapSize
      OBVIOUS
    <3> HIDE DEF SlabTypes, Advances
    <3>2. CASE High(tl, st, n) /\ High(tl, st, i)
      BY <2>1, <2>2, <3>1, <3>6, <3>2, HeapSizeAssumption DEF Placed, Ordered, High
    <3>3. CASE High(tl, st, n) /\ ~High(tl, st, i)
      BY <2>1, <2>2, <3>1, <3>6, <3>3, HeapSizeAssumption DEF Placed, Ordered, High
    <3>4. CASE ~High(tl, st, n)
      BY <2>1, <2>2, <3>1, <3>6, <3>4, HeapSizeAssumption, Zenon DEF Placed, Ordered, High
    <3>5. QED
      BY <3>2, <3>3, <3>4, Zenon
  <2>6. ASSUME NEW i \in n + 1 .. L, NEW j \in n + 1 .. L, i < j
        PROVE  Ordered(tl2, st, en, i, j)
    <3>1. i \in la + 1 .. L /\ j \in la + 1 .. L
      BY SMTT(30), <1>1, <2>1
    <3>2. Ordered(tl, st, en, i, j)
      BY <2>6, <3>1, Zenon DEF RingShape
    <3>3. QED
      BY <2>5, <3>2, Zenon DEF Ordered
  <2>7. n = L => tl2 = tp
    BY <1>1, <2>1, <1>4 DEF RingShape
  <2>8. n < L => en[L] = tp
    BY <1>1, <2>1 DEF RingShape
  <2>9. fr \cup {p} \subseteq 1 .. L /\ 1 .. n \subseteq fr \cup {p}
    <3>1. fr \subseteq 1 .. L /\ 1 .. la \subseteq fr
      BY Zenon DEF RingShape
    <3>2. \A i \in 1 .. n : i \in 1 .. la \/ i \in la + 1 .. n
      BY <1>1
    <3>3. QED
      BY <3>1, <3>2, Zenon
  <2>10. n < L => n + 1 \notin fr \cup {p}
    OBVIOUS
  <2>11. RingShape(tp, tl2, n, fr \cup {p}, st, en, L)
    BY <1>1, <2>1, <2>5, <2>6, <2>7, <2>8, <2>9, <2>10, SMTT(30) DEF RingShape
  <2>12. QED
    BY <2>3, <2>11, Zenon DEF tl2
<1>5. QED
  BY <1>3, <1>4, Zenon

-----------------------------------------------------------------------------
(* The inductive invariant: types, the shape of every slab, and slots and    *)
(* parking calls that name reserved positions.                               *)
SlabInv ==
    \A r \in Rings : /\ Len(start[r]) = Len(end[r])
                     /\ RingShape(top[r], tail[r], lastAlive[r], freed[r], start[r], end[r], Len(end[r]))
PositionInv ==
    /\ \A s \in 1 .. Len(slots) : slots[s].pos \in 1 .. Len(end[slots[s].ring])
    /\ \A t \in Threads : pc[t] = "park" => pos[t] \in 1 .. Len(end[ring[t]])
Inv == TypeOK /\ SlabInv /\ PositionInv

(* A request rounded up to the alignment is a number of bytes.               *)
LEMMA AlignUpNat == ASSUME NEW b \in Nat PROVE AlignUp(b) \in Nat
<1> DEFINE q == (b + Align - 1) \div Align
<1>1. q \in Nat
  BY AlignAssumption
<1>2. \A m, k \in Nat : m * k \in Nat
  OBVIOUS
<1> HIDE DEF q
<1>3. QED
  BY <1>1, <1>2, AlignAssumption, Zenon DEF AlignUp, q

(* Every scope depth has a ring.                                             *)
LEMMA RingIdx == ASSUME NEW d \in Nat PROVE RingIdxForScope(d) \in Rings
  BY RingDepthAssumption DEF RingIdxForScope, Rings

(* The invariant holds initially.                                            *)
LEMMA InitInv == Init => Inv
<1> SUFFICES ASSUME Init PROVE Inv
  OBVIOUS
<1> USE DEF Init
<1>1. 0 \in Rings /\ 0 \in 0 .. HeapSize /\ 0 \in 0 .. TimeoutTicks
  BY RingDepthAssumption, HeapSizeAssumption, TimeoutAssumption DEF Rings
<1>2. TypeOK
  <2>1. HeapTypes
    BY <1>1 DEF HeapTypes
  <2>2. SlotTypes
    BY DEF SlotTypes
  <2>6. FlagTypes
    BY Zenon DEF FlagTypes
  <2>3. CallTypes
    BY <1>1, Zenon DEF CallTypes
  <2>4. ClockTypes
    BY <1>1, Zenon DEF ClockTypes
  <2>5. QED
    BY <2>1, <2>2, <2>3, <2>4, <2>6, Zenon DEF TypeOK
<1>3. SlabInv
  BY DEF SlabInv, RingShape
<1>4. PositionInv
  BY DEF PositionInv
<1>5. QED
  BY <1>2, <1>3, <1>4, Zenon DEF Inv

(* Steps that leave the heap and the slots alone. *)
LEMMA QuietStep ==
    ASSUME Inv, UNCHANGED <<heapVars, slots>>,
           \A t \in Threads : pc'[t] = "park" => pc[t] = "park" /\ UNCHANGED <<ring[t], pos[t]>>,
           FlagTypes', CallTypes', ClockTypes'
    PROVE  Inv'
<1>1. HeapTypes' /\ SlotTypes'
  BY Zenon DEF Inv, TypeOK, HeapTypes, SlotTypes, heapVars
<1>2. SlabInv'
  BY Zenon DEF Inv, SlabInv, heapVars
<1>3. PositionInv'
  <2>1. UNCHANGED <<slots, end>>
    BY Zenon DEF heapVars
  <2>2. QED
    BY <2>1, Zenon DEF Inv, PositionInv
<1>4. QED
  BY <1>1, <1>2, <1>3, Zenon DEF Inv, TypeOK

(* A call that returns leaves a well-typed thread behind.                    *)
LEMMA ReturnTypes == ASSUME Inv, NEW t \in Threads, Return(t) PROVE CallTypes' /\ ClockTypes'
<1>1. 0 \in Rings /\ 0 \in 0 .. HeapSize /\ 0 \in 0 .. TimeoutTicks
  BY RingDepthAssumption, HeapSizeAssumption, TimeoutAssumption DEF Rings
<1>2. CallTypes'
  BY <1>1, Zenon DEF Return, Inv, TypeOK, CallTypes
<1>3. ClockTypes'
  BY <1>1, Zenon DEF Return, Inv, TypeOK, ClockTypes
<1>4. QED
  BY <1>2, <1>3, Zenon

(* Entering alloc touches no slab.                                           *)
LEMMA AllocCallInv ==
    ASSUME Inv, NEW t \in Threads, NEW b \in Requests, NEW d \in 0 .. RingDepth, AllocCall(t, b, d)
    PROVE  Inv'
<1>1. RingIdxForScope(d) \in Rings /\ AlignUp(b) \in 0 .. HeapSize
  BY RingIdx, AlignUpNat, RequestsAssumption, HeapSizeAssumption DEF AllocCall
<1>2. CallTypes'
  BY <1>1, Zenon DEF AllocCall, Inv, TypeOK, CallTypes
<1>3. FlagTypes' /\ ClockTypes'
  BY Zenon DEF AllocCall, Inv, TypeOK, FlagTypes, ClockTypes
<1>4. \A u \in Threads : pc'[u] = "park" => pc[u] = "park" /\ UNCHANGED <<ring[u], pos[u]>>
  BY Zenon DEF AllocCall, Inv, TypeOK, CallTypes
<1>5. UNCHANGED <<heapVars, slots>>
  BY Zenon DEF AllocCall
<1>6. QED
  BY <1>2, <1>3, <1>4, <1>5, QuietStep, Zenon

(* Neither do a timeout and a shutdown met by a call.                        *)
LEMMA ReturnInv ==
    ASSUME Inv, NEW t \in Threads, AllocShutdown(t) \/ Timeout(t)
    PROVE  Inv'
<1>1. Return(t) /\ UNCHANGED <<heapVars, slots>> /\ UNCHANGED <<inUse, shutdown>>
  BY Zenon DEF AllocShutdown, Timeout
<1>2. CallTypes' /\ ClockTypes'
  BY <1>1, ReturnTypes, Zenon
<1>3. FlagTypes'
  BY <1>1, Zenon DEF Inv, TypeOK, FlagTypes
<1>4. \A u \in Threads : pc'[u] = "park" => pc[u] = "park" /\ UNCHANGED <<ring[u], pos[u]>>
  BY <1>1, Zenon DEF Return, Inv, TypeOK, CallTypes
<1>5. QED
  BY <1>1, <1>2, <1>3, <1>4, QuietStep, Zenon

(* Nor does falling asleep on a full slab.                                   *)
LEMMA WaitInv ==
    ASSUME Inv, NEW t \in Threads, HeapFull(t) \/ Sleep(t)
    PROVE  Inv'
<1>1. UNCHANGED <<heapVars, slots>> /\ UNCHANGED <<inUse, shutdown>> /\ UNCHANGED callVars /\ UNCHANGED waited
  BY Zenon DEF HeapFull, Sleep
<1>2. CallTypes'
  BY <1>1, Zenon DEF HeapFull, Sleep, Inv, TypeOK, CallTypes, callVars
<1>3. FlagTypes' /\ ClockTypes'
  BY <1>1, Zenon DEF Inv, TypeOK, FlagTypes, ClockTypes
<1>4. \A u \in Threads : pc'[u] = "park" => pc[u] = "park" /\ UNCHANGED <<ring[u], pos[u]>>
  BY <1>1, Zenon DEF HeapFull, Sleep, Inv, TypeOK, CallTypes, callVars
<1>5. QED
  BY <1>1, <1>2, <1>3, <1>4, QuietStep, Zenon

(* Nor do a shutdown, the start and the end of a run, and the clock.         *)
LEMMA OutsideInv ==
    ASSUME Inv, Shutdown \/ BeginRun \/ ReleaseRun \/ Tick
    PROVE  Inv'
<1>1. UNCHANGED <<heapVars, slots>> /\ UNCHANGED callVars
  BY Zenon DEF Shutdown, BeginRun, ReleaseRun, Tick
<1>2. pc' \in [Threads -> {"idle", "enter", "falling", "asleep", "park"}]
  BY Zenon DEF Shutdown, BeginRun, ReleaseRun, Tick, Inv, TypeOK, CallTypes
<1>3. CallTypes'
  BY <1>1, <1>2, Zenon DEF Inv, TypeOK, CallTypes, callVars
<1>4. FlagTypes'
  BY Zenon DEF Shutdown, BeginRun, ReleaseRun, Tick, Inv, TypeOK, FlagTypes
<1>5. ClockTypes'
  <2>1. CASE Tick
    <3>1. \A n \in 0 .. TimeoutTicks : Later(n) \in 0 .. TimeoutTicks
      BY TimeoutAssumption DEF Later
    <3>2. QED
      BY <2>1, <3>1, Zenon DEF Tick, Inv, TypeOK, ClockTypes
  <2>2. CASE ~Tick
    BY <2>2, Zenon DEF Shutdown, BeginRun, ReleaseRun, Inv, TypeOK, ClockTypes
  <2>3. QED
    BY <2>1, <2>2, Zenon
<1>6. \A u \in Threads : pc'[u] = "park" => pc[u] = "park" /\ UNCHANGED <<ring[u], pos[u]>>
  BY <1>1, Zenon DEF Shutdown, BeginRun, ReleaseRun, Tick, Inv, TypeOK, CallTypes, callVars
<1>7. QED
  BY <1>1, <1>3, <1>4, <1>5, <1>6, QuietStep, Zenon

(* What Append does to a sequence of numbers.                                *)
LEMMA AppendFacts ==
    ASSUME NEW q \in Seq(Nat), NEW x \in Nat
    PROVE  /\ Append(q, x) \in Seq(Nat) /\ Len(Append(q, x)) = Len(q) + 1 /\ Len(q) \in Nat
           /\ \A i \in 1 .. Len(q) : Append(q, x)[i] = q[i]
           /\ Append(q, x)[Len(q) + 1] = x
  OBVIOUS
(* A sequence of numbers is a function on its indices.                       *)
LEMMA SeqAsFunction == ASSUME NEW q \in Seq(Nat) PROVE Len(q) \in Nat /\ q \in [1 .. Len(q) -> Nat]
  OBVIOUS

(* Elements of a sequence are in its set.                                    *)
LEMMA ElementOf == ASSUME NEW S, NEW q \in Seq(S), NEW i \in 1 .. Len(q) PROVE q[i] \in S
  OBVIOUS

(* A successful bump adds a region at the cursor: BumpKeepsShape.            *)
LEMMA ReserveInv == ASSUME Inv, NEW t \in Threads, Reserve(t) PROVE Inv'
<1> DEFINE r == ring[t]
           n == size[t]
           lo == IF n > 0 /\ Wraps(r, n) THEN 0 ELSE top[r]
           L == Len(end[r])
<1>1. /\ r \in Rings /\ n \in Nat /\ top[r] \in 0 .. HeapSize /\ tail[r] \in 0 .. HeapSize /\ lastAlive[r] \in Nat
      /\ freed[r] \in SUBSET Nat /\ start[r] \in Seq(Nat) /\ end[r] \in Seq(Nat) /\ lo \in Nat
  BY HeapSizeAssumption DEF Inv, TypeOK, HeapTypes, CallTypes
<1>2. Len(start[r]) = L /\ RingShape(top[r], tail[r], lastAlive[r], freed[r], start[r], end[r], L)
  BY <1>1, ZenonT(30) DEF Inv, SlabInv
<1>3. Room(top[r], tail[r], lo, n)
  BY <1>1, HeapSizeAssumption, SMTT(30) DEF Reserve, Room, Fits, AtEnd, Wraps, WrapRoom, InGap
<1>4. /\ top' = [top EXCEPT ![r] = lo + n]
      /\ start' = [start EXCEPT ![r] = Append(start[r], lo)]
      /\ end' = [end EXCEPT ![r] = Append(end[r], lo + n)]
      /\ pos' = [pos EXCEPT ![t] = L + 1]
      /\ pc' = [pc EXCEPT ![t] = "park"]
      /\ UNCHANGED <<tail, lastAlive, freed, slots, ring, size>>
      /\ UNCHANGED <<inUse, shutdown>> /\ UNCHANGED waited
  BY Zenon DEF Reserve
<1> HIDE DEF lo
<1> DEFINE st2 == Append(start[r], lo)
           en2 == Append(end[r], lo + n)
<1>a. lo + n \in Nat
  BY <1>1
<1>b. /\ st2 \in Seq(Nat) /\ Len(st2) = L + 1
      /\ \A i \in 1 .. L : st2[i] = start[r][i]
      /\ st2[L + 1] = lo
  <2>1. /\ st2 \in Seq(Nat) /\ Len(st2) = Len(start[r]) + 1
        /\ \A i \in 1 .. Len(start[r]) : st2[i] = start[r][i]
        /\ st2[Len(start[r]) + 1] = lo
    BY <1>1, AppendFacts, Zenon
  <2>2. QED
    BY <1>2, <2>1, Zenon
<1>c. /\ en2 \in Seq(Nat) /\ Len(en2) = L + 1
      /\ \A i \in 1 .. L : en2[i] = end[r][i]
      /\ en2[L + 1] = lo + n
  BY <1>1, <1>a, AppendFacts, ZenonT(30)
<1>5. L \in Nat /\ start[r] \in [1 .. L -> Nat] /\ end[r] \in [1 .. L -> Nat]
  BY <1>1, <1>2, SeqAsFunction, Zenon
<1>d. Appended(start[r], end[r], L, lo, lo + n, st2, en2, L + 1)
  BY <1>b, <1>c, Zenon DEF Appended
<1>e. SlabTypes(top[r], tail[r], lastAlive[r], freed[r], start[r], end[r], L)
  BY <1>1, <1>5, Zenon DEF SlabTypes
<1>6. lo + n \in 0 .. HeapSize /\ RingShape(lo + n, tail[r], lastAlive[r], freed[r], st2, en2, L + 1)
  <2> HIDE DEF st2, en2, r, n, L
  <2>1. n \in Nat /\ lo \in Nat
    BY <1>1, Zenon
  <2>2. QED
    BY <1>2, <1>3, <1>d, <1>e, <2>1, BumpKeepsShape, Zenon
<1>7. HeapTypes'
  BY <1>1, <1>4, <1>b, <1>c, <1>6, Zenon DEF Inv, TypeOK, HeapTypes
<1>8. SlotTypes' /\ FlagTypes' /\ ClockTypes'
  BY <1>4, Zenon DEF Inv, TypeOK, SlotTypes, FlagTypes, ClockTypes
<1>9. CallTypes'
  BY <1>4, <1>5 DEF Inv, TypeOK, CallTypes
<1>10. SlabInv'
  <2> SUFFICES ASSUME NEW k \in Rings
               PROVE  /\ Len(start'[k]) = Len(end'[k])
                      /\ RingShape(top'[k], tail'[k], lastAlive'[k], freed'[k], start'[k], end'[k], Len(end'[k]))
    BY Zenon DEF SlabInv
  <2>1. CASE k = r
    BY <1>1, <1>4, <1>b, <1>c, <1>6, <2>1, Zenon DEF Inv, TypeOK, HeapTypes
  <2>2. CASE k # r
    BY <1>1, <1>4, <2>2, Zenon DEF Inv, TypeOK, HeapTypes, SlabInv
  <2>3. QED
    BY <2>1, <2>2, Zenon
<1>11. \A k \in Rings : Len(end[k]) \in Nat /\ Len(end'[k]) \in Nat /\ Len(end'[k]) >= Len(end[k])
  <2> SUFFICES ASSUME NEW k \in Rings PROVE Len(end[k]) \in Nat /\ Len(end'[k]) \in Nat /\ Len(end'[k]) >= Len(end[k])
    OBVIOUS
  <2>1. end[k] \in Seq(Nat)
    BY Zenon DEF Inv, TypeOK, HeapTypes
  <2>2. CASE k = r
    <3>1. end'[k] = en2
      BY <1>1, <1>4, <2>2, Zenon DEF Inv, TypeOK, HeapTypes
    <3>2. QED
      BY SMTT(30), <1>5, <1>c, <2>2, <3>1
  <2>3. CASE k # r
    BY <1>1, <1>4, <2>1, <2>3 DEF Inv, TypeOK, HeapTypes
  <2>4. QED
    BY <2>2, <2>3, Zenon
<1>12. PositionInv'
  <2>1. ASSUME NEW s \in 1 .. Len(slots) PROVE slots[s].pos \in 1 .. Len(end'[slots[s].ring])
    <3>1. slots[s].ring \in Rings /\ slots[s].pos \in 1 .. Len(end[slots[s].ring])
      <4>1. slots[s] \in [ring : Rings, pos : Nat]
        BY ElementOf, Zenon DEF Inv, TypeOK, SlotTypes
      <4>2. QED
        BY <4>1, Zenon DEF Inv, PositionInv
    <3>2. QED
      BY <1>11, <3>1
  <2>2. ASSUME NEW u \in Threads, pc'[u] = "park" PROVE pos'[u] \in 1 .. Len(end'[ring[u]])
    <3>1. ring[u] \in Rings
      BY Zenon DEF Inv, TypeOK, CallTypes
    <3>2. CASE u = t
      BY <1>1, <1>4, <1>5, <1>c, <3>2 DEF Inv, TypeOK, CallTypes, HeapTypes
    <3>3. CASE u # t
      <4>1. pc[u] = "park" /\ pos'[u] = pos[u]
        BY <1>4, <2>2, <3>3, Zenon DEF Inv, TypeOK, CallTypes
      <4>2. QED
        BY <1>11, <3>1, <4>1 DEF Inv, PositionInv
    <3>4. QED
      BY <3>2, <3>3, Zenon
  <2>3. QED
    BY <1>4, <2>1, <2>2, Zenon DEF PositionInv
<1>13. QED
  BY <1>7, <1>8, <1>9, <1>10, <1>12, Zenon DEF Inv, TypeOK

(* Taking the slot id gives the reserved position its owner.                 *)
LEMMA ParkInv == ASSUME Inv, NEW t \in Threads, Park(t) PROVE Inv'
<1> DEFINE e == [ring |-> ring[t], pos |-> pos[t]]
<1>1. /\ pc[t] = "park" /\ slots' = Append(slots, e) /\ Return(t)
      /\ UNCHANGED heapVars /\ UNCHANGED <<inUse, shutdown>>
  BY Zenon DEF Park, StampedPos
<1>2. e \in [ring : Rings, pos : Nat] /\ e.pos \in 1 .. Len(end[e.ring])
  BY <1>1, Zenon DEF Inv, TypeOK, CallTypes, PositionInv
<1> HIDE DEF e
<1>3. /\ slots' \in Seq([ring : Rings, pos : Nat]) /\ Len(slots') = Len(slots) + 1 /\ Len(slots) \in Nat
      /\ \A s \in 1 .. Len(slots) : slots'[s] = slots[s]
      /\ slots'[Len(slots) + 1] = e
  BY <1>1, <1>2 DEF Inv, TypeOK, SlotTypes
<1>4. CallTypes' /\ ClockTypes'
  BY <1>1, ReturnTypes, Zenon
<1>5. HeapTypes' /\ FlagTypes' /\ SlotTypes'
  BY <1>1, <1>3, Zenon DEF Inv, TypeOK, HeapTypes, FlagTypes, SlotTypes, heapVars
<1>6. SlabInv'
  BY <1>1, Zenon DEF Inv, SlabInv, heapVars
<1>7. PositionInv'
  <2>1. ASSUME NEW s \in 1 .. Len(slots') PROVE slots'[s].pos \in 1 .. Len(end'[slots'[s].ring])
    <3>1. CASE s \in 1 .. Len(slots)
      BY <1>1, <1>3, <3>1, Zenon DEF Inv, PositionInv, heapVars
    <3>2. CASE s = Len(slots) + 1
      BY <1>1, <1>2, <1>3, <3>2, Zenon DEF heapVars
    <3>3. QED
      BY <1>3, <3>1, <3>2
  <2>2. ASSUME NEW u \in Threads, pc'[u] = "park" PROVE pos'[u] \in 1 .. Len(end'[ring'[u]])
    <3>1. pc[u] = "park" /\ UNCHANGED <<ring[u], pos[u]>>
      BY <1>1, <2>2, Zenon DEF Return, Inv, TypeOK, CallTypes
    <3>2. QED
      BY <1>1, <3>1, Zenon DEF Inv, PositionInv, heapVars
  <2>3. QED
    BY <2>1, <2>2, Zenon DEF PositionInv
<1>8. QED
  BY <1>4, <1>5, <1>6, <1>7, Zenon DEF Inv, TypeOK

(* A release frees a position and advances the tail: AdvanceKeepsShape.      *)
LEMMA ReleaseInv == ASSUME Inv, NEW s \in 1 .. Len(slots), Release(s) PROVE Inv'
<1> DEFINE r == slots[s].ring
           p == slots[s].pos
           L == Len(end[r])
<1>1. r \in Rings /\ p \in 1 .. L
  <2>1. slots[s] \in [ring : Rings, pos : Nat]
    BY ElementOf, Zenon DEF Inv, TypeOK, SlotTypes
  <2>2. QED
    BY <2>1, Zenon DEF Inv, PositionInv
<1>2. PICK n \in lastAlive[r] .. L :
        /\ AdvanceTo(r, n, freed[r] \cup {p})
        /\ lastAlive' = [lastAlive EXCEPT ![r] = n]
        /\ tail' = [tail EXCEPT ![r] = IF n = lastAlive[r] THEN @ ELSE end[r][n]]
  BY Zenon DEF Release
<1>3. /\ freed' = [freed EXCEPT ![r] = freed[r] \cup {p}]
      /\ pc' = WokenOn(r)
      /\ UNCHANGED <<top, start, end, slots>> /\ UNCHANGED <<inUse, shutdown>> /\ UNCHANGED callVars
      /\ UNCHANGED waited
  BY Zenon DEF Release, Wake
<1>4. /\ top[r] \in 0 .. HeapSize /\ tail[r] \in 0 .. HeapSize /\ lastAlive[r] \in Nat
      /\ freed[r] \in SUBSET Nat /\ start[r] \in Seq(Nat) /\ end[r] \in Seq(Nat)
  BY <1>1, Zenon DEF Inv, TypeOK, HeapTypes
<1>5. Len(start[r]) = L /\ RingShape(top[r], tail[r], lastAlive[r], freed[r], start[r], end[r], L)
  BY <1>1, Zenon DEF Inv, SlabInv
<1>6. SlabTypes(top[r], tail[r], lastAlive[r], freed[r], start[r], end[r], L)
  BY <1>4, <1>5, SeqAsFunction, Zenon DEF SlabTypes
<1>7. Advances(lastAlive[r], n, freed[r] \cup {p}, L)
  BY <1>2, Zenon DEF AdvanceTo, Advances
<1> DEFINE tl2 == IF n = lastAlive[r] THEN tail[r] ELSE end[r][n]
<1>8. tl2 \in 0 .. HeapSize /\ RingShape(top[r], tl2, n, freed[r] \cup {p}, start[r], end[r], L)
  <2> HIDE DEF r, p, L
  <2>1. QED
    BY <1>1, <1>2, <1>5, <1>6, <1>7, AdvanceKeepsShape, Zenon
<1>9. tail' = [tail EXCEPT ![r] = tl2] /\ n \in Nat
  BY <1>2, <1>4
<1> HIDE DEF tl2
<1>10. HeapTypes'
  <2>1. freed[r] \cup {p} \in SUBSET Nat
    BY SMTT(30), <1>1, <1>4, SeqAsFunction
  <2>2. top' \in [Rings -> 0 .. HeapSize] /\ start' \in [Rings -> Seq(Nat)] /\ end' \in [Rings -> Seq(Nat)]
    BY <1>3, Zenon DEF Inv, TypeOK, HeapTypes
  <2>3. tail' \in [Rings -> 0 .. HeapSize]
    BY <1>8, <1>9, Zenon DEF Inv, TypeOK, HeapTypes
  <2>4. lastAlive' \in [Rings -> Nat]
    BY <1>2, <1>9, Zenon DEF Inv, TypeOK, HeapTypes
  <2>5. freed' \in [Rings -> SUBSET Nat]
    BY <1>3, <2>1, Zenon DEF Inv, TypeOK, HeapTypes
  <2>6. QED
    BY <2>2, <2>3, <2>4, <2>5, Zenon DEF HeapTypes
<1>11. SlotTypes' /\ FlagTypes'
  BY <1>3, Zenon DEF Inv, TypeOK, SlotTypes, FlagTypes
<1>12. CallTypes'
  BY <1>3, Zenon DEF Inv, TypeOK, CallTypes, WokenOn, callVars
<1>13. ClockTypes'
  BY <1>3, TimeoutAssumption, Zenon DEF Inv, TypeOK, ClockTypes
<1>14. SlabInv'
  <2> SUFFICES ASSUME NEW k \in Rings
               PROVE  /\ Len(start'[k]) = Len(end'[k])
                      /\ RingShape(top'[k], tail'[k], lastAlive'[k], freed'[k], start'[k], end'[k], Len(end'[k]))
    BY Zenon DEF SlabInv
  <2>1. CASE k = r
    BY <1>1, <1>2, <1>3, <1>5, <1>8, <1>9, <2>1, Zenon DEF Inv, TypeOK, HeapTypes
  <2>2. CASE k # r
    BY <1>1, <1>2, <1>3, <1>9, <2>2, Zenon DEF Inv, TypeOK, HeapTypes, SlabInv
  <2>3. QED
    BY <2>1, <2>2, Zenon
<1>15. PositionInv'
  <2>1. ASSUME NEW u \in Threads, pc'[u] = "park" PROVE pc[u] = "park"
    BY <1>3, <2>1, Zenon DEF WokenOn
  <2>2. QED
    BY <1>3, <2>1, Zenon DEF Inv, PositionInv, callVars
<1>16. QED
  BY <1>10, <1>11, <1>12, <1>13, <1>14, <1>15, Zenon DEF Inv, TypeOK

(* No call is in flight while no run is in use. *)
QuietInv == ~inUse => \A t \in Threads : pc[t] = "idle"

(* A call starts only in a run in use, and a run ends only without calls.    *)
LEMMA QuietHolds == ASSUME TypeOK, QuietInv, [Next]_vars PROVE QuietInv'
<1> USE DEF QuietInv
<1>1. CASE \E t \in Threads, b \in Requests, d \in 0 .. RingDepth : AllocCall(t, b, d)
  BY <1>1 DEF AllocCall
<1>2. CASE \E t \in Threads : AllocStep(t)
  BY <1>2 DEF AllocStep, AllocShutdown, Reserve, HeapFull, Sleep, Timeout, Park, Return, TypeOK, CallTypes
<1>3. CASE \E s \in 1 .. Len(slots) : Release(s)
  BY <1>3 DEF Release, Wake, WokenOn, TypeOK, CallTypes
<1>4. CASE Shutdown \/ BeginRun \/ ReleaseRun \/ Compact \/ Tick
  BY <1>4, Zenon DEF Shutdown, BeginRun, ReleaseRun, AllConsumed, InFlight, Compact, Tick, TypeOK, CallTypes
<1>5. CASE UNCHANGED vars
  BY <1>5, Zenon DEF vars
<1>6. QED
  BY <1>1, <1>2, <1>3, <1>4, <1>5, Zenon DEF Next

(* Compaction resets slabs and slot table when neither is in use.            *)
LEMMA CompactInv == ASSUME Inv, QuietInv, Compact PROVE Inv'
<1> USE DEF Compact
<1>1. 0 \in 0 .. HeapSize
  BY HeapSizeAssumption
<1>2. HeapTypes'
  BY <1>1 DEF HeapTypes
<1>3. SlotTypes'
  BY DEF SlotTypes
<1>4. FlagTypes'
  BY Zenon DEF Inv, TypeOK, FlagTypes
<1>5. CallTypes'
  BY Zenon DEF Inv, TypeOK, CallTypes, callVars
<1>6. ClockTypes'
  BY Zenon DEF Inv, TypeOK, ClockTypes
<1>7. SlabInv'
  BY DEF SlabInv, RingShape
<1>8. PositionInv'
  BY DEF PositionInv, QuietInv
<1>9. QED
  BY <1>2, <1>3, <1>4, <1>5, <1>6, <1>7, <1>8, Zenon DEF Inv, TypeOK

(* Stuttering keeps the invariant.                                           *)
LEMMA StutterInv == ASSUME Inv, UNCHANGED vars PROVE Inv'
<1>1. UNCHANGED <<heapVars, slots>> /\ UNCHANGED callVars /\ UNCHANGED <<inUse, shutdown>> /\ UNCHANGED pc /\ UNCHANGED waited
  BY Zenon DEF vars
<1>2. FlagTypes' /\ CallTypes' /\ ClockTypes'
  BY <1>1, Zenon DEF Inv, TypeOK, FlagTypes, CallTypes, ClockTypes, callVars
<1>3. \A t \in Threads : pc'[t] = "park" => pc[t] = "park" /\ UNCHANGED <<ring[t], pos[t]>>
  BY <1>1, Zenon DEF callVars
<1>4. QED
  BY <1>1, <1>2, <1>3, QuietStep, Zenon

(* The invariant is inductive.                                               *)
LEMMA StepInv == Inv /\ QuietInv /\ [Next]_vars => Inv' /\ QuietInv'
<1> SUFFICES ASSUME Inv, QuietInv, [Next]_vars PROVE Inv' /\ QuietInv'
  OBVIOUS
<1>1. QuietInv'
  BY QuietHolds, Zenon DEF Inv
<1>2. Inv'
  <2>1. CASE \E t \in Threads, b \in Requests, d \in 0 .. RingDepth : AllocCall(t, b, d)
    BY <2>1, AllocCallInv, Zenon
  <2>2. CASE \E t \in Threads : AllocStep(t)
    BY <2>2, ReturnInv, ReserveInv, WaitInv, ParkInv, Zenon DEF AllocStep
  <2>3. CASE \E s \in 1 .. Len(slots) : Release(s)
    BY <2>3, ReleaseInv, Zenon
  <2>4. CASE Shutdown \/ BeginRun \/ ReleaseRun \/ Tick
    BY <2>4, OutsideInv, Zenon
  <2>5. CASE Compact
    BY <2>5, CompactInv, Zenon
  <2>6. CASE UNCHANGED vars
    BY <2>6, StutterInv, Zenon
  <2>7. QED
    BY <2>1, <2>2, <2>3, <2>4, <2>5, <2>6, Zenon DEF Next
<1>3. QED
  BY <1>1, <1>2, Zenon

(* The invariant holds throughout.                                           *)
LEMMA Invariant == Spec => [](Inv /\ QuietInv)
<1>1. Init => QuietInv
  BY Zenon DEF Init, QuietInv
<1>2. QED
  BY <1>1, InitInv, StepInv, PTL DEF Spec

(* Cursors, positions and calls keep their types, and no cursor leaves its   *)
(* slab, for every sequence of alloc, release and compaction.                *)
THEOREM HeapTypeCorrect == Spec => []TypeOK
<1>1. Inv => TypeOK
  BY Zenon DEF Inv
<1>2. QED
  BY <1>1, Invariant, PTL

(* Live regions of a slab never overlap: alloc never hands out bytes that a  *)
(* slot not yet released still owns.                                         *)
THEOREM LiveRegionsDisjoint == Spec => []Disjoint
<1>1. Inv => Disjoint
  <2> SUFFICES ASSUME Inv, NEW r \in Rings, NEW i \in Unfreed(r), NEW j \in Unfreed(r)
               PROVE  /\ end[r][i] <= HeapSize
                      /\ i < j => end[r][i] <= start[r][j] \/ end[r][j] <= start[r][i]
    BY Zenon DEF Disjoint
  <2> DEFINE L == Len(end[r])
  <2>1. /\ top[r] \in 0 .. HeapSize /\ tail[r] \in 0 .. HeapSize /\ lastAlive[r] \in Nat
        /\ Len(start[r]) = L /\ start[r] \in Seq(Nat) /\ end[r] \in Seq(Nat)
        /\ RingShape(top[r], tail[r], lastAlive[r], freed[r], start[r], end[r], L)
    BY Zenon DEF Inv, TypeOK, HeapTypes, SlabInv
  <2>2. L \in Nat /\ start[r] \in [1 .. L -> Nat] /\ end[r] \in [1 .. L -> Nat]
    BY <2>1, SeqAsFunction, Zenon
  <2>3. i \in 1 .. L /\ j \in 1 .. L /\ i \notin freed[r] /\ j \notin freed[r]
    BY Zenon DEF Unfreed
  <2> HIDE DEF L
  <2>4. i \in lastAlive[r] + 1 .. L /\ j \in lastAlive[r] + 1 .. L
    <3>1. \A k \in 1 .. lastAlive[r] : k \in freed[r]
      BY <2>1, Zenon DEF RingShape
    <3>2. lastAlive[r] \in Nat
      BY <2>1, Zenon
    <3>3. QED
      BY <2>2, <2>3, <3>1, <3>2
  <2>5. Placed(top[r], tail[r], start[r], end[r], i) /\ Placed(top[r], tail[r], start[r], end[r], j)
    BY <2>1, <2>4, Zenon DEF RingShape
  <2>6. i < j => Ordered(tail[r], start[r], end[r], i, j)
    BY <2>1, <2>4, Zenon DEF RingShape
  <2>7. start[r][i] \in Nat /\ start[r][j] \in Nat /\ end[r][i] \in Nat /\ end[r][j] \in Nat
    BY <2>2, <2>3, Zenon
  <2>8. top[r] \in Nat /\ tail[r] \in Nat
    BY <2>1, HeapSizeAssumption
  <2>9. end[r][i] <= HeapSize
    BY <2>5, Zenon DEF Placed
  <2>10. ASSUME i < j, High(tail[r], start[r], i) <=> High(tail[r], start[r], j)
         PROVE  end[r][i] <= start[r][j]
    BY <2>6, <2>10, Zenon DEF Ordered
  <2>11. ASSUME i < j, ~(High(tail[r], start[r], i) <=> High(tail[r], start[r], j))
         PROVE  end[r][j] <= start[r][i]
    <3>1. High(tail[r], start[r], i) /\ ~High(tail[r], start[r], j)
      BY <2>6, <2>11, Zenon DEF Ordered
    <3>2. end[r][j] <= top[r] /\ top[r] < tail[r]
      BY <2>5, <3>1, Zenon DEF Placed
    <3>3. QED
      BY <2>7, <2>8, <3>1, <3>2 DEF High
  <2>12. QED
    BY <2>9, <2>10, <2>11, Zenon
<1>2. QED
  BY <1>1, Invariant, PTL

(* A ring all of whose slots were released has its whole slab back. *)
THEOREM SlabFullyReclaimed == Spec => []FullyReclaimed
<1>1. Inv => FullyReclaimed
  <2> SUFFICES ASSUME Inv, NEW r \in Rings, Unfreed(r) = {} PROVE tail[r] = top[r]
    BY Zenon DEF FullyReclaimed
  <2>1. /\ lastAlive[r] \in Nat /\ end[r] \in Seq(Nat)
        /\ RingShape(top[r], tail[r], lastAlive[r], freed[r], start[r], end[r], Len(end[r]))
    BY Zenon DEF Inv, TypeOK, HeapTypes, SlabInv
  <2>2. Len(end[r]) \in Nat
    BY <2>1, SeqAsFunction, Zenon
  <2>3. ~(lastAlive[r] < Len(end[r]))
    <3> SUFFICES ASSUME lastAlive[r] < Len(end[r]) PROVE FALSE
      OBVIOUS
    <3>1. lastAlive[r] + 1 \in 1 .. Len(end[r]) /\ lastAlive[r] + 1 \notin freed[r]
      BY <2>1, <2>2 DEF RingShape
    <3>2. QED
      BY <3>1, Zenon DEF Unfreed
  <2>4. lastAlive[r] <= Len(end[r]) /\ (lastAlive[r] = Len(end[r]) => tail[r] = top[r])
    BY <2>1, Zenon DEF RingShape
  <2>5. lastAlive[r] = Len(end[r])
    BY <2>1, <2>2, <2>3, <2>4
  <2>6. QED
    BY <2>4, <2>5, Zenon
<1>2. QED
  BY <1>1, Invariant, PTL

(* Together: for every slab size, alignment, number of rings, threads and    *)
(* requests, live regions never overlap and an empty ring has its whole slab *)
(* back.                                                                     *)
THEOREM SlabsAlwaysSound == Spec => []SlabsSound
<1>1. Disjoint /\ FullyReclaimed => SlabsSound
  BY Zenon DEF SlabsSound
<1>2. QED
  BY <1>1, LiveRegionsDisjoint, SlabFullyReclaimed, PTL

-----------------------------------------------------------------------------
(* Nobody sleeps over room.  It has to hold from the moment the heap was     *)
(* found full: a bump by another thread never makes room, and a release      *)
(* needs the mutex of a thread that is falling asleep and wakes the sleepers.*)
FullInv == \A t \in Threads : pc[t] \in {"falling", "asleep"} => ~Fits(ring[t], size[t])

(* A request that fits after a bump would have fitted before it.             *)
LEMMA BumpMakesNoRoom ==
    ASSUME NEW tp \in 0 .. HeapSize, NEW tl \in 0 .. HeapSize, NEW lo \in Nat, NEW n \in Nat, NEW m \in Nat,
           \/ n = 0 /\ lo = tp
           \/ tp >= tl /\ HeapSize - tp >= n /\ lo = tp
           \/ tp >= tl /\ HeapSize - tp < n /\ tl > n /\ lo = 0
           \/ tp < tl /\ tl - tp > n /\ lo = tp,
           \/ lo + n >= tl /\ HeapSize - (lo + n) >= m
           \/ lo + n >= tl /\ HeapSize - (lo + n) < m /\ tl > m
           \/ lo + n < tl /\ tl - (lo + n) > m
    PROVE  \/ tp >= tl /\ HeapSize - tp >= m
           \/ tp >= tl /\ HeapSize - tp < m /\ tl > m
           \/ tp < tl /\ tl - tp > m
BY HeapSizeAssumption

(* So a bump by another thread leaves a sleeper without room.                *)
LEMMA ReserveFull == ASSUME Inv, FullInv, NEW t \in Threads, Reserve(t) PROVE FullInv'
<1> DEFINE r == ring[t]
           n == size[t]
           lo == IF n > 0 /\ Wraps(r, n) THEN 0 ELSE top[r]
<1> SUFFICES ASSUME NEW u \in Threads, pc'[u] \in {"falling", "asleep"}, Fits(ring[u], size[u])'
             PROVE  FALSE
  BY Zenon DEF FullInv
<1>1. /\ top' = [top EXCEPT ![r] = lo + n] /\ pc' = [pc EXCEPT ![t] = "park"]
      /\ UNCHANGED <<tail, ring, size>>
      /\ n = 0 \/ Fits(r, n)
  BY Zenon DEF Reserve
<1>2. /\ pc[u] \in {"falling", "asleep"} /\ ring[u] \in Rings /\ size[u] \in Nat /\ r \in Rings /\ n \in Nat
      /\ top \in [Rings -> 0 .. HeapSize] /\ tail \in [Rings -> 0 .. HeapSize]
  BY <1>1, HeapSizeAssumption, SMTT(30) DEF Inv, TypeOK, HeapTypes, CallTypes
<1>3. ~Fits(ring[u], size[u])
  BY <1>2, Zenon DEF FullInv
<1>4. CASE ring[u] # r
  BY <1>1, <1>2, <1>3, <1>4, Zenon DEF Fits, AtEnd, Wraps, WrapRoom, InGap
<1>5. CASE ring[u] = r
  <2> DEFINE m == size[u]
  <2>1. /\ top[r] \in 0 .. HeapSize /\ tail[r] \in 0 .. HeapSize /\ lo \in Nat
        /\ top'[r] = lo + n /\ tail'[r] = tail[r] /\ m \in Nat
    BY <1>1, <1>2, HeapSizeAssumption
  <2>2. \/ n = 0 /\ lo = top[r]
        \/ top[r] >= tail[r] /\ HeapSize - top[r] >= n /\ lo = top[r]
        \/ top[r] >= tail[r] /\ HeapSize - top[r] < n /\ tail[r] > n /\ lo = 0
        \/ top[r] < tail[r] /\ tail[r] - top[r] > n /\ lo = top[r]
    <3>1. CASE n = 0
      BY <3>1
    <3>2. CASE n # 0 /\ Wraps(r, n)
      BY <1>2, <3>2 DEF Wraps, WrapRoom
    <3>3. CASE n # 0 /\ ~Wraps(r, n)
      BY <1>1, <3>3, Zenon DEF Fits, AtEnd, InGap
    <3>4. QED
      BY <3>1, <3>2, <3>3, Zenon
  <2>3. \/ lo + n >= tail[r] /\ HeapSize - (lo + n) >= m
        \/ lo + n >= tail[r] /\ HeapSize - (lo + n) < m /\ tail[r] > m
        \/ lo + n < tail[r] /\ tail[r] - (lo + n) > m
    BY <1>1, <1>5, <2>1, Zenon DEF Fits, AtEnd, Wraps, WrapRoom, InGap
  <2> HIDE DEF lo, n, m, r
  <2>4. \/ top[r] >= tail[r] /\ HeapSize - top[r] >= m
        \/ top[r] >= tail[r] /\ HeapSize - top[r] < m /\ tail[r] > m
        \/ top[r] < tail[r] /\ tail[r] - top[r] > m
    BY ZenonT(30), <1>2, <2>1, <2>2, <2>3, BumpMakesNoRoom
  <2>5. QED
    BY <1>3, <1>5, <2>4, Zenon DEF m, Fits, AtEnd, Wraps, WrapRoom, InGap
<1>6. QED
  BY <1>4, <1>5, Zenon

(* A release leaves nobody asleep on its ring.                               *)
LEMMA ReleaseFull == ASSUME Inv, FullInv, NEW s \in 1 .. Len(slots), Release(s) PROVE FullInv'
<1> DEFINE r == slots[s].ring
<1> SUFFICES ASSUME NEW u \in Threads, pc'[u] \in {"falling", "asleep"} PROVE ~Fits(ring[u], size[u])'
  BY Zenon DEF FullInv
<1>1. /\ MutexFree(r) /\ pc' = WokenOn(r) /\ UNCHANGED <<top, ring, size>>
      /\ \E x : tail' = [tail EXCEPT ![r] = x]
  BY Zenon DEF Release, Wake, callVars
<1>2. pc[u] \in {"falling", "asleep"} /\ ring[u] # r /\ ring[u] \in Rings
  BY <1>1, Zenon DEF WokenOn, MutexFree, Inv, TypeOK, CallTypes
<1>3. tail'[ring[u]] = tail[ring[u]]
  BY <1>1, <1>2, Zenon DEF Inv, TypeOK, HeapTypes
<1>4. ~Fits(ring[u], size[u])
  BY <1>2, Zenon DEF FullInv
<1>5. QED
  BY <1>1, <1>3, <1>4, Zenon DEF Fits, AtEnd, Wraps, WrapRoom, InGap

(* FullInv is inductive with the invariant of the slabs.                     *)
LEMMA FullStep == Inv /\ QuietInv /\ FullInv /\ [Next]_vars => FullInv'
<1> SUFFICES ASSUME Inv, QuietInv, FullInv, [Next]_vars PROVE FullInv'
  OBVIOUS
<1> USE DEF Fits, AtEnd, Wraps, WrapRoom, InGap
<1>1. CASE \E t \in Threads, b \in Requests, d \in 0 .. RingDepth : AllocCall(t, b, d)
  BY <1>1 DEF AllocCall, heapVars, FullInv, Inv, TypeOK, CallTypes
<1>2. CASE \E t \in Threads : AllocStep(t)
  <2>1. PICK t \in Threads : AllocStep(t)
    BY <1>2, Zenon
  <2>2. CASE AllocShutdown(t) \/ Timeout(t) \/ Park(t)
    BY <2>2, ZenonT(30) DEF AllocShutdown, Timeout, Park, Return, heapVars, FullInv, Inv, TypeOK, CallTypes
  <2>3. CASE HeapFull(t)
    BY <2>3, Zenon DEF HeapFull, heapVars, callVars, FullInv, Inv, TypeOK, CallTypes
  <2>4. CASE Sleep(t)
    BY <2>4, Zenon DEF Sleep, heapVars, callVars, FullInv, Inv, TypeOK, CallTypes
  <2>5. QED
    BY <2>1, <2>2, <2>3, <2>4, ReserveFull, Zenon DEF AllocStep
<1>3. CASE \E s \in 1 .. Len(slots) : Release(s)
  BY <1>3, ReleaseFull, Zenon
<1>4. CASE Shutdown \/ BeginRun \/ ReleaseRun \/ Tick
  BY <1>4, Zenon DEF Shutdown, BeginRun, ReleaseRun, Tick, heapVars, callVars, FullInv, Inv, TypeOK, CallTypes
<1>5. CASE Compact
  BY <1>5, Zenon DEF Compact, QuietInv, FullInv
<1>6. CASE UNCHANGED vars
  BY <1>6, Zenon DEF vars, heapVars, callVars, FullInv
<1>7. QED
  BY <1>1, <1>2, <1>3, <1>4, <1>5, <1>6, Zenon DEF Next

(* No thread is left asleep on a slab that has room for its request, for any *)
(* number of competing threads: notify_all in release is enough, and bumps   *)
(* need no notification.                                                     *)
THEOREM NoWakeupMissed == Spec => []NoMissedWakeup
<1>1. Init => FullInv
  BY Zenon DEF Init, FullInv
<1>2. FullInv => NoMissedWakeup
  BY Zenon DEF FullInv, NoMissedWakeup
<1>3. QED
  BY <1>1, <1>2, FullStep, Invariant, PTL DEF Spec

-----------------------------------------------------------------------------
(* Positions and their owners.  A new position is the next of its ring, and  *)
(* PositionInv keeps every owner below it.                                   *)
Parking(t, r, i) == pc[t] = "park" /\ ring[t] = r /\ pos[t] = i
Stamped(s, r, i) == slots[s] = [ring |-> r, pos |-> i]
OwnerInv ==
    /\ \A s, u \in 1 .. Len(slots) : slots[s] = slots[u] => s = u
    /\ \A t, u \in Threads : pc[t] = "park" /\ Parking(u, ring[t], pos[t]) => t = u
    /\ \A t \in Threads, s \in 1 .. Len(slots) : pc[t] = "park" => ~Stamped(s, ring[t], pos[t])
    /\ \A r \in Rings : \A i \in 1 .. Len(end[r]) :
         (\E s \in 1 .. Len(slots) : Stamped(s, r, i)) \/ (\E t \in Threads : Parking(t, r, i))

(* Steps that change no slot, no region and no parking call. *)
LEMMA SameOwners ==
    ASSUME OwnerInv, UNCHANGED <<end, slots>>,
           \A t \in Threads : /\ pc'[t] = "park" <=> pc[t] = "park"
                              /\ pc[t] = "park" => UNCHANGED <<ring[t], pos[t]>>
    PROVE  OwnerInv'
<1>1. \A s, r, i : Stamped(s, r, i)' <=> Stamped(s, r, i)
  BY Zenon DEF Stamped
<1>2. \A t \in Threads : \A r, i : Parking(t, r, i)' <=> Parking(t, r, i)
  BY Zenon DEF Parking
<1>3. /\ (\A t, u \in Threads : pc[t] = "park" /\ Parking(u, ring[t], pos[t]) => t = u)'
      /\ (\A t \in Threads, s \in 1 .. Len(slots) : pc[t] = "park" => ~Stamped(s, ring[t], pos[t]))'
  BY SMTT(30) DEF OwnerInv, Parking, Stamped
<1>4. QED
  BY <1>1, <1>2, <1>3, ZenonT(30) DEF OwnerInv

(* A bump gives the new position to the call that made it.                   *)
LEMMA ReserveOwners == ASSUME Inv, OwnerInv, NEW t \in Threads, Reserve(t) PROVE OwnerInv'
<1> DEFINE r == ring[t]
           L == Len(end[r])
<1>1. /\ pc[t] = "enter" /\ pc' = [pc EXCEPT ![t] = "park"] /\ pos' = [pos EXCEPT ![t] = L + 1]
      /\ UNCHANGED <<slots, ring>> /\ \E x \in Nat : end' = [end EXCEPT ![r] = Append(end[r], x)]
  <2>1. size[t] \in Nat /\ top[r] \in Nat
    BY HeapSizeAssumption DEF Inv, TypeOK, HeapTypes, CallTypes
  <2> DEFINE x == (IF size[t] > 0 /\ Wraps(r, size[t]) THEN 0 ELSE top[r]) + size[t]
  <2>2. x \in Nat
    BY <2>1
  <2>3. end' = [end EXCEPT ![r] = Append(end[r], x)]
    BY Zenon DEF Reserve
  <2> HIDE DEF x
  <2>4. \E y \in Nat : end' = [end EXCEPT ![r] = Append(end[r], y)]
    BY <2>2, <2>3, Zenon
  <2>5. QED
    BY <2>4, Zenon DEF Reserve
<1>2. /\ r \in Rings /\ end \in [Rings -> Seq(Nat)] /\ L \in Nat
      /\ pc' \in [Threads -> {"idle", "enter", "falling", "asleep", "park"}] /\ DOMAIN pos = Threads
      /\ DOMAIN pc = Threads /\ ring \in [Threads -> Rings]
  BY <1>1, SMTT(30) DEF Inv, TypeOK, HeapTypes, CallTypes
<1>3. Len(end'[r]) = L + 1 /\ \A k \in Rings : k # r => end'[k] = end[k]
  BY <1>1, <1>2
<1>4. \A u \in Threads \ {t} : /\ pc'[u] = pc[u] /\ pos'[u] = pos[u]
                               /\ \A k, i : Parking(u, k, i)' <=> Parking(u, k, i)
  BY <1>1, <1>2, Zenon DEF Parking
<1>5. \A k, i : Parking(t, k, i)' <=> k = r /\ i = L + 1
  BY <1>1, <1>2, Zenon DEF Parking
<1>6. \A u \in Threads \ {t} : ~(pc[u] = "park" /\ ring[u] = r /\ pos[u] = L + 1)
  BY <1>2 DEF Inv, PositionInv
<1>7. \A s \in 1 .. Len(slots) : ~Stamped(s, r, L + 1)
  BY <1>2 DEF Inv, PositionInv, Stamped
<1>8. (\A u, v \in Threads : pc[u] = "park" /\ Parking(v, ring[u], pos[u]) => u = v)'
  <2> SUFFICES ASSUME NEW u \in Threads, NEW v \in Threads,
                      pc'[u] = "park", Parking(v, ring[u], pos[u])'
               PROVE  u = v
    OBVIOUS
  <2>1. CASE u = t
    BY <1>1, <1>2, <1>4, <1>6, <2>1, Zenon DEF Parking
  <2>2. CASE u # t
    <3>1. pc[u] = "park" /\ ring'[u] = ring[u] /\ pos'[u] = pos[u]
      BY <1>1, <1>4, <2>2, Zenon
    <3>2. CASE v = t
      BY <1>5, <1>6, <2>2, <3>1, <3>2, Zenon
    <3>3. CASE v # t
      <4>1. Parking(v, ring[u], pos[u])
        BY <1>4, <3>1, <3>3, Zenon
      <4>2. QED
        BY <3>1, <4>1, Zenon DEF OwnerInv
    <3>4. QED
      BY <3>2, <3>3, Zenon
  <2>3. QED
    BY <2>1, <2>2, Zenon
<1>9. (\A u \in Threads, s \in 1 .. Len(slots) : pc[u] = "park" => ~Stamped(s, ring[u], pos[u]))'
  BY <1>1, <1>2, <1>4, <1>7 DEF OwnerInv, Stamped
<1>10. ASSUME NEW k \in Rings, NEW i \in 1 .. Len(end'[k])
       PROVE  (\E s \in 1 .. Len(slots) : Stamped(s, k, i)) \/ (\E u \in Threads : Parking(u, k, i)')
  <2>1. CASE k = r /\ i = L + 1
    BY <1>5, <2>1, Zenon
  <2>2. CASE ~(k = r /\ i = L + 1)
    <3>1. i \in 1 .. Len(end[k])
      BY <1>2, <1>3, <2>2
    <3>2. \A u \in Threads : Parking(u, k, i) => u # t
      BY <1>1, Zenon DEF Parking
    <3>3. QED
      BY <1>4, <3>1, <3>2, Zenon DEF OwnerInv
  <2>3. QED
    BY <2>1, <2>2, Zenon
<1>11. QED
  BY <1>1, <1>8, <1>9, <1>10, ZenonT(30) DEF OwnerInv, Stamped

(* Taking the slot id hands the position from the call to the slot.          *)
LEMMA ParkOwners == ASSUME Inv, OwnerInv, NEW t \in Threads, Park(t) PROVE OwnerInv'
<1> DEFINE e == [ring |-> ring[t], pos |-> pos[t]]
           N == Len(slots)
<1>1. /\ pc[t] = "park" /\ slots' = Append(slots, e) /\ UNCHANGED end
      /\ pc' = [pc EXCEPT ![t] = "idle"] /\ ring' = [ring EXCEPT ![t] = 0] /\ pos' = [pos EXCEPT ![t] = 0]
  BY Zenon DEF Park, StampedPos, Return, heapVars
<1>2. e \in [ring : Rings, pos : Nat] /\ slots \in Seq([ring : Rings, pos : Nat])
  BY Zenon DEF Inv, TypeOK, CallTypes, SlotTypes
<1>3. /\ N \in Nat /\ Len(slots') = N + 1 /\ slots'[N + 1] = e
      /\ \A s \in 1 .. N : slots'[s] = slots[s]
  <2> HIDE DEF e
  <2>1. QED
    BY <1>1, <1>2
<1>4. \A s \in 1 .. N : slots[s] # e
  BY <1>1, Zenon DEF OwnerInv, Stamped
<1>5. \A u \in Threads \ {t} : /\ pc'[u] = pc[u] /\ pos'[u] = pos[u] /\ ring'[u] = ring[u]
                               /\ \A k, i : Parking(u, k, i)' <=> Parking(u, k, i)
  BY <1>1, Zenon DEF Inv, TypeOK, CallTypes, Parking
<1>6. pc'[t] # "park" /\ \A k, i : ~Parking(t, k, i)'
  BY <1>1, Zenon DEF Inv, TypeOK, CallTypes, Parking
<1>7. \A s \in 1 .. N + 1 : s \in 1 .. N \/ s = N + 1
  BY <1>3
<1>8. (\A s, u \in 1 .. Len(slots) : slots[s] = slots[u] => s = u)'
  BY <1>3, <1>4, <1>7, ZenonT(30) DEF OwnerInv
<1>9. (\A u, v \in Threads : pc[u] = "park" /\ Parking(v, ring[u], pos[u]) => u = v)'
  BY <1>5, <1>6 DEF OwnerInv
<1>10. (\A u \in Threads, s \in 1 .. Len(slots) : pc[u] = "park" => ~Stamped(s, ring[u], pos[u]))'
  <2> SUFFICES ASSUME NEW u \in Threads, NEW s \in 1 .. N + 1, pc'[u] = "park", Stamped(s, ring[u], pos[u])'
               PROVE  FALSE
    BY <1>3, Zenon
  <2>1. u # t /\ pc[u] = "park" /\ slots'[s] = [ring |-> ring[u], pos |-> pos[u]]
    BY <1>5, <1>6, Zenon DEF Stamped
  <2>2. CASE s \in 1 .. N
    BY <1>3, <2>1, <2>2, ZenonT(30) DEF OwnerInv, Stamped
  <2>3. CASE s = N + 1
    BY <1>1, <1>3, <2>1, <2>3 DEF OwnerInv, Parking
  <2>4. QED
    BY <1>7, <2>2, <2>3, Zenon
<1>11. ASSUME NEW k \in Rings, NEW i \in 1 .. Len(end[k])
       PROVE  (\E s \in 1 .. N + 1 : Stamped(s, k, i)') \/ (\E u \in Threads : Parking(u, k, i)')
  <2>1. CASE \E s \in 1 .. N : Stamped(s, k, i)
    BY <1>3, <2>1 DEF Stamped
  <2>2. CASE Parking(t, k, i)
    BY <1>3, <2>2 DEF Stamped, Parking
  <2>3. CASE \E u \in Threads \ {t} : Parking(u, k, i)
    BY <1>5, <2>3, Zenon
  <2>4. QED
    BY <2>1, <2>2, <2>3, Zenon DEF OwnerInv
<1>12. QED
  BY <1>1, <1>3, <1>8, <1>9, <1>10, <1>11, Zenon DEF OwnerInv

(* OwnerInv is inductive with the invariant of the slabs.                    *)
LEMMA OwnerStep == Inv /\ QuietInv /\ OwnerInv /\ [Next]_vars => OwnerInv'
<1> SUFFICES ASSUME Inv, QuietInv, OwnerInv, [Next]_vars PROVE OwnerInv'
  OBVIOUS
<1>1. CASE \E t \in Threads, b \in Requests, d \in 0 .. RingDepth : AllocCall(t, b, d)
  BY <1>1, SameOwners DEF AllocCall, heapVars, Inv, TypeOK, CallTypes
<1>2. CASE \E t \in Threads : AllocStep(t)
  <2>1. PICK t \in Threads : AllocStep(t)
    BY <1>2, Zenon
  <2>2. CASE AllocShutdown(t) \/ Timeout(t)
    BY <2>2, SameOwners, Zenon DEF AllocShutdown, Timeout, Return, heapVars, Inv, TypeOK, CallTypes
  <2>3. CASE HeapFull(t) \/ Sleep(t)
    BY <2>3, SameOwners, Zenon DEF HeapFull, Sleep, heapVars, callVars, Inv, TypeOK, CallTypes
  <2>4. QED
    BY <2>1, <2>2, <2>3, ReserveOwners, ParkOwners, Zenon DEF AllocStep
<1>3. CASE \E s \in 1 .. Len(slots) : Release(s)
  BY <1>3, SameOwners, Zenon DEF Release, Wake, WokenOn, callVars
<1>4. CASE Shutdown \/ BeginRun \/ ReleaseRun \/ Tick
  BY <1>4, SameOwners, ZenonT(30) DEF Shutdown, BeginRun, ReleaseRun, Tick, heapVars, callVars, Inv, TypeOK, CallTypes
<1>5. CASE Compact
  BY <1>5 DEF Compact, QuietInv, OwnerInv
<1>6. CASE UNCHANGED vars
  BY <1>6, SameOwners, Zenon DEF vars, heapVars, callVars
<1>7. QED
  BY <1>1, <1>2, <1>3, <1>4, <1>5, <1>6, Zenon DEF Next

(* Every reserved position has exactly one owner, a task id or the call about*)
(* to take one, although ring mutex and slots_mu_ are taken one after the    *)
(* other: release never frees another task's region.                         *)
THEOREM PositionsOwnedOnce == Spec => []OneOwner
<1>1. Init => OwnerInv
  BY DEF Init, OwnerInv
<1>2. OwnerInv => OneOwner
  <2> SUFFICES ASSUME OwnerInv, NEW r \in Rings, NEW i \in 1 .. Len(end[r])
               PROVE  \E o \in Owners(r, i) : Owners(r, i) = {o}
    BY Zenon DEF OneOwner
  <2>1. \A o : o \in Owners(r, i) <=> \/ \E s \in 1 .. Len(slots) : Stamped(s, r, i) /\ o = <<"slot", s>>
                                      \/ \E t \in Threads : Parking(t, r, i) /\ o = <<"call", t>>
    BY Zenon DEF Owners, Stamped, Parking
  <2>2. \A s \in 1 .. Len(slots), t \in Threads : ~(Stamped(s, r, i) /\ Parking(t, r, i))
    <3> SUFFICES ASSUME NEW s \in 1 .. Len(slots), NEW t \in Threads, Stamped(s, r, i), Parking(t, r, i)
                 PROVE  FALSE
      OBVIOUS
    <3>1. pc[t] = "park" /\ ring[t] = r /\ pos[t] = i
      BY Zenon DEF Parking
    <3>2. QED
      BY <3>1, Zenon DEF OwnerInv
  <2>3. CASE \E s \in 1 .. Len(slots) : Stamped(s, r, i)
    <3>1. PICK s \in 1 .. Len(slots) : Stamped(s, r, i)
      BY <2>3, Zenon
    <3>2. \A u \in 1 .. Len(slots) : Stamped(u, r, i) => u = s
      BY <3>1, Zenon DEF OwnerInv, Stamped
    <3>3. Owners(r, i) = {<<"slot", s>>}
      BY <2>1, <2>2, <3>1, <3>2, Zenon
    <3>4. QED
      BY <3>3, Zenon
  <2>4. CASE \E t \in Threads : Parking(t, r, i)
    <3>1. PICK t \in Threads : Parking(t, r, i)
      BY <2>4, Zenon
    <3>2. \A u \in Threads : Parking(u, r, i) => u = t
      BY <3>1, Zenon DEF OwnerInv, Parking
    <3>3. Owners(r, i) = {<<"call", t>>}
      BY <2>1, <2>2, <3>1, <3>2, Zenon
    <3>4. QED
      BY <3>3, Zenon
  <2>5. QED
    BY <2>3, <2>4, Zenon DEF OwnerInv
<1>3. QED
  BY <1>1, <1>2, OwnerStep, Invariant, PTL DEF Spec
=============================================================================
