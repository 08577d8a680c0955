------------------------------ MODULE HeapRing ------------------------------
(***************************************************************************)
(* Ring: task ids, slot states and the per-scope heap slabs.  Each of the  *)
(* RingDepth slabs is a circular bump allocator reclaimed in allocation    *)
(* order.  An alloc reserves its region under the ring's mutex, waiting on *)
(* the ring's condition variable while it does not fit, and then takes a   *)
(* task id under slots_mu_; releases, a shutdown and the compaction of a   *)
(* quiescent Ring run on other threads.  A mutex held across two actions   *)
(* shows as the thread's program counter.                                  *)
(*                                                                         *)
(* An operator Op_Word stated before Op is Op with one bug of the kind the *)
(* code guards against; nothing uses it.                                   *)
(***************************************************************************)
EXTENDS Integers, Sequences

CONSTANTS
    Threads,       \* threads inside Ring::alloc
    RingDepth,     \* MAX_RING_DEPTH
    HeapSize,      \* heap_bytes of every ring
    Align,         \* HEAP_ALIGN
    Requests,      \* byte counts asked for
    MaxAllocs,     \* allocations between two compactions
    TimeoutTicks   \* timeout_ms, in clock ticks

ASSUME RingDepthAssumption == RingDepth \in Nat \ {0}
ASSUME HeapSizeAssumption == HeapSize \in Nat
ASSUME AlignAssumption == Align \in Nat \ {0}
ASSUME RequestsAssumption == Requests \subseteq Nat
ASSUME MaxAllocsAssumption == MaxAllocs \in Nat
ASSUME TimeoutAssumption == TimeoutTicks \in Nat \ {0}

Rings == 0 .. RingDepth - 1

VARIABLES
    top, tail, lastAlive,  \* HeapRing cursors
    freed,                 \* positions whose released byte is 1
    start, end,            \* the region of every position: heap_ptr and slot_heap_end
    slots,                 \* slot_states_: the ring and position stamped on each task id
    inUse,                 \* a run is registered with the Orchestrator
    shutdown,
    pc, ring, size, pos,   \* locals of Ring::alloc, per thread
    waited                 \* clock ticks since the call

heapVars == <<top, tail, lastAlive, freed, start, end>>
callVars == <<ring, size, pos>>
vars == <<heapVars, slots, inUse, shutdown, pc, callVars, waited>>

Init ==
    /\ top = [r \in Rings |-> 0]
    /\ tail = [r \in Rings |-> 0]
    /\ lastAlive = [r \in Rings |-> 0]
    /\ freed = [r \in Rings |-> {}]
    /\ start = [r \in Rings |-> <<>>]
    /\ end = [r \in Rings |-> <<>>]
    /\ slots = <<>>
    /\ inUse = FALSE
    /\ shutdown = FALSE
    /\ pc = [t \in Threads |-> "idle"]
    /\ ring = [t \in Threads |-> 0]
    /\ size = [t \in Threads |-> 0]
    /\ pos = [t \in Threads |-> 0]
    /\ waited = [t \in Threads |-> 0]

-----------------------------------------------------------------------------
AlignUp(bytes) == ((bytes + Align - 1) \div Align) * Align
RingIdxForScope(depth) == IF depth < RingDepth THEN depth ELSE RingDepth - 1

(* try_bump_ring_heap_locked: room after top, or from 0 when top has reached *)
(* the end and tail has left more than enough, or in the gap after a wrap.   *)
AtEnd(r, n) == top[r] >= tail[r] /\ HeapSize - top[r] >= n
WrapRoom_Equal(r, n) == tail[r] >= n
WrapRoom(r, n) == tail[r] > n
Wraps(r, n) == top[r] >= tail[r] /\ HeapSize - top[r] < n /\ WrapRoom(r, n)
InGap(r, n) == top[r] < tail[r] /\ tail[r] - top[r] > n
Fits(r, n) == AtEnd(r, n) \/ Wraps(r, n) \/ InGap(r, n)

(* A thread that found the heap full keeps the mutex until it is on the      *)
(* condition variable; only shutdown() does not need the mutex.              *)
MutexFree(r) == \A t \in Threads : ~(pc[t] = "falling" /\ ring[t] = r)
WokenOn(r) == [t \in Threads |-> IF pc[t] = "asleep" /\ ring[t] = r THEN "enter" ELSE pc[t]]

InFlight == {t \in Threads : pc[t] # "idle"}
Reserved == Len(slots)

AllocCall(t, bytes, depth) ==
    /\ inUse /\ pc[t] = "idle" /\ Reserved < MaxAllocs
    /\ AlignUp(bytes) <= HeapSize
    /\ pc' = [pc EXCEPT ![t] = "enter"]
    /\ ring' = [ring EXCEPT ![t] = RingIdxForScope(depth)]
    /\ size' = [size EXCEPT ![t] = AlignUp(bytes)]
    /\ UNCHANGED <<heapVars, slots, inUse, shutdown, pos, waited>>

(* The call returns or throws; its locals are gone. *)
Return(t) ==
    /\ pc' = [pc EXCEPT ![t] = "idle"]
    /\ ring' = [ring EXCEPT ![t] = 0]
    /\ size' = [size EXCEPT ![t] = 0]
    /\ pos' = [pos EXCEPT ![t] = 0]
    /\ waited' = [waited EXCEPT ![t] = 0]

AllocShutdown(t) ==
    /\ pc[t] = "enter" /\ MutexFree(ring[t]) /\ shutdown
    /\ Return(t)
    /\ UNCHANGED <<heapVars, slots, inUse, shutdown>>

(* Phase 1: the region and its position in the ring's release order.  A      *)
(* request of 0 bytes takes a position at top and no heap.                   *)
Reserve(t) ==
    /\ pc[t] = "enter" /\ MutexFree(ring[t]) /\ ~shutdown
    /\ LET r == ring[t]
           n == size[t]
           lo == IF n > 0 /\ Wraps(r, n) THEN 0 ELSE top[r]
       IN  /\ n = 0 \/ Fits(r, n)
           /\ top' = [top EXCEPT ![r] = lo + n]
           /\ start' = [start EXCEPT ![r] = Append(@, lo)]
           /\ end' = [end EXCEPT ![r] = Append(@, lo + n)]
           /\ pos' = [pos EXCEPT ![t] = Len(end[r]) + 1]
    /\ pc' = [pc EXCEPT ![t] = "park"]
    /\ UNCHANGED <<tail, lastAlive, freed, slots, inUse, shutdown, ring, size, waited>>

HeapFull(t) ==
    /\ pc[t] = "enter" /\ MutexFree(ring[t]) /\ ~shutdown
    /\ size[t] > 0 /\ ~Fits(ring[t], size[t])
    /\ pc' = [pc EXCEPT ![t] = "falling"]
    /\ UNCHANGED <<heapVars, slots, inUse, shutdown, callVars, waited>>

Sleep(t) ==
    /\ pc[t] = "falling"
    /\ pc' = [pc EXCEPT ![t] = "asleep"]
    /\ UNCHANGED <<heapVars, slots, inUse, shutdown, callVars, waited>>

(* The deadline is fixed when the call starts.  The call throws, or returns  *)
(* the shutdown sentinel.                                                    *)
Expired_Unbounded(t) == FALSE
Expired(t) == waited[t] = TimeoutTicks

Timeout(t) ==
    /\ pc[t] = "asleep" /\ Expired(t)
    /\ Return(t)
    /\ UNCHANGED <<heapVars, slots, inUse, shutdown>>

(* Phase 2: the next task id and its slot state, stamped with the position. *)
StampedPos_Late(t) == Len(end[ring[t]])
StampedPos(t) == pos[t]

Park(t) ==
    /\ pc[t] = "park"
    /\ slots' = Append(slots, [ring |-> ring[t], pos |-> StampedPos(t)])
    /\ Return(t)
    /\ UNCHANGED <<heapVars, inUse, shutdown>>

(* release: mark the position and advance the tail over every released one   *)
(* at the front, then wake the ring's waiters.                               *)
Wake_One(r) ==
    \/ \E t \in Threads : pc[t] = "asleep" /\ ring[t] = r /\ pc' = [pc EXCEPT ![t] = "enter"]
    \/ pc' = pc /\ \A t \in Threads : ~(pc[t] = "asleep" /\ ring[t] = r)
Wake(r) == pc' = WokenOn(r)

(* n is the new last_alive: everything up to it is released, the next not.   *)
AdvanceTo(r, n, released) ==
    /\ \A i \in lastAlive[r] + 1 .. n : i \in released
    /\ n = Len(end[r]) \/ n + 1 \notin released

Release(s) ==
    LET r == slots[s].ring
        released == freed[r] \cup {slots[s].pos}
    IN  /\ MutexFree(r) /\ slots[s].pos \notin freed[r]
        /\ freed' = [freed EXCEPT ![r] = released]
        /\ \E n \in lastAlive[r] .. Len(end[r]) :
            /\ AdvanceTo(r, n, released)
            /\ lastAlive' = [lastAlive EXCEPT ![r] = n]
            /\ tail' = [tail EXCEPT ![r] = IF n = lastAlive[r] THEN @ ELSE end[r][n]]
        /\ Wake(r)
        /\ UNCHANGED <<top, start, end, slots, inUse, shutdown, callVars, waited>>

(* The flag is stored and the waiters notified without the mutex: a thread   *)
(* about to sleep misses it until its deadline.                              *)
Shutdown ==
    /\ ~shutdown
    /\ shutdown' = TRUE
    /\ pc' = [t \in Threads |-> IF pc[t] = "asleep" THEN "enter" ELSE pc[t]]
    /\ UNCHANGED <<heapVars, slots, inUse, callVars, waited>>

-----------------------------------------------------------------------------
(* The Orchestrator around the Ring, and time *)

BeginRun ==
    /\ ~inUse
    /\ inUse' = TRUE
    /\ UNCHANGED <<heapVars, slots, shutdown, pc, callVars, waited>>

Live(s) == slots[s].pos \notin freed[slots[s].ring]
AllConsumed == InFlight = {} /\ \A s \in 1 .. Len(slots) : ~Live(s)

(* release_run of the last terminal run: all its slots were released. *)
ReleaseRun ==
    /\ inUse /\ AllConsumed
    /\ inUse' = FALSE
    /\ UNCHANGED <<heapVars, slots, shutdown, pc, callVars, waited>>

(* compact_if_quiescent and reset_to_empty, which validates every ring. *)
Drained == \A r \in Rings : lastAlive[r] = Len(end[r])
Compact ==
    /\ ~inUse /\ slots # <<>> /\ Drained
    /\ top' = [r \in Rings |-> 0]
    /\ tail' = [r \in Rings |-> 0]
    /\ lastAlive' = [r \in Rings |-> 0]
    /\ freed' = [r \in Rings |-> {}]
    /\ start' = [r \in Rings |-> <<>>]
    /\ end' = [r \in Rings |-> <<>>]
    /\ slots' = <<>>
    /\ UNCHANGED <<inUse, shutdown, pc, callVars, waited>>

Later(n) == IF n < TimeoutTicks THEN n + 1 ELSE n
Tick ==
    /\ \E t \in Threads : pc[t] = "asleep" /\ waited[t] < TimeoutTicks
    /\ waited' = [t \in Threads |-> IF pc[t] = "idle" THEN waited[t] ELSE Later(waited[t])]
    /\ UNCHANGED <<heapVars, slots, inUse, shutdown, pc, callVars>>

AllocStep(t) ==
    \/ AllocShutdown(t)
    \/ Reserve(t)
    \/ HeapFull(t)
    \/ Sleep(t)
    \/ Timeout(t)
    \/ Park(t)

Next ==
    \/ \E t \in Threads, b \in Requests, d \in 0 .. RingDepth : AllocCall(t, b, d)
    \/ \E t \in Threads : AllocStep(t)
    \/ \E s \in 1 .. Len(slots) : Release(s)
    \/ Shutdown
    \/ BeginRun
    \/ ReleaseRun
    \/ Compact
    \/ Tick

Spec == Init /\ [][Next]_vars
(* Time passes, threads run, and a thread that wants a mutex released again  *)
(* and again gets it.                                                        *)
FairSpec == Spec /\ WF_vars(Tick) /\ \A t \in Threads : SF_vars(AllocStep(t))

-----------------------------------------------------------------------------
(* Properties *)

HeapTypes ==
    /\ top \in [Rings -> 0 .. HeapSize]
    /\ tail \in [Rings -> 0 .. HeapSize]
    /\ lastAlive \in [Rings -> Nat]
    /\ freed \in [Rings -> SUBSET Nat]
    /\ start \in [Rings -> Seq(Nat)]
    /\ end \in [Rings -> Seq(Nat)]
SlotTypes == slots \in Seq([ring : Rings, pos : Nat])
FlagTypes == inUse \in BOOLEAN /\ shutdown \in BOOLEAN
CallTypes ==
    /\ pc \in [Threads -> {"idle", "enter", "falling", "asleep", "park"}]
    /\ ring \in [Threads -> Rings]
    /\ size \in [Threads -> 0 .. HeapSize]
    /\ pos \in [Threads -> Nat]
ClockTypes == waited \in [Threads -> 0 .. TimeoutTicks]

(* Every variable keeps its type, and cursors stay inside the slab. *)
TypeOK == HeapTypes /\ SlotTypes /\ FlagTypes /\ CallTypes /\ ClockTypes

(* Two allocations that are both live never share a byte of a slab, however  *)
(* the bump cursor wrapped and in whatever order slots were released.        *)
Unfreed(r) == {i \in 1 .. Len(end[r]) : i \notin freed[r]}
Disjoint ==
    \A r \in Rings : \A i, j \in Unfreed(r) :
        /\ end[r][i] <= HeapSize
        /\ i < j => end[r][i] <= start[r][j] \/ end[r][j] <= start[r][i]

(* A ring whose slots were all released has its whole slab back: the cursors *)
(* meet, nothing is leaked by zero-byte slots, wraps or skipped tails.       *)
FullyReclaimed == \A r \in Rings : Unfreed(r) = {} => tail[r] = top[r]

(* The slabs are sound: unreleased regions never overlap, and a ring whose   *)
(* slots were all released has its whole slab back.                          *)
SlabsSound == Disjoint /\ FullyReclaimed

(* Every reserved position belongs to exactly one task id, or to the alloc   *)
(* about to take its id, although positions and ids are assigned under       *)
(* different mutexes: release(id) can never free another task's region.      *)
Owners(r, i) ==
    {<<"slot", s>> : s \in {s \in 1 .. Len(slots) : slots[s] = [ring |-> r, pos |-> i]}} \cup
    {<<"call", t>> : t \in {t \in Threads : pc[t] = "park" /\ ring[t] = r /\ pos[t] = i}}
OneOwner == \A r \in Rings : \A i \in 1 .. Len(end[r]) : \E o \in Owners(r, i) : Owners(r, i) = {o}

(* No waiter sleeps on a heap that has room for it: every change that could  *)
(* satisfy it wakes it, also when several waiters compete.                   *)
NoMissedWakeup == \A t \in Threads : pc[t] = "asleep" => ~Fits(ring[t], size[t])

(* Every alloc call returns: with a slot, the exhaustion error or the        *)
(* shutdown sentinel, also when the shutdown's notification is missed.       *)
AllocReturns == \A t \in Threads : pc[t] # "idle" ~> pc[t] = "idle"

(* A thread that found the "Heap full on THIS ring" waits for a release that *)
(* can come: some position of the ring is still live.                        *)
WaiterHasHope == \A t \in Threads : pc[t] = "asleep" => Unfreed(ring[t]) # {}
=============================================================================
