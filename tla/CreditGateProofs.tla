-------------------------- MODULE CreditGateProofs --------------------------
(***************************************************************************)
(* Proofs about CreditGate, for every number of waiting and of closing     *)
(* threads and every number of releases.                                   *)
(***************************************************************************)
EXTENDS CreditGate, FiniteSetTheorems, TLAPS

OwnerPcs == {"cancel", "cancel_notify", "drain", "draining"}
PastPcs == {"drain_lane", "unload", "done"}

Types ==
    /\ DOMAIN pc = Threads
    /\ gate \in [state : {"Open", "Closing", "Detached"}, calls : Int]

WaiterPlaces ==
    \A w \in Waiters : pc[w] \in {"start", "read", "in_generation", "generation_read", "notify_read", "attempt",
                                  "park", "admit", "in_wait", "sleeping", "wait_over", "notify_wait",
                                  "relock", "refused", "done"}

CloserPlaces ==
    /\ \A c \in Closers : pc[c] \in {"start", "claim", "following"} \cup OwnerPcs \cup PastPcs
    /\ \A c \in Closers : pc[c] \in OwnerPcs => gate.state = "Closing"
    /\ \A c, d \in Closers : pc[c] \in OwnerPcs /\ pc[d] \in OwnerPcs => c = d
    /\ \A c \in Closers : pc[c] \in PastPcs => gate.state = "Detached"

(* The count is the number of leases, and nobody holds one once detached.    *)
LeaseCount ==
    /\ gate.calls = Cardinality(Holders)
    /\ gate.state = "Detached" => Holders = {}

UnloadLast == ~loaded => pc[Finalizer] = "done"

GateInv == Types /\ WaiterPlaces /\ CloserPlaces /\ LeaseCount /\ UnloadLast

(* What one step does to the gate and to the set of leases. *)
Untouched == gate' = gate /\ Holders' = Holders
Leases(t) ==
    /\ t \notin Holders /\ Holders' = Holders \cup {t}
    /\ gate.state = "Open" /\ gate'.state \in {"Open", "Closing"} /\ gate'.calls = gate.calls + 1
Returns(t) ==
    /\ t \in Holders /\ Holders' = Holders \ {t}
    /\ gate'.state = gate.state /\ gate'.calls = gate.calls - 1
Detaches ==
    /\ gate.state = "Closing" /\ gate'.state = "Detached" /\ gate'.calls = 0
    /\ Holders' = {}
    /\ Holders = {} \/ \E t \in Threads : Holders = {t}
GateStep == Untouched \/ Detaches \/ \E t \in Threads : Leases(t) \/ Returns(t)

(* The threads with a lease can be counted.                                  *)
LEMMA HoldersFinite == IsFiniteSet(Holders) /\ IsFiniteSet(Threads)
<1>1. IsFiniteSet(Threads)
  BY ThreadsAssumption, FS_Union, Zenon DEF Threads
<1>2. QED
  BY <1>1, FS_Subset, Zenon DEF Holders

(* A thread that moves on changes its own lease and nobody else's.           *)
LEMMA GoHolders ==
  ASSUME NEW t \in Threads, NEW to, DOMAIN pc = Threads, Go(t, to)
  PROVE  /\ DOMAIN pc' = Threads
         /\ pc'[t] = to
         /\ \A u \in Threads : u # t => pc'[u] = pc[u]
         /\ to \in LeasePcs => Holders' = Holders \cup {t}
         /\ to \notin LeasePcs => Holders' = Holders \ {t}
BY Zenon DEF Go, Holders, Leased

(* Leases move with program counters only.                                   *)
LEMMA SameHolders == pc' = pc => Holders' = Holders
BY Zenon DEF Holders, Leased

-----------------------------------------------------------------------------
(* What park_for_credit and the launch attempt do to the gate.               *)
LEMMA WaiterStep ==
  ASSUME GateInv, NEW w \in Waiters, WaiterNext(w) \/ WaitTimeout(w)
  PROVE  GateStep /\ Types' /\ WaiterPlaces' /\ CloserPlaces' /\ UnloadLast'
<1> w \in Threads /\ Finalizer \in Threads /\ w # Finalizer /\ w \notin Closers
  BY ThreadsAssumption, Zenon DEF Threads
<1> USE DEF GateInv
<1>0. w \in Holders <=> pc[w] \in LeasePcs
  BY Zenon DEF Holders, Leased
<1>1. ASSUME NEW to, Go(w, to), UNCHANGED <<gate, loaded>>, to \in LeasePcs <=> pc[w] \in LeasePcs,
             to \in {"start", "read", "generation_read", "attempt", "park", "admit", "sleeping", "wait_over",
                     "relock", "done"}
      PROVE  GateStep /\ Types' /\ WaiterPlaces' /\ CloserPlaces' /\ UnloadLast'
  <2>1. Holders' = Holders
    BY <1>0, <1>1, GoHolders DEF Types
  <2>2. Types'
    BY <1>1, GoHolders, Zenon DEF Types
  <2>3. WaiterPlaces'
    BY <1>1, Zenon DEF Go, Types, WaiterPlaces, Threads
  <2>4. CloserPlaces' /\ UnloadLast'
    BY <1>1 DEF Go, Types, CloserPlaces, UnloadLast, Threads
  <2>5. QED
    BY <1>1, <2>1, <2>2, <2>3, <2>4, Zenon DEF GateStep, Untouched
<1>2. ASSUME NEW in \in {"in_generation", "in_wait"}, NEW out \in {"attempt", "refused"},
             Admit(w, in, out), pc[w] \notin LeasePcs, UNCHANGED loaded
      PROVE  GateStep /\ Types' /\ WaiterPlaces' /\ CloserPlaces' /\ UnloadLast'
  <2>1. CASE gate.state = "Open"
    <3>1. Go(w, in) /\ gate' = [gate EXCEPT !.calls = @ + 1]
      BY <1>2, <2>1, Zenon DEF Admit
    <3>2. in \in LeasePcs
      BY <1>2, Zenon DEF LeasePcs
    <3>3. Holders' = Holders \cup {w} /\ w \notin Holders
      BY <1>0, <1>2, <3>1, <3>2, GoHolders, Zenon DEF Types
    <3>4. Leases(w)
      BY <2>1, <3>1, <3>3, Zenon DEF Types, Leases
    <3>5. Types'
      BY <3>1, <3>2, GoHolders DEF Types
    <3>6. WaiterPlaces' /\ CloserPlaces' /\ UnloadLast'
      BY <1>2, <3>1 DEF Go, Types, WaiterPlaces, CloserPlaces, UnloadLast, Threads
    <3>7. QED
      BY <3>4, <3>5, <3>6, Zenon DEF GateStep
  <2>2. CASE gate.state # "Open"
    <3>1. Go(w, out) /\ gate' = gate
      BY <1>2, <2>2, Zenon DEF Admit
    <3>2. out \notin LeasePcs
      BY <1>2, Zenon DEF LeasePcs
    <3>3. Holders' = Holders
      BY <1>0, <1>2, <3>1, <3>2, GoHolders DEF Types
    <3>4. Types'
      BY <3>1, <3>2, GoHolders, Zenon DEF Types
    <3>5. WaiterPlaces' /\ CloserPlaces' /\ UnloadLast'
      BY <1>2, <3>1 DEF Go, Types, WaiterPlaces, CloserPlaces, UnloadLast, Threads
    <3>6. QED
      BY <3>1, <3>3, <3>4, <3>5, Zenon DEF GateStep, Untouched
  <2>3. QED
    BY <2>1, <2>2, Zenon
<1>3. ASSUME NEW a \in {"notify_read", "notify_wait"}, NEW b \in {"attempt", "relock"},
             GiveBack(w, a, b), pc[w] \in LeasePcs, UNCHANGED loaded
      PROVE  GateStep /\ Types' /\ WaiterPlaces' /\ CloserPlaces' /\ UnloadLast'
  <2>1. PICK to \in {a, b} : Go(w, to)
    BY <1>3, Zenon DEF GiveBack
  <2>2. gate' = [gate EXCEPT !.calls = @ - 1]
    BY <1>3, Zenon DEF GiveBack
  <2>3. to \notin LeasePcs
    BY <1>3, Zenon DEF LeasePcs
  <2>4. Returns(w)
    BY <1>0, <1>3, <2>1, <2>2, <2>3, GoHolders, Zenon DEF Types, Returns
  <2>5. Types'
    BY <2>1, <2>2, <2>3, GoHolders DEF Types
  <2>6. WaiterPlaces' /\ CloserPlaces' /\ UnloadLast'
    BY <1>3, <2>1, <2>2 DEF Go, Types, WaiterPlaces, CloserPlaces, UnloadLast, Threads
  <2>7. QED
    BY <2>4, <2>5, <2>6, Zenon DEF GateStep
<1>4. CASE Begin(w)
  BY <1>1, <1>4, Zenon DEF Begin, LeasePcs
<1>5. CASE ReadAdmit(w)
  BY <1>2, <1>5, Zenon DEF ReadAdmit, LeasePcs
<1>6. CASE ReadGeneration(w)
  BY <1>1, <1>6, Zenon DEF ReadGeneration, LeasePcs
<1>7. CASE ReadReturn(w)
  BY <1>3, <1>7, Zenon DEF ReadReturn, LeasePcs
<1>8. CASE ReadNotify(w)
  BY <1>1, <1>8, Zenon DEF ReadNotify, NotifyIdle, LeasePcs
<1>9. CASE Attempt(w)
  BY <1>1, <1>9, Zenon DEF Attempt, LeasePcs
<1>10. CASE Park(w)
  BY <1>1, <1>10, Zenon DEF Park, LeasePcs
<1>11. CASE WaitAdmit(w)
  BY <1>2, <1>11, Zenon DEF WaitAdmit, LeasePcs
<1>12. CASE Wait(w)
  BY <1>1, <1>12, Zenon DEF Wait, LeasePcs
<1>13. CASE WaitReturn(w)
  BY <1>3, <1>13, Zenon DEF WaitReturn, LeasePcs
<1>14. CASE WaitNotify(w)
  BY <1>1, <1>14, Zenon DEF WaitNotify, NotifyIdle, LeasePcs
<1>15. CASE Relock(w)
  BY <1>1, <1>15, Zenon DEF Relock, LeasePcs
<1>16. CASE WaitTimeout(w)
  BY <1>1, <1>16, Zenon DEF WaitTimeout, LeasePcs
<1>17. QED
  BY <1>4, <1>5, <1>6, <1>7, <1>8, <1>9, <1>10, <1>11, <1>12, <1>13, <1>14, <1>15, <1>16, SMTT(30) DEF WaiterNext

(* What the threads that close the lane do to it.                            *)
LEMMA CloserStep ==
  ASSUME GateInv, NEW c \in Closers, CloserNext(c) \/ StopAdmission \/ Unload
  PROVE  GateStep /\ Types' /\ WaiterPlaces' /\ CloserPlaces' /\ UnloadLast'
<1> c \in Threads /\ c \notin Waiters /\ Finalizer \in Threads /\ Finalizer \notin Waiters
  BY ThreadsAssumption, Zenon DEF Threads
<1> USE DEF GateInv
<1>1. ASSUME NEW d \in Closers, NEW to, Go(d, to), gate' = gate,
             to \in LeasePcs <=> pc[d] \in LeasePcs,
             to \in {"claim", "following"} \cup OwnerPcs \cup PastPcs,
             to \in OwnerPcs => pc[d] \in OwnerPcs,
             to \in PastPcs => gate.state = "Detached"
      PROVE  GateStep /\ Types' /\ WaiterPlaces' /\ CloserPlaces'
  <2>1. d \in Threads /\ d \notin Waiters
    BY <1>1, ThreadsAssumption, Zenon DEF Threads
  <2>2. Holders' = Holders
    <3>1. d \in Holders <=> pc[d] \in LeasePcs
      BY <2>1, Zenon DEF Holders, Leased
    <3>2. QED
      BY <1>1, <2>1, <3>1, GoHolders DEF Types
  <2>3. Types'
    BY <1>1, <2>1, GoHolders, Zenon DEF Types
  <2>4. WaiterPlaces' /\ CloserPlaces'
    BY <1>1, <2>1, ZenonT(30) DEF Go, Types, WaiterPlaces, CloserPlaces, Threads
  <2>5. QED
    BY <1>1, <2>2, <2>3, <2>4, Zenon DEF GateStep, Untouched
<1>2. CASE Validate(c)
  <2>1. UnloadLast'
    BY <1>2, Zenon DEF Validate, UnloadLast, Go, Types
  <2>2. QED
    BY <1>1, <1>2, <2>1, Zenon DEF Validate, LeasePcs, OwnerPcs, PastPcs
<1>3. CASE Claim(c)
  <2>1. UnloadLast'
    BY <1>3, Zenon DEF Claim, UnloadLast, Go, Types
  <2>2. CASE gate.state = "Detached"
    BY <1>1, <1>3, <2>1, <2>2, Zenon DEF Claim, LeasePcs, OwnerPcs, PastPcs
  <2>3. CASE gate.state = "Closing"
    BY <1>1, <1>3, <2>1, <2>3, Zenon DEF Claim, LeasePcs, OwnerPcs, PastPcs
  <2>4. CASE gate.state = "Open"
    <3>1. Go(c, "cancel") /\ gate' = [state |-> "Closing", calls |-> gate.calls + 1] /\ pc[c] = "claim"
      BY <1>3, <2>4, Zenon DEF Claim
    <3>2. c \notin Holders
      BY <3>1, Zenon DEF Holders, Leased, LeasePcs
    <3>3. "cancel" \in LeasePcs
      BY Zenon DEF LeasePcs
    <3>4. Holders' = Holders \cup {c}
      BY <3>1, <3>3, GoHolders, Zenon DEF Types
    <3>5. Leases(c)
      BY <2>4, <3>1, <3>2, <3>4, Zenon DEF Leases
    <3>6. Types'
      BY <3>1, GoHolders DEF Types
    <3>7. WaiterPlaces' /\ CloserPlaces'
      BY <2>4, <3>1 DEF Go, Types, WaiterPlaces, CloserPlaces, OwnerPcs, PastPcs, Threads
    <3>8. QED
      BY <2>1, <3>5, <3>6, <3>7, Zenon DEF GateStep
  <2>5. QED
    BY <2>2, <2>3, <2>4, Zenon DEF Types
<1>4. CASE Cancel(c)
  <2>1. UnloadLast'
    BY <1>4, Zenon DEF Cancel, UnloadLast, Go, Types
  <2>2. QED
    BY <1>1, <1>4, <2>1, Zenon DEF Cancel, LeasePcs, OwnerPcs, PastPcs
<1>5. CASE CancelNotify(c)
  <2>1. UnloadLast'
    BY <1>5, Zenon DEF CancelNotify, UnloadLast, Go, Types
  <2>2. QED
    BY <1>1, <1>5, <2>1, Zenon DEF CancelNotify, LeasePcs, OwnerPcs, PastPcs
<1>6. CASE Drain(c)
  <2> DEFINE left == IF pc[c] = "drain" THEN gate.calls - 1 ELSE gate.calls
  <2>1. UnloadLast'
    BY <1>6, Zenon DEF Drain, UnloadLast, Go, Types
  <2>2. pc[c] \in {"drain", "draining"} /\ pc[c] \in OwnerPcs /\ gate.state = "Closing"
    BY <1>6, Zenon DEF Drain, CloserPlaces, OwnerPcs
  <2>3. c \in Holders <=> pc[c] = "drain"
    BY <2>2, Zenon DEF Holders, Leased, LeasePcs
  <2>4. IsFiniteSet(Holders) /\ Cardinality(Holders) \in Nat
    BY HoldersFinite, FS_CardinalityType, Zenon
  <2>5. CASE left = 0
    <3>1. Go(c, "drain_lane") /\ gate' = [state |-> "Detached", calls |-> 0]
      BY <1>6, <2>5, Zenon DEF Drain
    <3>2. Holders' = Holders \ {c}
      BY <3>1, GoHolders DEF Types, LeasePcs
    <3>3. Holders \ {c} = {}
      <4>1. Cardinality(Holders \ {c}) = 0 /\ IsFiniteSet(Holders \ {c})
        BY <2>2, <2>3, <2>4, <2>5, FS_RemoveElement DEF LeaseCount
      <4>2. QED
        BY <4>1, FS_EmptySet, Zenon
    <3>4. Detaches
      BY <2>2, <3>1, <3>2, <3>3, Zenon DEF Detaches
    <3>5. Types'
      BY <3>1, GoHolders DEF Types
    <3>6. WaiterPlaces' /\ CloserPlaces'
      BY <2>2, <3>1 DEF Go, Types, WaiterPlaces, CloserPlaces, OwnerPcs, PastPcs, Threads
    <3>7. QED
      BY <2>1, <3>4, <3>5, <3>6 DEF GateStep
  <2>6. CASE left # 0
    <3>1. Go(c, "draining") /\ gate' = [gate EXCEPT !.calls = left]
      BY <1>6, <2>6, Zenon DEF Drain
    <3>2. Holders' = Holders \ {c}
      BY <3>1, GoHolders DEF Types, LeasePcs
    <3>3. Types'
      BY <3>1, GoHolders DEF Types
    <3>4. WaiterPlaces' /\ CloserPlaces'
      BY <2>2, <3>1 DEF Go, Types, WaiterPlaces, CloserPlaces, OwnerPcs, PastPcs, Threads
    <3>5. CASE pc[c] = "drain"
      <4>1. Returns(c)
        BY <2>3, <3>1, <3>2, <3>5, Zenon DEF Returns, Types
      <4>2. QED
        BY <2>1, <3>3, <3>4, <4>1, Zenon DEF GateStep
    <3>6. CASE pc[c] = "draining"
      <4>1. Untouched
        BY <2>3, <3>1, <3>2, <3>6, Zenon DEF Untouched, Types
      <4>2. QED
        BY <2>1, <3>3, <3>4, <4>1, Zenon DEF GateStep
    <3>7. QED
      BY <2>2, <3>5, <3>6, Zenon
  <2>7. QED
    BY <2>5, <2>6, Zenon
<1>7. CASE Follow(c)
  <2>1. UnloadLast'
    BY <1>7, Zenon DEF Follow, UnloadLast, Go, Types
  <2>2. QED
    BY <1>1, <1>7, <2>1, Zenon DEF Follow, LeasePcs, OwnerPcs, PastPcs
<1>8. CASE DrainLane(c)
  <2>1. UnloadLast'
    BY <1>8, Zenon DEF DrainLane, UnloadLast, Go, Types
  <2>2. gate.state = "Detached" /\ gate' = gate /\ \E to \in {"unload", "done"} : Go(c, to)
    BY <1>8, Zenon DEF DrainLane, CloserPlaces, PastPcs
  <2>3. pc[c] \notin LeasePcs
    BY <1>8, Zenon DEF DrainLane, LeasePcs
  <2>4. QED
    BY <1>1, <2>1, <2>2, <2>3, Zenon DEF LeasePcs, OwnerPcs, PastPcs
<1>9. CASE StopAdmission
  <2>1. UnloadLast'
    BY <1>9, Zenon DEF StopAdmission, UnloadLast, Go, Types
  <2>2. QED
    BY <1>1, <1>9, <2>1, ThreadsAssumption, ZenonT(30) DEF StopAdmission, LeasePcs, OwnerPcs, PastPcs
<1>10. CASE Unload
  <2>1. UnloadLast'
    BY <1>10, Zenon DEF Unload, UnloadLast, Go, Types
  <2>2. gate.state = "Detached"
    BY <1>10, ThreadsAssumption, Zenon DEF Unload, CloserPlaces, PastPcs
  <2>3. QED
    BY <1>1, <1>10, <2>1, <2>2, ThreadsAssumption, Zenon DEF Unload, LeasePcs, OwnerPcs, PastPcs
<1>11. QED
  BY <1>2, <1>3, <1>4, <1>5, <1>6, <1>7, <1>8, <1>9, <1>10 DEF CloserNext

(* GateInv is inductive, and every step is one of GateStep.                  *)
LEMMA GateInvStep == GateInv /\ [Next]_vars => GateInv' /\ GateStep
<1> SUFFICES ASSUME GateInv, [Next]_vars PROVE GateInv' /\ GateStep
  OBVIOUS
<1>1. GateStep /\ Types' /\ WaiterPlaces' /\ CloserPlaces' /\ UnloadLast'
  <2>1. CASE \E w \in Waiters : WaiterNext(w) \/ WaitTimeout(w)
    BY <2>1, WaiterStep, Zenon
  <2>2. CASE \E c \in Closers : CloserNext(c)
    BY <2>2, CloserStep, Zenon
  <2>3. CASE StopAdmission \/ Unload
    BY <2>3, CloserStep, ThreadsAssumption, Zenon
  <2>4. CASE UNCHANGED <<pc, gate, loaded>>
    <3>1. Holders' = Holders
      BY <2>4, Zenon DEF Holders, Leased
    <3>2. QED
      BY <2>4, <3>1, Zenon DEF GateInv, GateStep, Untouched, Types, WaiterPlaces, CloserPlaces, UnloadLast
  <2>5. CASE Release \/ Advance \/ TakenByOther \/ DeadlinePasses \/ UNCHANGED vars
    BY <2>4, <2>5, Zenon DEF Release, Advance, TakenByOther, DeadlinePasses, vars
  <2>6. QED
    BY <2>1, <2>2, <2>3, <2>5, Zenon DEF Next
<1>2. LeaseCount'
  <2>1. IsFiniteSet(Holders) /\ Cardinality(Holders) \in Nat
    BY HoldersFinite, FS_CardinalityType, Zenon
  <2>2. CASE Untouched
    BY <2>2, Zenon DEF GateInv, Untouched, LeaseCount
  <2>3. CASE Detaches
    BY <2>3, FS_EmptySet, Zenon DEF Detaches, LeaseCount
  <2>4. ASSUME NEW t \in Threads, Leases(t) PROVE LeaseCount'
    BY <2>1, <2>4, FS_AddElement, SMTT(30) DEF GateInv, Leases, LeaseCount
  <2>5. ASSUME NEW t \in Threads, Returns(t) PROVE LeaseCount'
    BY <2>1, <2>5, FS_RemoveElement, Zenon DEF GateInv, Returns, LeaseCount
  <2>6. QED
    BY <1>1, <2>2, <2>3, <2>4, <2>5, Zenon DEF GateStep
<1>3. QED
  BY <1>1, <1>2, Zenon DEF GateInv

(* The gate starts open and without leases.                                  *)
LEMMA GateInvInit == Init => GateInv
<1> SUFFICES ASSUME Init PROVE GateInv
  OBVIOUS
<1>1. Holders = {}
  BY Zenon DEF Init, Holders, Leased, LeasePcs
<1>2. Types /\ UnloadLast
  BY DEF Init, Types, UnloadLast
<1>3. WaiterPlaces /\ CloserPlaces
  BY Zenon DEF Init, WaiterPlaces, CloserPlaces, OwnerPcs, PastPcs, Threads
<1>4. LeaseCount
  BY <1>1, FS_EmptySet, Zenon DEF Init, LeaseCount
<1>5. QED
  BY <1>2, <1>3, <1>4, Zenon DEF GateInv

(* finalize unloads the runtime only when no thread can be inside its credit *)
(* entries, for every number of threads that wait and that close.            *)
THEOREM UnloadIsSafe == Spec => []NobodyInUnloadedCode
<1>1. GateInv => NobodyInUnloadedCode
  <2>1. GateInv /\ ~loaded => Holders = {}
    BY ThreadsAssumption, Zenon DEF GateInv, UnloadLast, CloserPlaces, PastPcs, LeaseCount
  <2>2. QED
    BY <2>1, Zenon DEF NobodyInUnloadedCode, Holders
<1>2. QED
  BY <1>1, GateInvInit, GateInvStep, PTL DEF Spec

(* The gate implements LeasedEntries: every step of CreditCall and of        *)
(* close_credit_gate is a lease, a claim, a return, a detachment or none.    *)
THEOREM GateImplementsEntries == Spec => GateLeasesEntries
<1>1. Init => Entries!Init
  BY DEF Init, Entries!Init, Holders, Leased, LeasePcs
<1>2. GateInv /\ GateStep => [Entries!Next]_<<gate.state, Holders>>
  <2> SUFFICES ASSUME GateInv, GateStep PROVE [Entries!Next]_<<gate.state, Holders>>
    OBVIOUS
  <2>1. CASE Untouched
    BY <2>1, Zenon DEF Untouched
  <2>2. CASE Detaches
    BY <2>2, Zenon DEF Detaches, Entries!Next, Entries!Detach, Entries!ReturnAndDetach
  <2>3. ASSUME NEW t \in Threads, Leases(t) PROVE Entries!Next
    BY <2>3, Zenon DEF Leases, Entries!Next, Entries!Lease, Entries!Claim
  <2>4. ASSUME NEW t \in Threads, Returns(t) PROVE Entries!Next
    BY <2>4, Zenon DEF Returns, Entries!Next, Entries!Return
  <2>5. QED
    BY <2>1, <2>2, <2>3, <2>4, Zenon DEF GateStep
<1>3. QED
  BY <1>1, <1>2, GateInvInit, GateInvStep, PTL DEF Spec, GateLeasesEntries, Entries!Spec

-----------------------------------------------------------------------------
(* A generation that was noted before a refused attempt is stale as soon as  *)
(* a release of capacity has advanced: the run's, and every waiter's copy.   *)
SignalTypes ==
    /\ DOMAIN pc = Threads
    /\ signal \in [gen : Nat, cancelled : BOOLEAN]
    /\ seen \in [Waiters -> Nat]
    /\ run \in [phase : {"PREPARED", "LAUNCHED", "TERMINAL"}, gen : Nat, late : BOOLEAN]
Quiet == ~room \/ owed
Noted ==
    /\ run.gen <= signal.gen
    /\ \A w \in Waiters : seen[w] <= signal.gen
    /\ run.gen = signal.gen => Quiet
    /\ \A w \in Waiters : pc[w] \in {"admit", "in_wait", "sleeping"} /\ seen[w] = signal.gen => Quiet
Sleepers == \A w \in Waiters : w \in asleep => pc[w] = "sleeping"
CreditInv == SignalTypes /\ Noted /\ Sleepers

(* A waiter notes the generation before it tries and sleeps only on the one  *)
(* it noted.                                                                 *)
LEMMA WaiterCredit ==
  ASSUME CreditInv, NEW w \in Waiters, WaiterNext(w) \/ WaitTimeout(w)
  PROVE  CreditInv'
<1> w \in Threads /\ Waiters \subseteq Threads
  BY Zenon DEF Threads
<1> USE DEF CreditInv
<1>1. ASSUME NEW to, Go(w, to), to \notin {"admit", "sleeping"}, to = "in_wait" => pc[w] = "admit",
             pc[w] # "sleeping" \/ w \notin asleep',
             asleep' \subseteq asleep, UNCHANGED <<signal, seen, room, owed>>,
             run'.gen = run.gen, run' \in [phase : {"PREPARED", "LAUNCHED", "TERMINAL"}, gen : Nat, late : BOOLEAN]
      PROVE  CreditInv'
  <2>1. SignalTypes'
    BY <1>1, Zenon DEF SignalTypes, Go
  <2>2. Noted'
    BY <1>1, Zenon DEF SignalTypes, Go, Noted, Quiet
  <2>3. Sleepers'
    BY <1>1, Zenon DEF SignalTypes, Go, Sleepers
  <2>4. QED
    BY <2>1, <2>2, <2>3, Zenon
<1>2. CASE Begin(w)
  BY <1>1, <1>2, Zenon DEF Begin, SignalTypes, signalVars
<1>3. CASE ReadAdmit(w)
  <2>1. SignalTypes' /\ Sleepers'
    BY <1>3 DEF ReadAdmit, Admit, SignalTypes, Sleepers, Go, signalVars, laneVars
  <2>2. Noted'
    BY <1>3 DEF ReadAdmit, Admit, SignalTypes, Noted, Quiet, Go, signalVars, laneVars
  <2>3. QED
    BY <2>1, <2>2, Zenon
<1>4. CASE ReadGeneration(w)
  <2>1. SignalTypes' /\ Sleepers'
    BY <1>4, Zenon DEF ReadGeneration, SignalTypes, Sleepers, Go, signalVars, laneVars
  <2>2. Noted'
    BY <1>4 DEF ReadGeneration, SignalTypes, Noted, Quiet, Go, signalVars, laneVars
  <2>3. QED
    BY <2>1, <2>2, Zenon
<1>5. CASE ReadReturn(w)
  BY <1>1, <1>5, Zenon DEF ReadReturn, GiveBack, SignalTypes, signalVars, laneVars
<1>6. CASE ReadNotify(w)
  BY <1>1, <1>6, Zenon DEF ReadNotify, NotifyIdle, SignalTypes, signalVars, laneVars
<1>7. CASE Attempt(w)
  <2>1. SignalTypes' /\ Sleepers'
    <3>1. seen[w] \in Nat /\ run.phase \in {"PREPARED", "LAUNCHED", "TERMINAL"}
      BY Zenon DEF SignalTypes
    <3>2. run' \in [phase : {"PREPARED", "LAUNCHED", "TERMINAL"}, gen : Nat, late : BOOLEAN]
      <4>1. CASE room
        BY <1>7, <4>1 DEF Attempt, SignalTypes
      <4>2. CASE ~room
        BY <1>7, <3>1, <4>2, ZenonT(30) DEF Attempt, SignalTypes
      <4>3. QED
        BY <4>1, <4>2, Zenon
    <3>3. PICK to : Go(w, to)
      BY <1>7, Zenon DEF Attempt
    <3>4. pc[w] # "sleeping" /\ asleep' = asleep /\ UNCHANGED <<signal, seen>>
      BY <1>7, Zenon DEF Attempt
    <3>5. QED
      BY <3>2, <3>3, <3>4, Zenon DEF SignalTypes, Sleepers, Go
  <2>2. ~room'
    BY <1>7, Zenon DEF Attempt
  <2>3. Noted'
    BY <1>7, <2>2, ZenonT(30) DEF Attempt, SignalTypes, Noted, Quiet, Go
  <2>4. QED
    BY <2>1, <2>3, Zenon
<1>8. CASE Park(w)
  <2>1. SignalTypes' /\ Sleepers'
    BY <1>8, Zenon DEF Park, SignalTypes, Sleepers, Go, signalVars, laneVars
  <2>2. Noted'
    BY <1>8, Zenon DEF Park, SignalTypes, Noted, Quiet, Go, signalVars, laneVars
  <2>3. QED
    BY <2>1, <2>2, Zenon
<1>9. CASE WaitAdmit(w)
  BY <1>1, <1>9, Zenon DEF WaitAdmit, Admit, SignalTypes, signalVars, laneVars
<1>10. CASE Wait(w)
  <2>1. SignalTypes' /\ Sleepers'
    BY <1>10 DEF Wait, SignalTypes, Sleepers, Go, signalVars, laneVars
  <2>2. Noted'
    BY <1>10, Zenon DEF Wait, SignalTypes, Noted, Quiet, Go, signalVars, laneVars
  <2>3. QED
    BY <2>1, <2>2, Zenon
<1>11. CASE WaitTimeout(w)
  BY <1>1, <1>11, Zenon DEF WaitTimeout, SignalTypes, signalVars, laneVars
<1>12. CASE WaitReturn(w)
  BY <1>1, <1>12, Zenon DEF WaitReturn, GiveBack, SignalTypes, signalVars, laneVars
<1>13. CASE WaitNotify(w)
  BY <1>1, <1>13, Zenon DEF WaitNotify, NotifyIdle, SignalTypes, signalVars, laneVars
<1>14. CASE Relock(w)
  BY <1>1, <1>14, Zenon DEF Relock, SignalTypes, signalVars
<1>15. QED
  BY <1>2, <1>3, <1>4, <1>5, <1>6, <1>7, <1>8, <1>9, <1>10, <1>11, <1>12, <1>13, <1>14, SMTT(30) DEF WaiterNext

(* Nobody else gives a waiter a generation, and Advance makes the noted ones *)
(* stale.                                                                    *)
LEMMA OtherCredit ==
  ASSUME CreditInv,
         \/ \E c \in Closers : CloserNext(c)
         \/ StopAdmission \/ Unload \/ Release \/ Advance \/ TakenByOther \/ DeadlinePasses
         \/ UNCHANGED vars
  PROVE  CreditInv'
<1> USE DEF CreditInv
<1>1. ASSUME NEW c \in Closers, NEW to, Go(c, to), asleep' \cap Waiters \subseteq asleep,
             seen' = seen, run'.gen = run.gen,
             run' \in [phase : {"PREPARED", "LAUNCHED", "TERMINAL"}, gen : Nat, late : BOOLEAN],
             \/ signal' = signal
             \/ signal' \in [gen : Nat, cancelled : BOOLEAN] /\ signal'.gen = signal.gen + 1,
             owed' = owed, room' => room
      PROVE  CreditInv'
  <2>1. c \in Threads /\ c \notin Waiters /\ Waiters \subseteq Threads
    BY <1>1, ThreadsAssumption, Zenon DEF Threads
  <2>2. SignalTypes' /\ Sleepers'
    BY <1>1, <2>1, Zenon DEF SignalTypes, Sleepers, Go
  <2>3. Noted'
    BY <1>1, <2>1 DEF SignalTypes, Noted, Quiet, Go
  <2>4. QED
    BY <2>2, <2>3, Zenon
<1>2. ASSUME NEW c \in Closers, CloserNext(c) PROVE CreditInv'
  <2>1. CASE Validate(c) \/ Claim(c) \/ CancelNotify(c) \/ Drain(c) \/ Follow(c)
    <3>1. UNCHANGED <<seen, run, signal, room, owed>>
      BY <2>1, Zenon DEF Validate, Claim, CancelNotify, Drain, Follow, laneVars, signalVars
    <3>2. asleep' \cap Waiters \subseteq asleep
      BY <1>2, <2>1, ThreadsAssumption, Zenon DEF Validate, Claim, CancelNotify, Drain, Follow
    <3>3. PICK to : Go(c, to)
      BY <2>1, Zenon DEF Validate, Claim, CancelNotify, Drain, Follow
    <3>4. QED
      BY <1>1, <1>2, <3>1, <3>2, <3>3, Zenon DEF SignalTypes
  <2>2. CASE Cancel(c)
    BY <1>1, <1>2, <2>2 DEF Cancel, SignalTypes, laneVars
  <2>3. CASE DrainLane(c)
    <3>1. room' => room
      BY <2>3, Zenon DEF DrainLane
    <3>2. run'.gen = run.gen /\ run' \in [phase : {"PREPARED", "LAUNCHED", "TERMINAL"}, gen : Nat, late : BOOLEAN]
      BY <2>3, Zenon DEF DrainLane, SignalTypes
    <3>3. UNCHANGED <<asleep, seen, signal, owed>>
      BY <2>3, Zenon DEF DrainLane
    <3>4. PICK to : Go(c, to)
      BY <2>3, Zenon DEF DrainLane
    <3>5. QED
      BY <1>1, <1>2, <3>1, <3>2, <3>3, <3>4, Zenon
  <2>4. QED
    BY <1>2, <2>1, <2>2, <2>3, Zenon DEF CloserNext
<1>3. CASE StopAdmission
  BY <1>1, <1>3, ThreadsAssumption, Zenon DEF StopAdmission, SignalTypes, signalVars
<1>4. CASE Unload
  BY <1>1, <1>4, ThreadsAssumption, Zenon DEF Unload, SignalTypes, laneVars, signalVars
<1>5. CASE Release
  BY <1>5, Zenon DEF Release, laneVars, SignalTypes, Noted, Quiet, Sleepers
<1>6. CASE Advance
  BY <1>6 DEF Advance, laneVars, SignalTypes, Noted, Quiet, Sleepers
<1>7. CASE TakenByOther
  BY <1>7, Zenon DEF TakenByOther, laneVars, SignalTypes, Noted, Quiet, Sleepers
<1>8. CASE DeadlinePasses
  BY <1>8, Zenon DEF DeadlinePasses, signalVars, SignalTypes, Noted, Quiet, Sleepers
<1>9. CASE UNCHANGED vars
  BY <1>9, Zenon DEF vars, laneVars, signalVars, SignalTypes, Noted, Quiet, Sleepers
<1>10. QED
  BY <1>2, <1>3, <1>4, <1>5, <1>6, <1>7, <1>8, <1>9

(* No waiter sleeps through a release of capacity, for every number of       *)
(* waiters, releases and closes: reading the generation before the attempt   *)
(* closes the window.                                                        *)
THEOREM NoLostCredit == Spec => []NoSleepOverCredit
<1>1. Init => CreditInv
  BY DEF Init, CreditInv, SignalTypes, Noted, Quiet, Sleepers, Threads
<1>2. CreditInv /\ [Next]_vars => CreditInv'
  BY WaiterCredit, OtherCredit, Zenon DEF Next
<1>3. CreditInv => NoSleepOverCredit
  BY Zenon DEF CreditInv, Noted, Quiet, Sleepers, NoSleepOverCredit
<1>4. QED
  BY <1>1, <1>2, <1>3, PTL DEF Spec
=============================================================================
