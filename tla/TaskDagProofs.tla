--------------------------- MODULE TaskDagProofs ---------------------------
(***************************************************************************)
(* Proofs about TaskDag, for every number of slots, scope depth and number *)
(* of injected exceptions, with and without the scoped-reads discipline.   *)
(***************************************************************************)
EXTENDS TaskDag, FiniteSetTheorems, TLAPS

(* The initial state is well typed.                                          *)
LEMMA InitTypeOK == Init => TypeOK
<1> SUFFICES ASSUME Init PROVE TypeOK
  OBVIOUS
<1>1. FlagTypes
  BY Zenon DEF Init, FlagTypes
<1>2. WordTypes
  BY Zenon DEF Init, WordTypes, TaskStates
<1>3. CounterTypes
  BY Zenon DEF Init, CounterTypes
<1>4. IndexTypes
  BY NAssumption, DepthAssumption, ThrowsAssumption DEF Init, IndexTypes, None
<1>5. SetTypes
  BY Zenon DEF Init, SetTypes
<1>6. ThreadTypes
  BY NAssumption, Zenon DEF Init, ThreadTypes, StepKinds, Idle, None
<1>7. WorkTypes
  BY Zenon DEF Init, WorkTypes, NoWork
<1>8. QED
  BY <1>1, <1>2, <1>3, <1>4, <1>5, <1>6, <1>7, Zenon DEF TypeOK

(* The calls of the callback keep the types.                                 *)
LEMMA CallbackTypeOK == TypeOK /\ Callback => TypeOK'
<1> SUFFICES ASSUME TypeOK, Callback PROVE TypeOK'
  OBVIOUS
<1> USE NAssumption, DepthAssumption, ThrowsAssumption DEF TypeOK
<1> USE DEF slotVars, queueVars, runVars, scopeVars, submitVars, releaseVars, orchVars, schedVars
<1>1. CASE ScopeBegin
  <2>1. IndexTypes'
    BY <1>1 DEF ScopeBegin, ScopeRoom, None, IndexTypes
  <2>2. SetTypes'
    BY <1>1, Zenon DEF ScopeBegin, ScopeRoom, SetTypes, IndexTypes
  <2>3. QED
    BY <1>1, <2>1, <2>2 DEF ScopeBegin, FlagTypes, WordTypes, CounterTypes, ThreadTypes, WorkTypes
<1>2. CASE Alloc
  <2>1. WordTypes'
    BY <1>2, Zenon DEF Alloc, WordTypes, TaskStates
  <2>2. CounterTypes'
    <3>1. fanoutTotal' \in [Slots -> Nat] /\ fanoutReleased' \in [Slots -> Nat]
      BY <1>2, Zenon DEF Alloc, CounterTypes, ScopeRef
    <3>2. activeTasks' \in Nat
      BY <1>2 DEF Alloc, CounterTypes
    <3>3. QED
      BY <1>2, <3>1, <3>2, Zenon DEF Alloc, CounterTypes
  <2>3. IndexTypes'
    BY <1>2 DEF Alloc, ScopeRef, None, IndexTypes, CallbackRunning, Slots
  <2>4. SetTypes'
    <3>1. used + 1 \in Slots
      BY <1>2 DEF Alloc, IndexTypes, Slots
    <3>2. frame' \in [1 .. MaxDepth -> SUBSET Slots]
      BY <1>2, <3>1, Zenon DEF Alloc, SetTypes
    <3>3. QED
      BY <1>2, <3>2, Zenon DEF Alloc, SetTypes
  <2>5. QED
    BY <1>2, <2>1, <2>2, <2>3, <2>4 DEF Alloc, FlagTypes, ThreadTypes, WorkTypes
<1>3. ASSUME NEW reached \in {"unregistered", "unscoped", "uncharged"}, BuildThrow(reached)
      PROVE  TypeOK'
  <2>1. FlagTypes'
    BY <1>3, Zenon DEF BuildThrow, FlagTypes
  <2>2. WordTypes'
    BY <1>3, Zenon DEF BuildThrow, WordTypes, TaskStates
  <2>3. CounterTypes'
    BY <1>3 DEF BuildThrow, CountsTask, MayThrow, CounterTypes, ThreadTypes
  <2>4. IndexTypes'
    BY <1>3 DEF BuildThrow, CountsTask, MayThrow, None, IndexTypes, CallbackRunning, Slots
  <2>5. SetTypes'
    <3>1. used + 1 \in Slots
      BY <1>3 DEF BuildThrow, IndexTypes, Slots
    <3>2. frame' \in [1 .. MaxDepth -> SUBSET Slots]
      BY <1>3, <3>1, Zenon DEF BuildThrow, SetTypes
    <3>3. QED
      BY <1>3, <3>2, Zenon DEF BuildThrow, SetTypes
  <2>6. QED
    BY <1>3, <2>1, <2>2, <2>3, <2>4, <2>5, Zenon DEF BuildThrow, ThreadTypes, WorkTypes
<1>4. ASSUME NEW D \in SUBSET Slots, NEW R \in SUBSET D, SubmitBegin(D, R)
      PROVE  TypeOK'
  <2>1. FlagTypes'
    BY <1>4, Zenon DEF SubmitBegin, FlagTypes
  <2>2. WordTypes'
    BY <1>4, Zenon DEF SubmitBegin, WordTypes, TaskStates
  <2>3. CounterTypes'
    <3>1. fanoutTotal' \in [Slots -> Nat]
      BY <1>4, Zenon DEF SubmitBegin, CounterTypes, ScopeRef
    <3>2. activeTasks' \in Nat /\ live' \in Nat
      BY <1>4 DEF SubmitBegin, CounterTypes
    <3>3. QED
      BY <1>4, <3>1, <3>2, Zenon DEF SubmitBegin, CounterTypes
  <2>4. IndexTypes'
    BY <1>4 DEF SubmitBegin, ScopeRef, None, IndexTypes, CallbackRunning, Slots
  <2>5. SetTypes'
    <3>1. used + 1 \in Slots
      BY <1>4 DEF SubmitBegin, IndexTypes, Slots
    <3>2. frame' \in [1 .. MaxDepth -> SUBSET Slots]
      BY <1>4, <3>1, Zenon DEF SubmitBegin, SetTypes
    <3>3. QED
      BY <1>4, <3>2, Zenon DEF SubmitBegin, SetTypes
  <2>6. QED
    BY <1>4, <2>1, <2>2, <2>3, <2>4, <2>5, Zenon DEF SubmitBegin, ThreadTypes, WorkTypes
<1>5. QED
  BY <1>1, <1>2, <1>3, <1>4, Zenon DEF Callback

(* The orch thread's further steps keep the types.                           *)
LEMMA OrchTypeOK == TypeOK /\ Orch => TypeOK'
<1> SUFFICES ASSUME TypeOK, Orch PROVE TypeOK'
  OBVIOUS
<1> USE NAssumption, DepthAssumption, ThrowsAssumption DEF TypeOK
<1> USE DEF slotVars, queueVars, runVars, scopeVars, submitVars, releaseVars, orchVars, schedVars
<1>1. CASE ScopeEnd
  <2>1. WordTypes'
    BY <1>1, Zenon DEF ScopeEnd, WordTypes, TaskStates
  <2>2. IndexTypes'
    BY <1>1 DEF ScopeEnd, None, IndexTypes
  <2>3. SetTypes'
    BY <1>1 DEF ScopeEnd, SetTypes, IndexTypes
  <2>4. QED
    BY <1>1, <2>1, <2>2, <2>3 DEF ScopeEnd, FlagTypes, CounterTypes, ThreadTypes, WorkTypes
<1>2. ASSUME NEW p \in Slots, Wire(p)
      PROVE  TypeOK'
  <2>1. FlagTypes'
    BY <1>2, Zenon DEF Wire, Retains, TakesEdge, LiveFanin, FlagTypes
  <2>2. CounterTypes'
    BY <1>2 DEF Wire, Retains, TakesEdge, LiveFanin, CounterTypes, ThreadTypes
  <2>3. SetTypes'
    BY <1>2 DEF Wire, Retains, TakesEdge, LiveFanin, SetTypes, IndexTypes
  <2>4. QED
    BY <1>2, <2>1, <2>2, <2>3, Zenon DEF Wire, WordTypes, IndexTypes, ThreadTypes, WorkTypes
<1>3. CASE SubmitThrow
  <2>1. FlagTypes'
    BY <1>3, Zenon DEF SubmitThrow, MayThrow, FlagTypes
  <2>2. WordTypes'
    BY <1>3, Zenon DEF SubmitThrow, MayThrow, WordTypes, TaskStates
  <2>3. CounterTypes'
    BY <1>3, Zenon DEF SubmitThrow, MayThrow, CounterTypes, ThreadTypes
  <2>4. IndexTypes'
    BY <1>3 DEF SubmitThrow, None, MayThrow, IndexTypes
  <2>5. SetTypes'
    BY <1>3, Zenon DEF SubmitThrow, MayThrow, SetTypes, IndexTypes
  <2>6. QED
    BY <1>3, <2>1, <2>2, <2>3, <2>4, <2>5, Zenon DEF SubmitThrow, ThreadTypes, WorkTypes
<1>4. CASE Publish
  <2>1. FlagTypes'
    BY <1>4, Zenon DEF Publish, PublishedState, FlagTypes
  <2>2. WordTypes'
    BY <1>4, Zenon DEF Publish, PublishedState, WordTypes, TaskStates
  <2>3. CounterTypes'
    <3>1. faninCount' \in [Slots -> Nat]
      BY <1>4, Zenon DEF Publish, CounterTypes
    <3>2. pendingAccepts' \in Nat /\ live' \in Nat
      BY <1>4 DEF Publish, CounterTypes
    <3>3. QED
      BY <1>4, <3>1, <3>2, Zenon DEF Publish, CounterTypes
  <2>4. IndexTypes'
    BY <1>4 DEF Publish, None, PublishedState, IndexTypes
  <2>5. SetTypes'
    BY <1>4, Zenon DEF Publish, PublishedState, SetTypes, IndexTypes
  <2>6. ThreadTypes'
    BY <1>4 DEF Publish, Idle, None, Step, PublishedState, ThreadTypes, StepKinds, IndexTypes
  <2>7. QED
    BY <1>4, <2>1, <2>2, <2>3, <2>4, <2>5, <2>6, Zenon DEF Publish, WorkTypes
<1>5. ASSUME NEW raised \in BOOLEAN, PoisonSubmit(raised)
      PROVE  TypeOK'
  <2>1. FlagTypes'
    BY <1>5, Zenon DEF PoisonSubmit, MayThrow, FlagTypes
  <2>2. WordTypes'
    BY <1>5, Zenon DEF PoisonSubmit, MayThrow, WordTypes, TaskStates
  <2>3. CounterTypes'
    BY <1>5, Zenon DEF PoisonSubmit, MayThrow, CounterTypes, ThreadTypes
  <2>4. IndexTypes'
    BY <1>5 DEF PoisonSubmit, None, MayThrow, IndexTypes
  <2>5. SetTypes'
    <3>1. oself' \in SUBSET Slots
      BY <1>5, Zenon DEF PoisonSubmit, IndexTypes
    <3>2. orefs' \in SUBSET (Slots \X Slots)
      BY <1>5, Zenon DEF PoisonSubmit, IndexTypes, SetTypes
    <3>3. keep' \in SUBSET Slots
      BY <1>5, Zenon DEF PoisonSubmit
    <3>4. QED
      BY <1>5, <3>1, <3>2, <3>3, Zenon DEF PoisonSubmit, SetTypes
  <2>6. QED
    BY <1>5, <2>1, <2>2, <2>3, <2>4, <2>5, Zenon DEF PoisonSubmit, ThreadTypes, WorkTypes
<1>6. CASE OrchEnqueue
  <2>1. CounterTypes'
    BY <1>6 DEF OrchEnqueue, Idle, None, EnqueueReady, CounterTypes, ThreadTypes
  <2>2. ThreadTypes'
    BY <1>6, Zenon DEF OrchEnqueue, Idle, None, EnqueueReady, ThreadTypes, StepKinds, IndexTypes
  <2>3. QED
    BY <1>6, <2>1, <2>2, SMTT(30) DEF OrchEnqueue, EnqueueReady, FlagTypes, WordTypes, IndexTypes, SetTypes, WorkTypes
<1>7. CASE OrchRetire
  <2>1. FlagTypes'
    BY <1>7, Zenon DEF OrchRetire, OnConsumed, FinishRunIfReady, FlagTypes
  <2>2. WordTypes'
    BY <1>7, Zenon DEF OrchRetire, OnConsumed, FinishRunIfReady, WordTypes, TaskStates
  <2>3. CounterTypes'
    BY <1>7 DEF OrchRetire, OnConsumed, FinishRunIfReady, CounterTypes, ThreadTypes
  <2>4. ThreadTypes'
    BY <1>7, Zenon DEF OrchRetire, Idle, None, OnConsumed, FinishRunIfReady, ThreadTypes, StepKinds, IndexTypes
  <2>5. QED
    BY <1>7, <2>1, <2>2, <2>3, <2>4, Zenon DEF OrchRetire, OnConsumed, FinishRunIfReady, IndexTypes, SetTypes, WorkTypes
<1>8. ASSUME NEW s \in Slots, OrchReleaseSelf(s)
      PROVE  TypeOK'
  <2>1. CounterTypes'
    BY <1>8 DEF OrchReleaseSelf, TryConsume, CounterTypes, ThreadTypes
  <2>2. SetTypes'
    BY <1>8, Zenon DEF OrchReleaseSelf, TryConsume, SetTypes, IndexTypes
  <2>3. ThreadTypes'
    BY <1>8, Zenon DEF OrchReleaseSelf, Idle, None, TryConsume, AfterConsume, Step, ThreadTypes, StepKinds, IndexTypes
  <2>4. QED
    BY <1>8, <2>1, <2>2, <2>3, SMTT(30) DEF OrchReleaseSelf, TryConsume, FlagTypes, WordTypes, IndexTypes, WorkTypes
<1>9. ASSUME NEW c \in Slots, NEW p \in Slots, OrchReleaseRef(c, p)
      PROVE  TypeOK'
  <2>1. CounterTypes'
    BY <1>9 DEF OrchReleaseRef, TryConsume, CounterTypes, ThreadTypes
  <2>2. SetTypes'
    BY <1>9, Zenon DEF OrchReleaseRef, TryConsume, SetTypes, IndexTypes
  <2>3. ThreadTypes'
    BY <1>9, Zenon DEF OrchReleaseRef, Idle, None, TryConsume, AfterConsume, Step, ThreadTypes, StepKinds, IndexTypes
  <2>4. QED
    BY <1>9, <2>1, <2>2, <2>3, SMTT(30) DEF OrchReleaseRef, TryConsume, FlagTypes, WordTypes, IndexTypes, WorkTypes
<1>10. CASE OrchReleased
  <2>1. WordTypes'
    BY <1>10, Zenon DEF OrchReleased, FinishRunIfReady, WordTypes, TaskStates
  <2>2. CounterTypes'
    BY <1>10 DEF OrchReleased, FinishRunIfReady, CounterTypes, ThreadTypes
  <2>3. QED
    BY <1>10, <2>1, <2>2 DEF OrchReleased, FinishRunIfReady, FlagTypes, IndexTypes, SetTypes, ThreadTypes, WorkTypes
<1>11. CASE CloseRunSubmission
  <2>1. FlagTypes'
    BY <1>11, Zenon DEF CloseRunSubmission, FinishRunIfReady, FlagTypes
  <2>2. WordTypes'
    BY <1>11, Zenon DEF CloseRunSubmission, FinishRunIfReady, WordTypes, TaskStates
  <2>3. CounterTypes'
    <3>1. CASE FenceReached(TRUE, activeTasks)
      BY <1>11, <3>1 DEF CloseRunSubmission, FinishRunIfReady, CounterTypes
    <3>2. CASE ~FenceReached(TRUE, activeTasks)
      BY <1>11, <3>2, Zenon DEF CloseRunSubmission, FinishRunIfReady, CounterTypes
    <3>3. QED
      BY <3>1, <3>2, Zenon
  <2>4. QED
    BY <1>11, <2>1, <2>2, <2>3, Zenon DEF CloseRunSubmission, FinishRunIfReady, IndexTypes, SetTypes, ThreadTypes, WorkTypes
<1>12. CASE FailRunSubmission
  <2>1. FlagTypes'
    BY <1>12, Zenon DEF FailRunSubmission, FlagTypes
  <2>2. WordTypes'
    BY <1>12, Zenon DEF FailRunSubmission, WordTypes, TaskStates
  <2>3. SetTypes'
    <3>1. 1 .. used \subseteq Slots
      BY DEF IndexTypes, Slots
    <3>2. QED
      BY <1>12, <3>1, Zenon DEF FailRunSubmission, SetTypes
  <2>4. QED
    BY <1>12, <2>1, <2>2, <2>3, Zenon DEF FailRunSubmission, CounterTypes, IndexTypes, ThreadTypes, WorkTypes
<1>13. ASSUME NEW s \in Slots, CancelClaim(s)
      PROVE  TypeOK'
  <2>1. FlagTypes'
    BY <1>13, Zenon DEF CancelClaim, CancelOwns, FlagTypes
  <2>2. WordTypes'
    BY <1>13, Zenon DEF CancelClaim, CancelOwns, WordTypes, TaskStates
  <2>3. SetTypes'
    BY <1>13, Zenon DEF CancelClaim, CancelOwns, SetTypes, IndexTypes
  <2>4. QED
    BY <1>13, <2>1, <2>2, <2>3, Zenon DEF CancelClaim, CounterTypes, IndexTypes, ThreadTypes, WorkTypes
<1>14. CASE CancelThrow
  <2>1. IndexTypes'
    BY <1>14 DEF CancelThrow, MayThrow, IndexTypes
  <2>2. SetTypes'
    <3>1. 1 .. used \subseteq Slots
      BY DEF IndexTypes, Slots
    <3>2. QED
      BY <1>14, <3>1, Zenon DEF CancelThrow, SetTypes
  <2>3. QED
    BY <1>14, <2>1, <2>2 DEF CancelThrow, FlagTypes, WordTypes, CounterTypes, ThreadTypes, WorkTypes
<1>15. CASE CancelCommit
  <2>1. FlagTypes'
    BY <1>15, Zenon DEF CancelCommit, FlagTypes
  <2>2. WordTypes'
    BY <1>15, Zenon DEF CancelCommit, WordTypes, TaskStates
  <2>3. SetTypes'
    BY <1>15, Zenon DEF CancelCommit, SetTypes, IndexTypes
  <2>4. QED
    BY <1>15, <2>1, <2>2, <2>3, Zenon DEF CancelCommit, CounterTypes, IndexTypes, ThreadTypes, WorkTypes
<1>16. QED
  BY <1>1, <1>2, <1>3, <1>4, <1>5, <1>6, <1>7, <1>8, <1>9, <1>10, <1>11, <1>12, <1>13, <1>14, <1>15, Zenon DEF Orch

(* The Scheduler's steps keep the types.                                     *)
LEMMA SchedTypeOK == TypeOK /\ Sched => TypeOK'
<1> SUFFICES ASSUME TypeOK, Sched PROVE TypeOK'
  BY SMTT(30)
<1> USE NAssumption, DepthAssumption, ThrowsAssumption DEF TypeOK
<1> USE DEF slotVars, queueVars, runVars, scopeVars, submitVars, releaseVars, orchVars, schedVars
<1>1. ASSUME NEW s \in Slots, PopReady(s)
      PROVE  TypeOK'
  <2>1. CounterTypes'
    BY <1>1 DEF PopReady, CounterTypes, ThreadTypes
  <2>2. ThreadTypes'
    BY <1>1, Zenon DEF PopReady, Idle, None, Step, ThreadTypes, StepKinds, IndexTypes
  <2>3. QED
    BY <1>1, <2>1, <2>2 DEF PopReady, FlagTypes, WordTypes, IndexTypes, SetTypes, WorkTypes
<1>2. CASE Dispatch
  <2>1. WordTypes'
    BY <1>2, Zenon DEF Dispatch, ClaimForDispatch, WordTypes, TaskStates
  <2>2. ThreadTypes'
    BY <1>2, Zenon DEF Dispatch, Idle, None, ClaimForDispatch, ThreadTypes, StepKinds, IndexTypes
  <2>3. QED
    BY <1>2, <2>1, <2>2, Zenon DEF Dispatch, ClaimForDispatch, FlagTypes, CounterTypes, IndexTypes, SetTypes, WorkTypes
<1>3. ASSUME NEW s \in Slots, OnTaskComplete(s)
      PROVE  TypeOK'
  <2>1. WordTypes'
    BY <1>3, Zenon DEF OnTaskComplete, WordTypes, TaskStates
  <2>2. WorkTypes'
    BY <1>3 DEF OnTaskComplete, WorkTypes, SetTypes, ThreadTypes
  <2>3. QED
    BY <1>3, <2>1, <2>2, ZenonT(30) DEF OnTaskComplete, FlagTypes, CounterTypes, IndexTypes, SetTypes, ThreadTypes
<1>4. ASSUME NEW s \in Slots, NEW c \in Slots, ReleaseConsumer(s, c)
      PROVE  TypeOK'
  <2>1. CounterTypes'
    BY <1>4 DEF ReleaseConsumer, CounterTypes, ThreadTypes
  <2>2. ThreadTypes'
    BY <1>4, Zenon DEF ReleaseConsumer, Idle, None, Step, ThreadTypes, StepKinds, IndexTypes
  <2>3. WorkTypes'
    <3>1. [work EXCEPT ![s].cons = @ \ {c}] \in [Slots -> [cons : SUBSET Slots, self : BOOLEAN, prods : SUBSET Slots, bad : BOOLEAN]]
      BY SMTT(30) DEF WorkTypes
    <3>2. QED
      BY <1>4, <3>1, Zenon DEF ReleaseConsumer, WorkTypes
  <2>4. QED
    BY <1>4, <2>1, <2>2, <2>3 DEF ReleaseConsumer, FlagTypes, WordTypes, IndexTypes, SetTypes
<1>5. CASE TryMarkReady
  <2>1. WordTypes'
    BY <1>5, Zenon DEF TryMarkReady, WordTypes, TaskStates
  <2>2. ThreadTypes'
    BY <1>5, SMTT(30) DEF TryMarkReady, Idle, None, Step, ThreadTypes, StepKinds, IndexTypes
  <2>3. QED
    BY <1>5, <2>1, <2>2 DEF TryMarkReady, FlagTypes, CounterTypes, IndexTypes, SetTypes, WorkTypes
<1>6. CASE SchedEnqueue
  <2>1. CounterTypes'
    BY <1>6 DEF SchedEnqueue, Idle, None, EnqueueReady, CounterTypes, ThreadTypes
  <2>2. ThreadTypes'
    BY <1>6, Zenon DEF SchedEnqueue, Idle, None, EnqueueReady, ThreadTypes, StepKinds, IndexTypes
  <2>3. QED
    BY <1>6, <2>1, <2>2, SMTT(30) DEF SchedEnqueue, EnqueueReady, FlagTypes, WordTypes, IndexTypes, SetTypes, WorkTypes
<1>7. ASSUME NEW s \in Slots, NEW c \in Slots, PoisonTask(s, c)
      PROVE  TypeOK'
  <2>1. FlagTypes'
    BY <1>7, Zenon DEF PoisonTask, OwesPropagation, FlagTypes
  <2>2. WordTypes'
    BY <1>7, Zenon DEF PoisonTask, OwesPropagation, WordTypes, TaskStates
  <2>3. ThreadTypes'
    BY <1>7, Zenon DEF PoisonTask, Idle, None, Step, OwesPropagation, ThreadTypes, StepKinds, IndexTypes
  <2>4. WorkTypes'
    <3>1. [work EXCEPT ![s].cons = @ \ {c}] \in [Slots -> [cons : SUBSET Slots, self : BOOLEAN, prods : SUBSET Slots, bad : BOOLEAN]]
      BY SMTT(30) DEF WorkTypes
    <3>2. QED
      BY <1>7, <3>1, Zenon DEF PoisonTask, WorkTypes
  <2>5. QED
    BY <1>7, <2>1, <2>2, <2>3, <2>4, Zenon DEF PoisonTask, CounterTypes, IndexTypes, SetTypes
<1>8. CASE PoisonSnapshot
  <2>1. ThreadTypes'
    BY <1>8, Zenon DEF PoisonSnapshot, Idle, None, ThreadTypes, StepKinds, IndexTypes
  <2>2. WorkTypes'
    BY <1>8, ZenonT(30) DEF PoisonSnapshot, WorkTypes, SetTypes, ThreadTypes
  <2>3. QED
    BY <1>8, <2>1, <2>2, SMTT(30) DEF PoisonSnapshot, FlagTypes, WordTypes, CounterTypes, IndexTypes, SetTypes
<1>9. ASSUME NEW s \in Slots, SchedReleaseSelf(s)
      PROVE  TypeOK'
  <2>1. CounterTypes'
    BY <1>9 DEF SchedReleaseSelf, TryConsume, CounterTypes, ThreadTypes
  <2>2. ThreadTypes'
    BY <1>9, Zenon DEF SchedReleaseSelf, Idle, None, TryConsume, AfterConsume, Step, ThreadTypes, StepKinds, IndexTypes
  <2>3. WorkTypes'
    <3> DEFINE F == [cons : SUBSET Slots, self : BOOLEAN, prods : SUBSET Slots, bad : BOOLEAN]
    <3>0. work[s] \in F
      BY Zenon DEF WorkTypes
    <3>1. [work[s] EXCEPT !.self = FALSE] \in F
      BY <3>0, Zenon
    <3>2. QED
      BY <1>9, <3>1, Zenon DEF SchedReleaseSelf, WorkTypes
  <2>4. QED
    BY <1>9, <2>1, <2>2, <2>3 DEF SchedReleaseSelf, TryConsume, FlagTypes, WordTypes, IndexTypes, SetTypes
<1>10. ASSUME NEW s \in Slots, NEW p \in Slots, SchedReleaseRef(s, p)
      PROVE  TypeOK'
  <2>1. CounterTypes'
    BY <1>10 DEF SchedReleaseRef, TryConsume, CounterTypes, ThreadTypes
  <2>2. ThreadTypes'
    BY <1>10, Zenon DEF SchedReleaseRef, Idle, None, TryConsume, AfterConsume, Step, ThreadTypes, StepKinds, IndexTypes
  <2>3. WorkTypes'
    BY <1>10 DEF SchedReleaseRef, TryConsume, WorkTypes, SetTypes, ThreadTypes
  <2>4. QED
    BY <1>10, <2>1, <2>2, <2>3 DEF SchedReleaseRef, TryConsume, FlagTypes, WordTypes, IndexTypes, SetTypes
<1>11. CASE SchedRetire
  <2>1. FlagTypes'
    BY <1>11, Zenon DEF SchedRetire, OnConsumed, FinishRunIfReady, FlagTypes
  <2>2. WordTypes'
    BY <1>11, Zenon DEF SchedRetire, OnConsumed, FinishRunIfReady, WordTypes, TaskStates
  <2>3. CounterTypes'
    BY <1>11 DEF SchedRetire, OnConsumed, FinishRunIfReady, CounterTypes, ThreadTypes
  <2>4. ThreadTypes'
    BY <1>11, Zenon DEF SchedRetire, Idle, None, OnConsumed, FinishRunIfReady, ThreadTypes, StepKinds, IndexTypes
  <2>5. QED
    BY <1>11, <2>1, <2>2, <2>3, <2>4, Zenon DEF SchedRetire, OnConsumed, FinishRunIfReady, IndexTypes, SetTypes, WorkTypes
<1>12. QED
  BY <1>1, <1>2, <1>3, <1>4, <1>5, <1>6, <1>7, <1>8, <1>9, <1>10, <1>11, Zenon DEF Sched

(* The endpoint's reports keep the types.                                    *)
LEMMA EndpointTypeOK == TypeOK /\ Endpoint => TypeOK'
<1> SUFFICES ASSUME TypeOK, Endpoint PROVE TypeOK'
  BY SMTT(30)
<1> USE NAssumption, DepthAssumption, ThrowsAssumption DEF TypeOK
<1> USE DEF slotVars, queueVars, runVars, scopeVars, submitVars, releaseVars, orchVars, schedVars
<1>1. ASSUME NEW s \in Slots, Accept(s)
      PROVE  TypeOK'
  <2>1. FlagTypes'
    BY <1>1, Zenon DEF Accept, FlagTypes
  <2>2. CounterTypes'
    BY <1>1 DEF Accept, CounterTypes, ThreadTypes
  <2>3. QED
    BY <1>1, <2>1, <2>2 DEF Accept, WordTypes, IndexTypes, SetTypes, ThreadTypes, WorkTypes
<1>2. ASSUME NEW s \in Slots, NEW outcome \in {"ok", "bad"}, WorkerDone(s, outcome)
      PROVE  TypeOK'
  <2>1. FlagTypes'
    BY <1>2, Zenon DEF WorkerDone, FlagTypes
  <2>2. WordTypes'
    BY <1>2, Zenon DEF WorkerDone, WordTypes, TaskStates
  <2>3. QED
    BY <1>2, <2>1, <2>2, Zenon DEF WorkerDone, CounterTypes, IndexTypes, SetTypes, ThreadTypes, WorkTypes
<1>3. QED
  BY <1>1, <1>2, Zenon DEF Endpoint
(* Type correctness of the task graph: no step of either thread, of the      *)
(* endpoint or of the callback takes a variable out of its type.             *)
THEOREM TypeCorrect == Spec => []TypeOK
<1>1. TypeOK /\ [Next]_vars => TypeOK'
  <2> SUFFICES ASSUME TypeOK, [Next]_vars PROVE TypeOK'
    BY SMTT(30)
  <2>1. CASE UNCHANGED vars
    BY <2>1 DEF vars, slotVars, queueVars, runVars, scopeVars, submitVars, releaseVars, orchVars, schedVars,
                TypeOK, FlagTypes, WordTypes, CounterTypes, IndexTypes, SetTypes, ThreadTypes, WorkTypes
  <2>2. CASE Next
    BY <2>1, <2>2, CallbackTypeOK, OrchTypeOK, SchedTypeOK, EndpointTypeOK, Zenon DEF Next, Terminated
  <2>3. QED
    BY <2>1, <2>2, Zenon
<1>2. QED
  BY InitTypeOK, <1>1, PTL DEF Spec
-----------------------------------------------------------------------------
(* What makes the plain stores of the code safe: a slot not handed out is    *)
(* FREE, and an undrained completion always belongs to a RUNNING slot.       *)
LifeInv ==
    \A s \in Slots : /\ s > used => state[s] = "FREE"
                     /\ done[s] \in {"ok", "bad"} => state[s] = "RUNNING"
LegalStep == \A s \in Slots : state'[s] # state[s] => <<state[s], state'[s]>> \in Transitions

(* LifeInv holds initially.                                                  *)
LEMMA InitLife == Init => LifeInv
  BY Zenon DEF Init, LifeInv

(* The calls of the callback keep LifeInv and follow the task state machine. *)
LEMMA CallbackLife == TypeOK /\ LifeInv /\ Callback => LifeInv' /\ LegalStep
<1> SUFFICES ASSUME TypeOK, LifeInv, Callback PROVE LifeInv' /\ LegalStep
  OBVIOUS
<1> USE DEF TypeOK, WordTypes, LifeInv, LegalStep, Transitions, slotVars, queueVars, submitVars
<1>1. CASE Alloc
  BY <1>1, SMTT(30) DEF Alloc, Slots, IndexTypes
<1>2. ASSUME NEW reached \in {"unregistered", "unscoped", "uncharged"}, BuildThrow(reached)
      PROVE  LifeInv' /\ LegalStep
  BY <1>2, SMTT(30) DEF BuildThrow, Slots, IndexTypes
<1>3. ASSUME NEW D \in SUBSET Slots, NEW R \in SUBSET D, SubmitBegin(D, R)
      PROVE  LifeInv' /\ LegalStep
  BY <1>3 DEF SubmitBegin, Slots, IndexTypes
<1>4. CASE UNCHANGED <<state, done, used>>
  BY <1>4, Zenon
<1>5. QED
  BY <1>1, <1>2, <1>3, <1>4, Zenon DEF Callback, ScopeBegin

(* The orch thread's further steps do too.                                   *)
LEMMA OrchLife == TypeOK /\ LifeInv /\ Orch => LifeInv' /\ LegalStep
<1> SUFFICES ASSUME TypeOK, LifeInv, Orch PROVE LifeInv' /\ LegalStep
  BY SMTT(30)
<1> USE DEF TypeOK, WordTypes, LifeInv, LegalStep, Transitions, slotVars, queueVars, submitVars
<1>1. CASE Publish
  BY <1>1, SMTT(30) DEF Publish, PublishedState
<1>2. ASSUME NEW raised \in BOOLEAN, PoisonSubmit(raised)
      PROVE  LifeInv' /\ LegalStep
  BY <1>2, SMTT(30) DEF PoisonSubmit
<1>3. CASE OrchRetire
  BY <1>3, SMTT(30) DEF OrchRetire, OnConsumed, Finished
<1>4. ASSUME NEW s \in Slots, CancelClaim(s)
      PROVE  LifeInv' /\ LegalStep
  BY <1>4 DEF CancelClaim, Claimable
<1>5. CASE UNCHANGED <<state, done, used>>
  BY <1>5, ZenonT(30)
<1>6. QED
  BY <1>1, <1>2, <1>3, <1>4, <1>5, Zenon DEF Orch, ScopeEnd, Wire, SubmitThrow, OrchEnqueue, OrchReleaseSelf, OrchReleaseRef, OrchReleased, CloseRunSubmission, FailRunSubmission, CancelThrow, CancelCommit

(* The Scheduler's steps do too.                                             *)
LEMMA SchedLife == TypeOK /\ LifeInv /\ Sched => LifeInv' /\ LegalStep
<1> SUFFICES ASSUME TypeOK, LifeInv, Sched PROVE LifeInv' /\ LegalStep
  OBVIOUS
<1> USE DEF TypeOK, WordTypes, LifeInv, LegalStep, Transitions, slotVars, queueVars, submitVars
<1>1. CASE Dispatch
  BY <1>1, Zenon DEF Dispatch, ClaimForDispatch
<1>2. ASSUME NEW s \in Slots, OnTaskComplete(s)
      PROVE  LifeInv' /\ LegalStep
  BY <1>2, Zenon DEF OnTaskComplete
<1>3. CASE TryMarkReady
  BY <1>3 DEF TryMarkReady, CanMarkReady
<1>4. ASSUME NEW s \in Slots, NEW c \in Slots, PoisonTask(s, c)
      PROVE  LifeInv' /\ LegalStep
  BY <1>4 DEF PoisonTask, Claimable
<1>5. CASE SchedRetire
  BY <1>5 DEF SchedRetire, OnConsumed, Finished
<1>6. CASE UNCHANGED <<state, done, used>>
  BY <1>6, Zenon
<1>7. QED
  BY <1>1, <1>2, <1>3, <1>4, <1>5, <1>6, Zenon DEF Sched, PopReady, ReleaseConsumer, SchedEnqueue, PoisonSnapshot, SchedReleaseSelf, SchedReleaseRef

(* The endpoint's reports do too.                                            *)
LEMMA EndpointLife == TypeOK /\ LifeInv /\ Endpoint => LifeInv' /\ LegalStep
<1> SUFFICES ASSUME TypeOK, LifeInv, Endpoint PROVE LifeInv' /\ LegalStep
  OBVIOUS
<1> USE DEF TypeOK, WordTypes, LifeInv, LegalStep, Transitions, slotVars, queueVars, submitVars
<1>1. ASSUME NEW s \in Slots, NEW outcome \in {"ok", "bad"}, WorkerDone(s, outcome)
      PROVE  LifeInv' /\ LegalStep
  BY <1>1, Zenon DEF WorkerDone
<1>2. CASE UNCHANGED <<state, done, used>>
  BY <1>2, Zenon
<1>3. QED
  BY <1>1, <1>2, Zenon DEF Endpoint, Accept

(* Every step keeps LifeInv and follows the task state machine.              *)
LEMMA NextLife == TypeOK /\ LifeInv /\ [Next]_vars => LifeInv' /\ [LegalStep]_vars
<1> SUFFICES ASSUME TypeOK, LifeInv, [Next]_vars PROVE LifeInv' /\ [LegalStep]_vars
  OBVIOUS
<1>1. CASE UNCHANGED vars
  BY <1>1, Zenon DEF vars, slotVars, queueVars, submitVars, LifeInv
<1>2. CASE Next
  BY <1>1, <1>2, CallbackLife, OrchLife, SchedLife, EndpointLife, Zenon DEF Next, Terminated
<1>3. QED
  BY <1>1, <1>2, Zenon

(* A slot takes only the transitions of the documented task state machine,   *)
(* although on_task_complete and alloc store the state without testing it    *)
(* and four other places claim it concurrently.                              *)
THEOREM LegalTransitionsHold == Spec => LegalTransitions
  BY TypeCorrect, InitLife, NextLife, PTL DEF Spec, LegalTransitions, LegalStep

-----------------------------------------------------------------------------

(* Where the orch thread is: which of its locals are in use at which program *)
(* counter, and what closing the submission has ended.                       *)
OrchInv ==
    /\ ostep = Idle \/ (ostep.kind = "enqueue" /\ opc = "idle") \/ (ostep.kind = "retire" /\ opc = "release")
    /\ opc # "release" => oself = {} /\ orefs = {}
    /\ opc # "cancel" => todo = {} /\ batch = {}
    /\ opc = "wire" => cur = used /\ ~threw /\ ~submissionClosed /\ depth > 0
    /\ opc # "wire" => cur = None /\ deps = {} /\ keep = {}
    /\ opc \in {"cancel", "closed"} => submissionClosed
    /\ submissionClosed => opc \in {"cancel", "closed", "release"} /\ depth = 0
    /\ \A p \in deps \cup keep : p < cur

(* No call of the orch thread is in flight initially.                        *)
LEMMA OrchInvInit == Init => OrchInv
  BY Zenon DEF Init, OrchInv

(* The calls of the callback keep it.                                        *)
LEMMA OrchInvCallback == TypeOK /\ OrchInv /\ Callback => OrchInv'
<1> SUFFICES ASSUME TypeOK, OrchInv, Callback PROVE OrchInv'
  OBVIOUS
<1> USE DEF OrchInv, CallbackRunning, OrchIdle, runVars, submitVars, releaseVars, orchVars
<1>1. CASE ScopeBegin
  BY <1>1, Zenon DEF ScopeBegin
<1>2. CASE Alloc
  BY <1>2, Zenon DEF Alloc
<1>3. ASSUME NEW reached \in {"unregistered", "unscoped", "uncharged"}, BuildThrow(reached)
      PROVE  OrchInv'
  BY <1>3, Zenon DEF BuildThrow
<1>4. ASSUME NEW D \in SUBSET Slots, NEW R \in SUBSET D, SubmitBegin(D, R)
      PROVE  OrchInv'
  <2>1. \A p \in deps' \cup keep' : p < cur'
    BY <1>4 DEF SubmitBegin, TypeOK, IndexTypes
  <2>2. QED
    BY <1>4, <2>1, Zenon DEF SubmitBegin
<1>5. QED
  BY <1>1, <1>2, <1>3, <1>4, Zenon DEF Callback

(* So do the orch thread's further steps: wiring, closing, cancelling and    *)
(* releasing.                                                                *)
LEMMA OrchInvOrch == TypeOK /\ OrchInv /\ Orch => OrchInv'
<1> SUFFICES ASSUME TypeOK, OrchInv, Orch PROVE OrchInv'
  BY SMTT(30)
<1> USE DEF OrchInv, OrchIdle, runVars, scopeVars, submitVars, releaseVars, orchVars
<1>1. CASE ScopeEnd
  BY <1>1 DEF ScopeEnd, TypeOK, IndexTypes, None, Idle
<1>2. ASSUME NEW p \in Slots, Wire(p)
      PROVE  OrchInv'
  BY <1>2, Zenon DEF Wire
<1>3. CASE SubmitThrow
  BY <1>3, SMTT(30) DEF SubmitThrow, Idle
<1>4. CASE Publish
  BY <1>4, SMTT(30) DEF Publish, Step, Idle
<1>5. ASSUME NEW raised \in BOOLEAN, PoisonSubmit(raised)
      PROVE  OrchInv'
  BY <1>5 DEF PoisonSubmit, Idle
<1>6. CASE OrchEnqueue
  BY <1>6, Zenon DEF OrchEnqueue
<1>7. CASE OrchRetire
  BY <1>7, Zenon DEF OrchRetire
<1>8. ASSUME NEW s \in Slots, OrchReleaseSelf(s)
      PROVE  OrchInv'
  BY <1>8, SMTT(30) DEF OrchReleaseSelf, AfterConsume, Step
<1>9. ASSUME NEW c \in Slots, NEW p \in Slots, OrchReleaseRef(c, p)
      PROVE  OrchInv'
  BY <1>9, SMTT(30) DEF OrchReleaseRef, AfterConsume, Step
<1>10. CASE OrchReleased
  BY <1>10 DEF OrchReleased
<1>11. CASE CloseRunSubmission
  BY <1>11, Zenon DEF CloseRunSubmission
<1>12. CASE FailRunSubmission
  BY <1>12, Zenon DEF FailRunSubmission
<1>13. ASSUME NEW s \in Slots, CancelClaim(s)
      PROVE  OrchInv'
  BY <1>13, Zenon DEF CancelClaim
<1>14. CASE CancelThrow
  BY <1>14, Zenon DEF CancelThrow
<1>15. CASE CancelCommit
  BY <1>15 DEF CancelCommit, Idle
<1>16. QED
  BY <1>1, <1>2, <1>3, <1>4, <1>5, <1>6, <1>7, <1>8, <1>9, <1>10, <1>11, <1>12, <1>13, <1>14, <1>15, Zenon DEF Orch

(* The sched thread and the endpoint leave the orch thread's variables alone.*)
OrchQuiet == UNCHANGED <<scopeVars, submitVars, releaseVars, orchVars, submissionClosed, submissionFailed>>

(* Neither the Scheduler's steps nor the endpoint's reports touch what the   *)
(* orch thread holds.                                                        *)
LEMMA OthersQuiet == Sched \/ Endpoint => OrchQuiet
<1> USE DEF OrchQuiet, runVars
<1>1. Endpoint => OrchQuiet
  BY Zenon DEF Endpoint, Accept, WorkerDone
<1>2. Sched => OrchQuiet
  BY Zenon DEF Sched, PopReady, Dispatch, OnTaskComplete, ReleaseConsumer, TryMarkReady, SchedEnqueue, PoisonTask, PoisonSnapshot, SchedReleaseSelf, SchedReleaseRef, SchedRetire
<1>3. QED
  BY <1>1, <1>2, Zenon

(* OrchInv is inductive with the types.                                      *)
LEMMA OrchInvNext == TypeOK /\ OrchInv /\ [Next]_vars => OrchInv'
<1> SUFFICES ASSUME TypeOK, OrchInv, [Next]_vars PROVE OrchInv'
  OBVIOUS
<1>1. CASE OrchQuiet
  BY <1>1, Zenon DEF OrchQuiet, OrchInv, scopeVars, submitVars, releaseVars, orchVars
<1>2. UNCHANGED vars => OrchQuiet
  BY Zenon DEF vars, OrchQuiet, runVars
<1>3. QED
  BY <1>1, <1>2, OthersQuiet, OrchInvCallback, OrchInvOrch, Zenon DEF Next, Terminated
-----------------------------------------------------------------------------
(* A slot is handed out once; a slot is BUILDING only while its submit is in *)
(* flight or after an exception left it so, and the one in flight is its     *)
(* submit's to publish or, with a debt, to fail.                             *)
SlotInv ==
    \A s \in Slots : /\ s <= used => state[s] # "FREE"
                     /\ state[s] = "BUILDING" => s = cur \/ threw
                     /\ s = cur => state[s] = "BUILDING" \/ debt[s]

(* Initially every slot is FREE.                                             *)
LEMMA SlotInvInit == Init => SlotInv
  BY NAssumption DEF Init, SlotInv, Slots, None

(* alloc and submit take the next slot, which was never handed out.          *)
LEMMA SlotInvCallback == TypeOK /\ LifeInv /\ OrchInv /\ SlotInv /\ Callback => SlotInv'
<1> SUFFICES ASSUME TypeOK, LifeInv, OrchInv, SlotInv, Callback PROVE SlotInv'
  OBVIOUS
<1> USE DEF TypeOK, IndexTypes, WordTypes, SlotInv, Slots, None, slotVars, submitVars, orchVars
<1>1. CASE ScopeBegin
  BY <1>1, Zenon DEF ScopeBegin
<1>2. CASE Alloc
  BY <1>2, SMTT(30) DEF Alloc, OrchInv, CallbackRunning, OrchIdle
<1>3. ASSUME NEW reached \in {"unregistered", "unscoped", "uncharged"}, BuildThrow(reached)
      PROVE  SlotInv'
  BY <1>3, SMTT(30) DEF BuildThrow, OrchInv, CallbackRunning, OrchIdle
<1>4. ASSUME NEW D \in SUBSET Slots, NEW R \in SUBSET D, SubmitBegin(D, R)
      PROVE  SlotInv'
  BY <1>4 DEF SubmitBegin, OrchInv, CallbackRunning, OrchIdle
<1>5. QED
  BY <1>1, <1>2, <1>3, <1>4, Zenon DEF Callback

(* Wiring and cancellation only move slots that are handed out.              *)
LEMMA SlotInvOrch == TypeOK /\ LifeInv /\ OrchInv /\ SlotInv /\ Orch => SlotInv'
<1> SUFFICES ASSUME TypeOK, LifeInv, OrchInv, SlotInv, Orch PROVE SlotInv'
  BY SMTT(30)
<1> USE DEF TypeOK, IndexTypes, WordTypes, SlotInv, Slots, None, slotVars, submitVars, orchVars
<1>1. CASE SubmitThrow
  BY <1>1 DEF SubmitThrow
<1>2. CASE Publish
  <2>1. CASE state[cur] = "BUILDING"
    <3>1. PublishedState \in {"READY", "PENDING"}
      BY Zenon DEF PublishedState
    <3>2. state' = [state EXCEPT ![cur] = PublishedState] /\ cur' = 0 /\ UNCHANGED <<used, threw, debt>>
      BY <1>2, <2>1, Zenon DEF Publish
    <3>3. QED
      BY <3>1, <3>2
  <2>2. CASE state[cur] # "BUILDING"
    BY <1>2, <2>2, Zenon DEF Publish
  <2>3. QED
    BY <2>1, <2>2, Zenon
<1>3. ASSUME NEW raised \in BOOLEAN, PoisonSubmit(raised)
      PROVE  SlotInv'
  <2>1. /\ state' = [state EXCEPT ![cur] = IF @ = "BUILDING" THEN "FAILED" ELSE @]
        /\ cur' = 0 /\ used' = used /\ (threw => threw')
    BY <1>3, Zenon DEF PoisonSubmit
  <2>2. QED
    BY <2>1
<1>4. CASE OrchRetire
  BY <1>4, Zenon DEF OrchRetire, OnConsumed, Finished
<1>5. ASSUME NEW s \in Slots, CancelClaim(s)
      PROVE  SlotInv'
  BY <1>5, SMTT(30) DEF CancelClaim, OrchInv
<1>6. CASE CancelCommit
  BY <1>6 DEF CancelCommit, OrchInv
<1>7. CASE UNCHANGED <<state, debt, used, cur, threw>>
  BY <1>7, Zenon
<1>8. QED
  BY <1>1, <1>2, <1>3, <1>4, <1>5, <1>6, <1>7, Zenon DEF Orch, ScopeEnd, Wire, OrchEnqueue, OrchReleaseSelf, OrchReleaseRef, OrchReleased, CloseRunSubmission, FailRunSubmission, CancelThrow

(* The Scheduler never returns a slot to FREE or BUILDING.                   *)
LEMMA SlotInvSched == TypeOK /\ LifeInv /\ SlotInv /\ Sched => SlotInv'
<1> SUFFICES ASSUME TypeOK, LifeInv, SlotInv, Sched PROVE SlotInv'
  OBVIOUS
<1> USE DEF TypeOK, WordTypes, SlotInv, slotVars
<1>0. UNCHANGED <<used, cur, threw>>
  BY OthersQuiet, Zenon DEF OrchQuiet, submitVars, orchVars
<1>1. CASE Dispatch
  BY <1>0, <1>1, Zenon DEF Dispatch, ClaimForDispatch
<1>2. ASSUME NEW s \in Slots, OnTaskComplete(s)
      PROVE  SlotInv'
  BY <1>0, <1>2, Zenon DEF OnTaskComplete, LifeInv
<1>3. CASE TryMarkReady
  BY <1>0, <1>3 DEF TryMarkReady, CanMarkReady
<1>4. ASSUME NEW s \in Slots, NEW c \in Slots, PoisonTask(s, c)
      PROVE  SlotInv'
  BY <1>0, <1>4, Zenon DEF PoisonTask, OwesPropagation, FlagTypes
<1>5. CASE SchedRetire
  BY <1>0, <1>5 DEF SchedRetire, OnConsumed, Finished
<1>6. CASE UNCHANGED <<state, debt>>
  BY <1>0, <1>6, Zenon
<1>7. QED
  BY <1>1, <1>2, <1>3, <1>4, <1>5, <1>6, Zenon DEF Sched, PopReady, ReleaseConsumer, SchedEnqueue, PoisonSnapshot, SchedReleaseSelf, SchedReleaseRef

(* SlotInv is inductive with the types, LifeInv and OrchInv.                 *)
LEMMA SlotInvNext == TypeOK /\ LifeInv /\ OrchInv /\ SlotInv /\ [Next]_vars => SlotInv'
<1> SUFFICES ASSUME TypeOK, LifeInv, OrchInv, SlotInv, [Next]_vars PROVE SlotInv'
  OBVIOUS
<1>1. CASE UNCHANGED <<state, debt, used, cur, threw>>
  BY <1>1, Zenon DEF SlotInv
<1>2. Endpoint \/ UNCHANGED vars => UNCHANGED <<state, debt, used, cur, threw>>
  BY Zenon DEF Endpoint, Accept, WorkerDone, vars, slotVars, submitVars, orchVars
<1>3. QED
  BY <1>1, <1>2, SlotInvCallback, SlotInvOrch, SlotInvSched, Zenon DEF Next, Terminated
-----------------------------------------------------------------------------
(* A slot is in one open scope at most, and only a slot handed out is.       *)
ScopeInv ==
    /\ \A d \in 1 .. MaxDepth : \A s \in frame[d] :
            s <= used /\ d <= depth /\ \A e \in 1 .. MaxDepth : s \in frame[e] => e = d
    /\ \A s \in oself \cup todo \cup batch : s <= used

(* Initially no scope is open.                                               *)
LEMMA ScopeInvInit == Init => ScopeInv
  BY Zenon DEF Init, ScopeInv

(* A new slot is put into the innermost scope and no other.                  *)
LEMMA ScopeInvCallback == TypeOK /\ ScopeInv /\ Callback => ScopeInv'
<1> SUFFICES ASSUME TypeOK, ScopeInv, Callback PROVE ScopeInv'
  BY SMTT(30)
<1> USE DepthAssumption DEF TypeOK, IndexTypes, SetTypes, ScopeInv, Slots, submitVars, releaseVars
<1>1. CASE ScopeBegin
  BY <1>1, SMTT(30) DEF ScopeBegin, ScopeRoom
<1>2. CASE Alloc
  BY <1>2, SMTT(30) DEF Alloc, CallbackRunning
<1>3. ASSUME NEW reached \in {"unregistered", "unscoped", "uncharged"}, BuildThrow(reached)
      PROVE  ScopeInv'
  BY <1>3, SMTT(30) DEF BuildThrow, CallbackRunning
<1>4. ASSUME NEW D \in SUBSET Slots, NEW R \in SUBSET D, SubmitBegin(D, R)
      PROVE  ScopeInv'
  BY <1>4, SMTT(30) DEF SubmitBegin, CallbackRunning
<1>5. QED
  BY <1>1, <1>2, <1>3, <1>4, Zenon DEF Callback

(* scope_end empties the innermost scope into the releases to be made.       *)
LEMMA ScopeInvOrch == TypeOK /\ OrchInv /\ ScopeInv /\ Orch => ScopeInv'
<1> SUFFICES ASSUME TypeOK, OrchInv, ScopeInv, Orch PROVE ScopeInv'
  BY SMTT(30)
<1> USE DEF TypeOK, IndexTypes, SetTypes, ScopeInv, submitVars, releaseVars, scopeVars
<1>1. CASE ScopeEnd
  BY <1>1, DepthAssumption, SMTT(30) DEF ScopeEnd, Slots
<1>2. ASSUME NEW raised \in BOOLEAN, PoisonSubmit(raised)
      PROVE  ScopeInv'
  <2>1. cur = used /\ oself' \subseteq {cur} /\ UNCHANGED <<depth, frame, used, todo, batch>>
    BY <1>2, Zenon DEF PoisonSubmit, OrchInv
  <2>2. QED
    BY <2>1
<1>3. CASE FailRunSubmission \/ CancelThrow
  <2>1. todo' = 1 .. used /\ batch' = {} /\ UNCHANGED <<depth, frame, used, oself>>
    BY <1>3, Zenon DEF FailRunSubmission, CancelThrow
  <2>2. \A s \in todo' : s <= used'
    BY <2>1
  <2>3. QED
    BY <2>1, <2>2, Zenon
<1>4. ASSUME UNCHANGED <<depth, frame, used>>, oself' \subseteq oself \cup batch,
             todo' \subseteq todo, batch' \subseteq batch \cup todo
      PROVE  ScopeInv'
  BY <1>4, Zenon
<1>5. ASSUME NEW s \in Slots, OrchReleaseSelf(s) \/ CancelClaim(s)
      PROVE  ScopeInv'
  BY <1>4, <1>5, Zenon DEF OrchReleaseSelf, CancelClaim
<1>6. CASE CancelCommit
  BY <1>4, <1>6, Zenon DEF CancelCommit
<1>7. CASE UNCHANGED <<depth, frame, used, oself, todo, batch>>
  BY <1>7, Zenon
<1>8. QED
  BY <1>1, <1>2, <1>3, <1>5, <1>6, <1>7, Zenon DEF Orch, Wire, SubmitThrow, Publish, OrchEnqueue, OrchRetire, OrchReleaseRef, OrchReleased, CloseRunSubmission

(* ScopeInv is inductive with the types and OrchInv.                         *)
LEMMA ScopeInvNext == TypeOK /\ OrchInv /\ ScopeInv /\ [Next]_vars => ScopeInv'
<1> SUFFICES ASSUME TypeOK, OrchInv, ScopeInv, [Next]_vars PROVE ScopeInv'
  OBVIOUS
<1>1. CASE OrchQuiet
  BY <1>1, Zenon DEF OrchQuiet, ScopeInv, scopeVars, submitVars, releaseVars
<1>2. UNCHANGED vars => OrchQuiet
  BY Zenon DEF vars, OrchQuiet, runVars
<1>3. QED
  BY <1>1, <1>2, OthersQuiet, ScopeInvCallback, ScopeInvOrch, Zenon DEF Next, Terminated
-----------------------------------------------------------------------------
(* Edges run from earlier to later slots handed out, a submit wires each     *)
(* producer once, and what the sched thread has still to release for a slot  *)
(* is part of the slot's own lists.                                          *)
EdgeInv ==
    /\ \A p, c \in Slots : c \in consumers[p] \/ p \in retained[c] => p < c /\ c <= used
    /\ \A p \in deps : cur \notin consumers[p] /\ p \notin retained[cur]
    /\ \A s \in Slots : work[s].cons \subseteq consumers[s] /\ work[s].prods \subseteq retained[s]

(* Initially there are no edges.                                             *)
LEMMA EdgeInvInit == Init => EdgeInv
  BY DEF Init, EdgeInv, NoWork

(* submit_impl wires a new slot to earlier ones, each producer once.         *)
LEMMA EdgeInvOrch == TypeOK /\ OrchInv /\ EdgeInv /\ (Callback \/ Orch) => EdgeInv'
<1> SUFFICES ASSUME TypeOK, OrchInv, EdgeInv, Callback \/ Orch PROVE EdgeInv'
  BY SMTT(30)
<1> USE DEF TypeOK, SetTypes, EdgeInv, slotVars, submitVars, schedVars
<1>1. CASE Alloc
  <2>1. used' = used + 1 /\ deps = {} /\ UNCHANGED <<consumers, retained, deps, cur, work>>
    BY <1>1, Zenon DEF Alloc, OrchInv, CallbackRunning, OrchIdle
  <2>2. QED
    BY <2>1, SMTT(30) DEF Slots, IndexTypes
<1>2. ASSUME NEW reached \in {"unregistered", "unscoped", "uncharged"}, BuildThrow(reached)
      PROVE  EdgeInv'
  <2>1. used' = used + 1 /\ deps = {} /\ UNCHANGED <<consumers, retained, deps, cur, work>>
    BY <1>2, Zenon DEF BuildThrow, OrchInv, CallbackRunning, OrchIdle
  <2>2. QED
    BY <2>1 DEF Slots, IndexTypes
<1>3. ASSUME NEW D \in SUBSET Slots, NEW R \in SUBSET D, SubmitBegin(D, R)
      PROVE  EdgeInv'
  <2>1. /\ used' = used + 1 /\ cur' = used + 1 /\ used < N
        /\ D \subseteq 1 .. used /\ deps' = D /\ UNCHANGED <<consumers, retained, work>>
    BY <1>3, Zenon DEF SubmitBegin
  <2>2. used + 1 \in Slots /\ ~(used + 1 <= used)
    BY <2>1, NAssumption DEF Slots, IndexTypes
  <2>3. \A p \in Slots : used + 1 \notin consumers[p] /\ p \notin retained[used + 1]
    BY <2>2, Zenon
  <2>4. \A p, c \in Slots : c \in consumers[p] \/ p \in retained[c] => c <= used + 1
    BY DEF Slots, IndexTypes
  <2>5. QED
    BY <2>1, <2>3, <2>4, Zenon
<1>4. ASSUME NEW p \in Slots, Wire(p)
      PROVE  EdgeInv'
  <2>1. /\ p \in deps /\ deps' = deps \ {p} /\ UNCHANGED <<used, cur, work>>
        /\ consumers' = [consumers EXCEPT ![p] = @ \cup {cur}] \/ consumers' = consumers
        /\ retained' = [retained EXCEPT ![cur] = @ \cup {p}] \/ retained' = retained
    BY <1>4, Zenon DEF Wire
  <2>2. p < cur /\ cur = used /\ cur \in Slots
    BY <1>4, Zenon DEF Wire, OrchInv, IndexTypes
  <2>3. used <= used
    BY SMTT(30) DEF IndexTypes
  <2>4. \A q \in Slots : /\ consumers[q] \subseteq consumers'[q]
                         /\ \A c \in consumers'[q] : c \in consumers[q] \/ (c = cur /\ q = p)
    BY SMTT(30), <2>1, <2>2
  <2>5. \A c \in Slots : /\ retained[c] \subseteq retained'[c]
                         /\ \A q \in retained'[c] : q \in retained[c] \/ (c = cur /\ q = p)
    BY <2>1, <2>2
  <2>6. \A q, c \in Slots : c \in consumers'[q] \/ q \in retained'[c] => q < c /\ c <= used'
    BY <2>1, <2>2, <2>3, <2>4, <2>5, ZenonT(30)
  <2>7. \A q \in deps' : cur' \notin consumers'[q] /\ q \notin retained'[cur']
    BY <2>1, <2>2, <2>4, <2>5, Zenon
  <2>8. \A s \in Slots : work'[s].cons \subseteq consumers'[s] /\ work'[s].prods \subseteq retained'[s]
    BY <2>1, <2>4, <2>5, Zenon
  <2>9. QED
    BY <2>6, <2>7, <2>8, Zenon
<1>5. ASSUME UNCHANGED <<consumers, retained, used, work>>, deps' = {}
      PROVE  EdgeInv'
  BY <1>5, Zenon
<1>6. CASE SubmitThrow
  BY <1>5, <1>6, Zenon DEF SubmitThrow
<1>7. CASE Publish
  BY <1>5, <1>7, Zenon DEF Publish
<1>8. ASSUME NEW raised \in BOOLEAN, PoisonSubmit(raised)
      PROVE  EdgeInv'
  BY <1>5, <1>8, Zenon DEF PoisonSubmit
<1>9. CASE UNCHANGED <<consumers, retained, used, deps, cur, work>>
  BY <1>9, Zenon
<1>10. QED
  BY <1>1, <1>2, <1>3, <1>4, <1>6, <1>7, <1>8, <1>9, ZenonT(30) DEF Callback, Orch, ScopeBegin, ScopeEnd, OrchEnqueue, OrchRetire, OrchReleaseSelf, OrchReleaseRef, OrchReleased, CloseRunSubmission, FailRunSubmission, CancelClaim, CancelThrow, CancelCommit

(* on_task_complete takes its work out of the slot's own lists.              *)
LEMMA EdgeInvSched == TypeOK /\ EdgeInv /\ Sched => EdgeInv'
<1> SUFFICES ASSUME TypeOK, EdgeInv, Sched PROVE EdgeInv'
  OBVIOUS
<1> USE DEF TypeOK, WorkTypes, EdgeInv, slotVars
<1>1. UNCHANGED <<used, cur, deps>>
  BY OthersQuiet, Zenon DEF OrchQuiet, submitVars
<1>2. ASSUME UNCHANGED <<consumers, retained>>,
             \A s \in Slots : work'[s].cons \subseteq consumers[s] /\ work'[s].prods \subseteq retained[s]
      PROVE  EdgeInv'
  BY <1>1, <1>2, ZenonT(30)
<1>3. ASSUME NEW s \in Slots, OnTaskComplete(s)
      PROVE  EdgeInv'
  BY <1>2, <1>3, Zenon DEF OnTaskComplete
<1>4. ASSUME NEW s \in Slots, NEW c \in Slots, ReleaseConsumer(s, c) \/ PoisonTask(s, c)
      PROVE  EdgeInv'
  BY <1>2, <1>4, SMTT(30) DEF ReleaseConsumer, PoisonTask
<1>5. CASE PoisonSnapshot
  BY <1>2, <1>5, Zenon DEF PoisonSnapshot, ThreadTypes, Idle
<1>6. ASSUME NEW s \in Slots, SchedReleaseSelf(s)
      PROVE  EdgeInv'
  BY <1>2, <1>6 DEF SchedReleaseSelf
<1>7. ASSUME NEW s \in Slots, NEW p \in Slots, SchedReleaseRef(s, p)
      PROVE  EdgeInv'
  BY <1>2, <1>7 DEF SchedReleaseRef
<1>8. CASE UNCHANGED <<consumers, retained, work>>
  BY <1>1, <1>8, Zenon
<1>9. QED
  BY <1>3, <1>4, <1>5, <1>6, <1>7, <1>8, Zenon DEF Sched, PopReady, Dispatch, TryMarkReady, SchedEnqueue, SchedRetire

(* EdgeInv is inductive with the types and OrchInv.                          *)
LEMMA EdgeInvNext == TypeOK /\ OrchInv /\ EdgeInv /\ [Next]_vars => EdgeInv'
<1> SUFFICES ASSUME TypeOK, OrchInv, EdgeInv, [Next]_vars PROVE EdgeInv'
  OBVIOUS
<1>1. CASE UNCHANGED <<consumers, retained, used, deps, cur, work>>
  BY <1>1, Zenon DEF EdgeInv
<1>2. Endpoint \/ UNCHANGED vars => UNCHANGED <<consumers, retained, used, deps, cur, work>>
  BY Zenon DEF Endpoint, Accept, WorkerDone, vars, slotVars, submitVars, schedVars
<1>3. QED
  BY <1>1, <1>2, EdgeInvOrch, EdgeInvSched, Zenon DEF Next, Terminated

-----------------------------------------------------------------------------
(* The references of a slot: who owes their release, and that fanout_total   *)
(* and fanout_released agree with them on every path of both threads, so     *)
(* that try_consume reclaims a slot at the last release and never before.    *)

(* Sets of slots are finite, and grow and shrink by one.                     *)
LEMMA SlotSets ==
    ASSUME NEW S \in SUBSET Slots
    PROVE  /\ IsFiniteSet(S) /\ Cardinality(S) \in Nat /\ (Cardinality(S) = 0 <=> S = {})
           /\ \A x \in Slots \ S : Cardinality(S \cup {x}) = Cardinality(S) + 1
           /\ \A x \in S : Cardinality(S \ {x}) = Cardinality(S) - 1
<1>1. IsFiniteSet(Slots)
  BY FS_Interval, NAssumption DEF Slots
<1>2. IsFiniteSet(S)
  BY <1>1, FS_Subset, Zenon
<1>3. Cardinality(S) \in Nat
  BY <1>2, FS_CardinalityType, Zenon
<1>4. Cardinality(S) = 0 <=> S = {}
  BY <1>2, FS_EmptySet, Zenon
<1>5. \A x \in Slots \ S : Cardinality(S \cup {x}) = Cardinality(S) + 1
  BY <1>2, FS_AddElement, Zenon
<1>6. \A x \in S : Cardinality(S \ {x}) = Cardinality(S) - 1
  BY <1>2, FS_RemoveElement, Zenon
<1>7. QED
  BY <1>2, <1>3, <1>4, <1>5, <1>6, Zenon

(* What still has to be released on slot p: the reference of its scope, its  *)
(* own, and one for every consumer wired to retain it.  oself holds scope    *)
(* references and own ones the orch thread is about to release.              *)
Over == Finished \cup {"CONSUMED"}
Held(c) == state[c] \in Claimable \cup {"RUNNING"} \/ debt[c] \/ sstep = Step("snapshot", c)
SelfPending(p) == Held(p) \/ work[p].self
Readers(p) == {c \in Slots : ConsumerPending(c, p)}
One(b) == IF b THEN 1 ELSE 0
Refs(p) == One(InScope(p)) + One(p \in oself) + One(SelfPending(p)) + Cardinality(Readers(p))
Retiring(p) == ostep = Step("retire", p) \/ sstep = Step("retire", p)

(* A slot owes its own release and those of its producers to one thread at a *)
(* time: to whoever finishes it, to a debt, to the sched thread's work or to *)
(* the orch thread's; nothing is owed for a slot being retired.              *)
DebtInv ==
    \A s \in Slots :
        /\ debt[s] => state[s] = "FAILED" /\ ~Retiring(s)
        /\ Retiring(s) => state[s] \in Over
        /\ Busy(s) \/ sstep = Step("snapshot", s) => state[s] \in Over /\ ~debt[s]
        /\ \A p \in Slots : <<s, p>> \in orefs =>
                /\ p \in retained[s] /\ state[s] \in Over /\ ~debt[s]
                /\ ~Busy(s) /\ sstep # Step("snapshot", s)

(* The counters agree with the references.  The one exception is a slot an   *)
(* exception left in a scope before it was charged: nobody can name it, and  *)
(* its scope has released it before cancellation fails it.                   *)
Bare(p) ==
    /\ threw /\ fanoutTotal[p] = 0
    /\ \A c \in Slots : p \notin retained[c] /\ p \notin consumers[c]
    /\ Refs(p) <= 1 \/ state[p] = "BUILDING"
RefsInv ==
    \A p \in Slots :
        /\ p > used => fanoutReleased[p] = 0 /\ fanoutTotal[p] = 0
        /\ p <= used => fanoutReleased[p] + Refs(p) = fanoutTotal[p] + 1 \/ Bare(p)

(* The consumers that still hold a reference can be counted.                 *)
LEMMA ReadersCount ==
    ASSUME NEW p
    PROVE  Readers(p) \in SUBSET Slots /\ Cardinality(Readers(p)) \in Nat
  BY SlotSets, Zenon DEF Readers

(* The number of references is natural, and zero when there is none of any   *)
(* kind.                                                                     *)
LEMMA RefsNat ==
    ASSUME NEW p
    PROVE  /\ Refs(p) \in Nat
           /\ Refs(p) = 0 <=> ~InScope(p) /\ p \notin oself /\ ~SelfPending(p) /\ Readers(p) = {}
<1>1. Cardinality(Readers(p)) \in Nat /\ (Cardinality(Readers(p)) = 0 <=> Readers(p) = {})
  BY ReadersCount, SlotSets, Zenon
<1>2. One(InScope(p)) \in {0, 1} /\ (One(InScope(p)) = 0 <=> ~InScope(p))
  BY DEF One
<1>3. One(p \in oself) \in {0, 1} /\ (One(p \in oself) = 0 <=> p \notin oself)
  BY DEF One
<1>4. One(SelfPending(p)) \in {0, 1} /\ (One(SelfPending(p)) = 0 <=> ~SelfPending(p))
  BY DEF One
<1>5. Refs(p) = One(InScope(p)) + One(p \in oself) + One(SelfPending(p)) + Cardinality(Readers(p))
  BY Zenon DEF Refs
<1>6. QED
  BY <1>1, <1>2, <1>3, <1>4, <1>5

(* A step that leaves every reference where it is leaves their number alone. *)
LEMMA SameRefs ==
    ASSUME UNCHANGED <<depth, frame, oself>>,
           \A s \in Slots : SelfPending(s)' <=> SelfPending(s),
           \A c, p \in Slots : ConsumerPending(c, p)' <=> ConsumerPending(c, p)
    PROVE  \A p \in Slots : Refs(p)' = Refs(p)
<1> SUFFICES ASSUME NEW p \in Slots PROVE Refs(p)' = Refs(p)
  OBVIOUS
<1>1. Readers(p)' = Readers(p)
  BY Zenon DEF Readers
<1>2. InScope(p)' <=> InScope(p)
  BY Zenon DEF InScope
<1>3. QED
  BY <1>1, <1>2, Zenon DEF Refs, One

(* When try_consume decides to retire a slot, the release it just made was   *)
(* of the last reference there was.                                          *)
LEMMA LastRelease ==
    ASSUME TypeOK, RefsInv, NEW p \in Slots, p <= used, ThresholdMet(p), state[p] \in Finished
    PROVE  Refs(p) <= 1
<1>1. Refs(p) \in Nat /\ fanoutReleased[p] \in Nat /\ fanoutTotal[p] \in Nat
  BY RefsNat, Zenon DEF TypeOK, CounterTypes
<1>2. state[p] # "BUILDING"
  BY Zenon DEF Finished
<1>3. fanoutReleased[p] + Refs(p) = fanoutTotal[p] + 1 \/ Refs(p) <= 1
  BY <1>2, Zenon DEF RefsInv, Bare
<1>4. QED
  BY <1>1, <1>3 DEF ThresholdMet

(* A step that starts no obligation keeps DebtInv.                           *)
LEMMA DebtShrinks ==
    ASSUME DebtInv,
           \A s \in Slots :
               /\ state[s] \in Over => state'[s] \in Over
               /\ debt'[s] => debt[s] /\ state'[s] = "FAILED"
               /\ Retiring(s)' => Retiring(s)
               /\ Busy(s)' => Busy(s)
               /\ sstep' = Step("snapshot", s) => sstep = Step("snapshot", s)
               /\ retained[s] \subseteq retained'[s],
           orefs' \subseteq orefs
    PROVE  DebtInv'
  BY Zenon DEF DebtInv

BaseInv == TypeOK /\ LifeInv /\ OrchInv /\ SlotInv /\ ScopeInv /\ EdgeInv

(* A pending step determines its kind and its slot, and is not Idle.         *)
LEMMA StepsDiffer ==
    /\ \A k, l, s, u : Step(k, s) = Step(l, u) => k = l /\ s = u
    /\ \A k \in StepKinds : \A s : Step(k, s) # Idle
  BY DEF Step, Idle, StepKinds

(* What a pending step is made of.                                           *)
LEMMA StepFields ==
    /\ \A x : x = Idle => x.kind = "none"
    /\ \A x, k, s : x = Step(k, s) => x.kind = k /\ x.slot = s
  BY DEF Step, Idle

(* A step is about the snapshot of a poisoned slot, about a slot to retire,  *)
(* or neither.                                                               *)
LEMMA NotSnapshot ==
    /\ \A x, u : x.kind # "snapshot" => x # Step("snapshot", u)
    /\ \A u : Idle # Step("snapshot", u)
    /\ \A k, s, u : k # "snapshot" => Step(k, s) # Step("snapshot", u)
    /\ \A x, s, u : x = Idle \/ x = Step("retire", s) => x # Step("snapshot", u)
    /\ \A x, s, u : x = Step("retire", s) => x # Idle /\ (x = Step("retire", u) => s = u)
    /\ \A u : Idle # Step("retire", u)
    /\ \A k, s, u : k # "retire" => Step(k, s) # Step("retire", u)
  BY DEF Step, Idle

(* Slots are handed out in order, so they compare as numbers with used.      *)
LEMMA SlotOrder ==
    ASSUME TypeOK
    PROVE  /\ used \in Nat /\ Slots \subseteq Nat
           /\ \A s \in Slots : (s <= used <=> ~(s > used)) /\ (s = used + 1 => s > used)
           /\ \A s, c \in Slots : s < c /\ c <= used => s <= used
           /\ \A s, c \in Slots : s < c /\ c = used => s <= used
           /\ \A s \in Slots : (s <= used + 1 => s = used + 1 \/ s <= used) /\ (s > used + 1 => s > used /\ s # used + 1)
<1>1. used \in 0 .. N
  BY Zenon DEF TypeOK, IndexTypes
<1>2. used \in Nat /\ Slots \subseteq Nat
  BY <1>1, NAssumption DEF Slots
<1>3. QED
  BY <1>2

(* The slot a thread's pending step is about.                                *)
LEMMA StepSlots ==
    ASSUME TypeOK, NEW k \in StepKinds
    PROVE  /\ sstep.kind = k => sstep.slot \in Slots /\ sstep = Step(k, sstep.slot)
           /\ ostep.kind = k => ostep.slot \in Slots /\ ostep = Step(k, ostep.slot)
<1>1. ASSUME NEW x \in {Idle} \cup [kind : StepKinds, slot : Slots], x.kind = k
      PROVE  x.slot \in Slots /\ x = Step(k, x.slot)
  <2>1. k # "none"
    BY DEF StepKinds
  <2>2. x # Idle
    BY <1>1, <2>1, SMTT(30) DEF Idle
  <2>3. x \in [kind : StepKinds, slot : Slots]
    BY <2>2, Zenon
  <2>4. QED
    BY <1>1, <2>3, SMTT(30) DEF Step
<1>2. ostep \in {Idle} \cup [kind : StepKinds, slot : Slots] /\ sstep \in {Idle} \cup [kind : StepKinds, slot : Slots]
  BY Zenon DEF TypeOK, ThreadTypes
<1>3. QED
  BY <1>1, <1>2, Zenon

(* The calls of the callback leave what is owed alone.                       *)
LEMMA DebtCallback == BaseInv /\ DebtInv /\ Callback => DebtInv'
<1> SUFFICES ASSUME BaseInv, DebtInv, Callback PROVE DebtInv'
  OBVIOUS
<1>1. UNCHANGED <<debt, retained, ostep, sstep, work, orefs>>
  BY Zenon DEF Callback, ScopeBegin, Alloc, BuildThrow, SubmitBegin, slotVars, orchVars, schedVars, releaseVars
<1>2. \A s \in Slots : state'[s] = state[s] \/ state[s] = "FREE"
  <2>1. state' = state \/ (used < N /\ \E x : state' = [state EXCEPT ![used + 1] = x])
    BY Zenon DEF Callback, ScopeBegin, Alloc, BuildThrow, SubmitBegin, slotVars
  <2>2. used < N => used + 1 > used /\ used + 1 \in Slots
    BY NAssumption DEF BaseInv, TypeOK, IndexTypes, Slots
  <2>3. QED
    BY <2>1, <2>2, Zenon DEF BaseInv, LifeInv, TypeOK, WordTypes
<1>3. QED
  BY <1>1, <1>2, DebtShrinks, Zenon DEF DebtInv, Retiring, Busy, Over, Finished

(* The orch thread takes a debt over when it starts to settle it; its        *)
(* releases come later, see ReleaseDebt.                                     *)
LEMMA DebtOrch ==
    ASSUME BaseInv, DebtInv, Orch,
           ~\E s \in Slots : OrchReleaseSelf(s), ~\E c, p \in Slots : OrchReleaseRef(c, p)
    PROVE  DebtInv'
<1> USE DEF BaseInv
<1>0. \A s \in Slots : Idle # Step("retire", s) /\ \A u \in Slots : Step("enqueue", u) # Step("retire", s)
  BY DEF Step, Idle
<1>1. ASSUME UNCHANGED <<state, debt, sstep, work, orefs>>, ostep' = ostep \/ ostep' = Idle,
             \A s \in Slots : retained[s] \subseteq retained'[s]
      PROVE  DebtInv'
  BY <1>0, <1>1, DebtShrinks, Zenon DEF DebtInv, Retiring, Busy
<1>2. ASSUME NEW p \in Slots, Wire(p)
      PROVE  DebtInv'
  <2>1. \A s \in Slots : retained[s] \subseteq retained'[s]
    BY <1>2 DEF Wire, TypeOK, SetTypes, IndexTypes
  <2>2. QED
    BY <1>1, <1>2, <2>1, Zenon DEF Wire, orchVars, schedVars, releaseVars
<1>3. CASE Publish
  <2>1. PublishedState \in {"READY", "PENDING"} /\ cur \in Slots
    BY <1>3, Zenon DEF PublishedState, Publish, TypeOK, IndexTypes
  <2>2. CASE state[cur] = "BUILDING"
    <3>1. /\ state' = [state EXCEPT ![cur] = PublishedState]
          /\ UNCHANGED <<debt, retained, sstep, work, orefs>>
          /\ ostep' = Step("enqueue", cur) \/ ostep' = Idle
      BY <1>3, <2>2, Zenon DEF Publish, schedVars, releaseVars
    <3>2. \A s \in Slots : s # cur => state'[s] = state[s]
      BY <2>1, <3>1, Zenon DEF TypeOK, WordTypes
    <3>3. QED
      BY <1>0, <2>1, <2>2, <3>1, <3>2, DebtShrinks, ZenonT(30) DEF DebtInv, Retiring, Busy, Over, Finished
  <2>3. CASE state[cur] # "BUILDING"
    BY <1>1, <1>3, <2>3, Zenon DEF Publish, schedVars, releaseVars
  <2>4. QED
    BY <2>2, <2>3, Zenon
<1>4. ASSUME NEW raised \in BOOLEAN, PoisonSubmit(raised)
      PROVE  DebtInv'
  <2>1. cur \in Slots /\ (state[cur] = "BUILDING" \/ (state[cur] = "FAILED" /\ debt[cur]))
    BY <1>4, Zenon DEF PoisonSubmit, TypeOK, IndexTypes, SlotInv, DebtInv
  <2>2. /\ state'[cur] = "FAILED"
        /\ \A s \in Slots : s # cur => state'[s] = state[s] /\ debt'[s] = debt[s]
        /\ debt'[cur] = raised
    BY <1>4, <2>1, Zenon DEF PoisonSubmit, TypeOK, WordTypes, FlagTypes
  <2>3. UNCHANGED <<retained, sstep, work, ostep>>
    BY <1>4, Zenon DEF PoisonSubmit, schedVars
  <2>4. orefs' = IF raised THEN {} ELSE {cur} \X retained[cur]
    BY <1>4, <2>1, Zenon DEF PoisonSubmit
  <2>5. ~Retiring(cur) /\ ~Busy(cur) /\ sstep # Step("snapshot", cur)
    BY <2>1, Zenon DEF DebtInv, Over, Finished
  <2>6. \A s, p \in Slots : <<s, p>> \in orefs' => s = cur /\ p \in retained[cur] /\ ~raised
    BY <2>4, Zenon
  <2>7. QED
    BY <2>1, <2>2, <2>3, <2>5, <2>6, ZenonT(30) DEF DebtInv, Retiring, Busy, Over, Finished
<1>5. CASE OrchRetire
  <2>1. ostep.slot \in Slots /\ ostep = Step("retire", ostep.slot)
    BY <1>5, StepSlots, Zenon DEF OrchRetire, StepKinds
  <2>2. \A s \in Slots : state'[s] = state[s] \/ (s = ostep.slot /\ state'[s] = "CONSUMED")
    BY <1>5, <2>1, Zenon DEF OrchRetire, OnConsumed, TypeOK, WordTypes
  <2>3. ostep' = Idle /\ UNCHANGED <<debt, retained, sstep, work, orefs>>
    BY <1>5, Zenon DEF OrchRetire, schedVars, releaseVars
  <2>4. ~debt[ostep.slot]
    BY <2>1, Zenon DEF DebtInv, Retiring
  <2>5. QED
    BY <1>0, <2>1, <2>2, <2>3, <2>4, DebtShrinks, ZenonT(30) DEF DebtInv, Retiring, Busy, Over
<1>6. ASSUME NEW s \in Slots, CancelClaim(s)
      PROVE  DebtInv'
  <2>1. /\ \A u \in Slots : u # s => state'[u] = state[u] /\ debt'[u] = debt[u]
        /\ IF state[s] \in Claimable THEN state'[s] = "FAILED" ELSE state'[s] = state[s] /\ debt'[s] = debt[s]
    BY <1>6 DEF CancelClaim, TypeOK, WordTypes, FlagTypes
  <2>2. UNCHANGED <<retained, sstep, work, ostep, orefs>> /\ orefs = {}
    BY <1>6, Zenon DEF CancelClaim, OrchInv, schedVars, orchVars
  <2>3. QED
    BY <2>1, <2>2, ZenonT(30) DEF DebtInv, Retiring, Busy, Over, Finished, Claimable
<1>7. CASE CancelCommit
  <2>1. /\ UNCHANGED <<state, retained, sstep, work, ostep>>
        /\ \A s \in Slots : debt'[s] <=> debt[s] /\ s \notin batch
        /\ orefs' = {e \in {s \in batch : debt[s]} \X Slots : e[2] \in retained[e[1]]}
    BY <1>7, Zenon DEF CancelCommit, schedVars
  <2>2. \A s, p \in Slots : <<s, p>> \in orefs' => s \in batch /\ debt[s] /\ p \in retained[s]
    BY <2>1
  <2>3. QED
    BY <2>1, <2>2, Zenon DEF DebtInv, Retiring, Busy, Over, Finished
<1>8. CASE ScopeEnd \/ SubmitThrow \/ OrchEnqueue \/ OrchReleased \/ CloseRunSubmission \/ FailRunSubmission \/ CancelThrow
  <2>1. UNCHANGED <<state, debt, sstep, work, orefs, retained>> /\ (ostep' = ostep \/ ostep' = Idle)
    BY <1>8, Zenon DEF ScopeEnd, SubmitThrow, OrchEnqueue, OrchReleased, CloseRunSubmission, FailRunSubmission, CancelThrow, slotVars, orchVars, schedVars, releaseVars
  <2>2. QED
    BY <1>1, <2>1, Zenon
<1>9. QED
  BY <1>2, <1>3, <1>4, <1>5, <1>6, <1>7, <1>8, Zenon DEF Orch

(* The Scheduler takes its work from a slot it has just finished and that    *)
(* nobody else settles; its releases come later, see ReleaseDebt.            *)
LEMMA DebtSched ==
    ASSUME BaseInv, DebtInv, Sched,
           ~\E s \in Slots : SchedReleaseSelf(s), ~\E s, p \in Slots : SchedReleaseRef(s, p)
    PROVE  DebtInv'
<1> USE DEF BaseInv
<1>0. UNCHANGED <<ostep, orefs>>
  BY OthersQuiet, Zenon DEF OrchQuiet, orchVars, releaseVars
<1>1. ASSUME UNCHANGED <<debt, retained>>,
             \A s \in Slots : /\ sstep' # Step("retire", s) /\ sstep' # Step("snapshot", s) /\ (Busy(s)' => Busy(s))
                              /\ state'[s] # state[s] => ~debt[s] /\ (state[s] \in Over => state'[s] \in Over)
      PROVE  DebtInv'
  <2>1. ASSUME NEW s \in Slots
        PROVE  /\ state[s] \in Over => state'[s] \in Over
               /\ debt'[s] => debt[s] /\ state'[s] = "FAILED"
               /\ Retiring(s)' => Retiring(s)
    BY <1>0, <1>1, Zenon DEF DebtInv, Retiring
  <2>2. QED
    BY <1>0, <1>1, <2>1, DebtShrinks, Zenon
<1>2. ASSUME NEW s \in Slots, PopReady(s)
      PROVE  DebtInv'
  <2>1. \A u \in Slots : sstep' # Step("retire", u) /\ sstep' # Step("snapshot", u)
    BY <1>2, NotSnapshot, Zenon DEF PopReady
  <2>2. QED
    BY <1>1, <1>2, <2>1, Zenon DEF PopReady, slotVars, Busy
<1>3. CASE Dispatch
  <2>1. \A u \in Slots : sstep' # Step("retire", u) /\ sstep' # Step("snapshot", u)
    BY <1>3, NotSnapshot, Zenon DEF Dispatch
  <2>2. \A u \in Slots : state'[u] # state[u] => state[u] = "READY"
    BY <1>3, Zenon DEF Dispatch, ClaimForDispatch, TypeOK, WordTypes
  <2>3. QED
    BY <1>1, <1>3, <2>1, <2>2, Zenon DEF Dispatch, Busy, DebtInv, Over, Finished
<1>4. ASSUME NEW s \in Slots, OnTaskComplete(s)
      PROVE  DebtInv'
  <2>1. state[s] = "RUNNING" /\ UNCHANGED <<debt, retained, sstep>>
    BY <1>4, Zenon DEF OnTaskComplete, LifeInv
  <2>2. state'[s] \in Over
    BY <1>4, Zenon DEF OnTaskComplete, TypeOK, WordTypes, Over, Finished
  <2>3. \A u \in Slots : u # s => state'[u] = state[u] /\ work'[u] = work[u]
    BY <1>4, Zenon DEF OnTaskComplete, TypeOK, WordTypes, WorkTypes
  <2>4. ~debt[s] /\ ~Retiring(s) /\ sstep # Step("snapshot", s) /\ \A p \in Slots : <<s, p>> \notin orefs
    BY <2>1, Zenon DEF DebtInv, Over, Finished
  <2>5. QED
    BY <1>0, <2>1, <2>2, <2>3, <2>4, ZenonT(30) DEF DebtInv, Retiring, Busy
<1>5. ASSUME NEW s \in Slots, NEW c \in Slots, ReleaseConsumer(s, c)
      PROVE  DebtInv'
  <2>1. \A u \in Slots : sstep' # Step("retire", u) /\ sstep' # Step("snapshot", u)
    BY <1>5, NotSnapshot, Zenon DEF ReleaseConsumer
  <2>2. \A u \in Slots : Busy(u)' => Busy(u)
    BY <1>5 DEF ReleaseConsumer, Busy, TypeOK, WorkTypes
  <2>3. QED
    BY <1>1, <1>5, <2>1, <2>2, Zenon DEF ReleaseConsumer
<1>6. CASE TryMarkReady
  <2>1. \A u \in Slots : sstep' # Step("retire", u) /\ sstep' # Step("snapshot", u)
    <3>1. sstep' = Step("enqueue", sstep.slot) \/ sstep' = Idle
      BY <1>6, Zenon DEF TryMarkReady
    <3>2. QED
      BY <3>1, NotSnapshot, Zenon
  <2>2. \A u \in Slots : state'[u] # state[u] => state[u] = "PENDING"
    BY <1>6, Zenon DEF TryMarkReady, CanMarkReady, TypeOK, WordTypes
  <2>3. QED
    BY <1>1, <1>6, <2>1, <2>2, Zenon DEF TryMarkReady, Busy, DebtInv, Over, Finished
<1>7. CASE SchedEnqueue
  <2>1. \A u \in Slots : sstep' # Step("retire", u) /\ sstep' # Step("snapshot", u)
    BY <1>7, NotSnapshot, Zenon DEF SchedEnqueue
  <2>2. QED
    BY <1>1, <1>7, <2>1, Zenon DEF SchedEnqueue, slotVars, Busy
<1>8. ASSUME NEW s \in Slots, NEW c \in Slots, PoisonTask(s, c)
      PROVE  DebtInv'
  <2>1. /\ \A u \in Slots : u # c => state'[u] = state[u] /\ debt'[u] = debt[u]
        /\ IF state[c] \in Claimable THEN state'[c] = "FAILED" ELSE state'[c] = state[c] /\ debt'[c] = debt[c]
        /\ UNCHANGED retained
    BY <1>8, SMTT(30) DEF PoisonTask, OwesPropagation, Claimable, TypeOK, WordTypes, FlagTypes
  <2>2. \A u \in Slots : Busy(u)' => Busy(u)
    BY <1>8 DEF PoisonTask, Busy, TypeOK, WorkTypes
  <2>3. debt'[c] => debt[c] \/ state[c] = "BUILDING"
    BY <1>8, Zenon DEF PoisonTask, OwesPropagation, TypeOK, FlagTypes
  <2>4. \A u \in Slots : sstep' # Step("retire", u)
    BY <1>8, NotSnapshot, StepsDiffer, Zenon DEF PoisonTask
  <2>5. \A u \in Slots : sstep' = Step("snapshot", u) => u = c /\ state[c] \in {"PENDING", "READY"}
    BY <1>8, NotSnapshot, StepsDiffer, Zenon DEF PoisonTask
  <2>6. state[c] \in Claimable => /\ ~debt[c] /\ ~Retiring(c) /\ ~Busy(c)
                                  /\ \A p \in Slots : <<c, p>> \notin orefs
    BY Zenon DEF DebtInv, Over, Finished, Claimable
  <2>7. QED
    BY <1>0, <2>1, <2>2, <2>3, <2>4, <2>5, <2>6, Zenon DEF DebtInv, Retiring, Over, Finished, Claimable
<1>9. CASE PoisonSnapshot
  <2>1. sstep.slot \in Slots /\ sstep = Step("snapshot", sstep.slot)
    BY <1>9, StepSlots, Zenon DEF PoisonSnapshot, StepKinds
  <2>2. \A u \in Slots : sstep' # Step("retire", u) /\ sstep' # Step("snapshot", u)
    BY <1>9, NotSnapshot, Zenon DEF PoisonSnapshot
  <2>3. UNCHANGED <<state, debt, retained>> /\ \A u \in Slots : u # sstep.slot => work'[u] = work[u]
    BY <1>9, Zenon DEF PoisonSnapshot, slotVars, TypeOK, WorkTypes
  <2>4. QED
    BY <1>0, <2>1, <2>2, <2>3, Zenon DEF DebtInv, Retiring, Busy
<1>10. CASE SchedRetire
  <2>1. sstep.slot \in Slots /\ sstep = Step("retire", sstep.slot)
    BY <1>10, StepSlots, Zenon DEF SchedRetire, StepKinds
  <2>2. \A u \in Slots : sstep' # Step("retire", u) /\ sstep' # Step("snapshot", u)
    BY <1>10, NotSnapshot, Zenon DEF SchedRetire
  <2>3. \A u \in Slots : state'[u] = state[u] \/ (u = sstep.slot /\ state'[u] = "CONSUMED")
    BY <1>10, <2>1, Zenon DEF SchedRetire, OnConsumed, TypeOK, WordTypes
  <2>4. QED
    BY <1>1, <1>10, <2>1, <2>2, <2>3, ZenonT(30) DEF SchedRetire, DebtInv, Retiring, Busy, Over
<1>11. QED
  BY <1>2, <1>3, <1>4, <1>5, <1>6, <1>7, <1>8, <1>9, <1>10, Zenon DEF Sched
-----------------------------------------------------------------------------
(* There is no reference of any kind to a slot not handed out.               *)
LEMMA FreshRefs ==
    ASSUME BaseInv, DebtInv, NEW p \in Slots, p > used
    PROVE  /\ ~InScope(p) /\ p \notin oself /\ ~SelfPending(p) /\ Readers(p) = {}
           /\ \A c \in Slots : p \notin retained[c] /\ p \notin consumers[c]
<1> USE DEF BaseInv
<1>1. used \in Nat /\ depth \in 0 .. MaxDepth /\ ~(p <= used) /\ \A c \in Slots : c <= used => ~(p < c)
  BY DEF TypeOK, IndexTypes, Slots
<1>2. state[p] = "FREE"
  BY Zenon DEF LifeInv
<1>3. 1 .. depth \subseteq 1 .. MaxDepth
  BY <1>1, DepthAssumption
<1>4. ~InScope(p) /\ p \notin oself
  BY <1>1, <1>3, Zenon DEF ScopeInv, InScope
<1>5. ~SelfPending(p)
  BY <1>2, Zenon DEF DebtInv, SelfPending, Held, Busy, Claimable, Over, Finished
<1>6. \A c \in Slots : p \notin retained[c] /\ p \notin consumers[c]
  BY <1>1, Zenon DEF EdgeInv
<1>7. QED
  BY <1>4, <1>5, <1>6, Zenon DEF Readers, ConsumerPending

(* A new slot has the reference of its scope, if it is in one, and its own   *)
(* unless it is born finished; it changes nobody else's.                     *)
LEMMA CreateRefs ==
    ASSUME BaseInv, DebtInv, NEW s \in Slots, s = used + 1, depth > 0, NEW x \in TaskStates, NEW scoped \in BOOLEAN,
           state' = [state EXCEPT ![s] = x],
           frame' = IF scoped THEN [frame EXCEPT ![depth] = @ \cup {s}] ELSE frame,
           UNCHANGED <<depth, oself, orefs, retained, debt, sstep, work>>
    PROVE  /\ \A p \in Slots : p # s => Refs(p)' = Refs(p)
           /\ Refs(s)' = One(scoped) + One(x \in Claimable \cup {"RUNNING"})
<1>1. s > used /\ depth \in 1 .. depth /\ depth \in 1 .. MaxDepth
  BY DepthAssumption DEF BaseInv, TypeOK, IndexTypes, Slots
<1>2. /\ ~InScope(s) /\ s \notin oself /\ ~SelfPending(s) /\ Readers(s) = {}
      /\ \A c \in Slots : s \notin retained[c] /\ s \notin consumers[c]
  BY <1>1, FreshRefs, Zenon
<1>3. retained[s] = {}
  <2>1. \A p \in Slots : p \notin retained[s]
    BY <1>1 DEF BaseInv, EdgeInv, Slots, TypeOK, IndexTypes
  <2>2. QED
    BY <1>1, <2>1, Zenon DEF BaseInv, TypeOK, SetTypes
<1>4. /\ state'[s] = x /\ \A p \in Slots : p # s => state'[p] = state[p]
      /\ \A d \in 1 .. MaxDepth : frame'[d] = IF scoped /\ d = depth THEN frame[d] \cup {s} ELSE frame[d]
  BY <1>1, Zenon DEF BaseInv, TypeOK, WordTypes, SetTypes
<1>5. \A c, p \in Slots : ConsumerPending(c, p)' <=> ConsumerPending(c, p)
  BY <1>3, <1>4, Zenon DEF ConsumerPending
<1>6. \A p \in Slots : Readers(p)' = Readers(p)
  BY <1>5, Zenon DEF Readers
<1>7. 1 .. depth \subseteq 1 .. MaxDepth
  BY DepthAssumption DEF BaseInv, TypeOK, IndexTypes
<1>8. \A p \in Slots : p # s => (InScope(p)' <=> InScope(p)) /\ (SelfPending(p)' <=> SelfPending(p))
  <2>1. \A p \in Slots : p # s => (SelfPending(p)' <=> SelfPending(p))
    BY <1>4, Zenon DEF SelfPending, Held
  <2>2. \A d \in 1 .. depth : \A p \in Slots : p # s => (p \in frame'[d] <=> p \in frame[d])
    BY <1>4, <1>7
  <2>3. QED
    BY <2>1, <2>2, Zenon DEF InScope
<1>9. InScope(s)' <=> scoped
  <2>1. \A d \in 1 .. depth : s \notin frame[d]
    BY <1>2, Zenon DEF InScope
  <2>2. \A d \in 1 .. depth : s \in frame'[d] <=> scoped /\ d = depth
    BY <1>4, <1>7, <2>1
  <2>3. QED
    BY <1>1, <2>2, Zenon DEF InScope
<1>10. SelfPending(s)' <=> x \in Claimable \cup {"RUNNING"}
  BY <1>1, <1>2, <1>4, Zenon DEF SelfPending, Held
<1>11. \A p \in Slots : p # s => Refs(p)' = Refs(p)
  BY <1>6, <1>8, Zenon DEF Refs, One
<1>12. Cardinality(Readers(s)) = 0
  BY <1>1, <1>2, SlotSets
<1>13. Refs(s)' = One(scoped) + 0 + One(x \in Claimable \cup {"RUNNING"}) + 0
  <2>1. One(InScope(s)') = One(scoped) /\ One(SelfPending(s)') = One(x \in Claimable \cup {"RUNNING"})
    BY <1>9, <1>10, Zenon DEF One
  <2>2. One(s \in oself') = 0
    BY <1>2, Zenon DEF One
  <2>3. Refs(s)' = One(InScope(s)') + One(s \in oself') + One(SelfPending(s)') + Cardinality(Readers(s)')
    BY Zenon DEF Refs, One
  <2>4. QED
    BY <1>1, <1>6, <1>12, <2>1, <2>2, <2>3, Zenon
<1>14. QED
  BY <1>11, <1>13 DEF One

(* alloc and submit charge a new slot for its scope and its own reference,   *)
(* also when the registration in between throws.                             *)
LEMMA RefsCallback == BaseInv /\ DebtInv /\ RefsInv /\ Callback => RefsInv'
<1> SUFFICES ASSUME BaseInv, DebtInv, RefsInv, Callback PROVE RefsInv'
  OBVIOUS
<1>1. CASE ScopeBegin
  <2>1. depth \in 0 .. MaxDepth /\ depth < MaxDepth /\ depth' = depth + 1 /\ 1 .. depth \subseteq 1 .. MaxDepth
    BY <1>1, DepthAssumption, SMTT(30) DEF ScopeBegin, ScopeRoom, BaseInv, TypeOK, IndexTypes
  <2>2. 1 .. depth' = (1 .. depth) \cup {depth + 1} /\ depth + 1 \in 1 .. MaxDepth /\ depth + 1 \notin 1 .. depth
    BY <2>1, DepthAssumption
  <2>3. \A d \in 1 .. depth : frame'[d] = frame[d]
    BY <1>1, <2>1, <2>2, Zenon DEF ScopeBegin, BaseInv, TypeOK, SetTypes
  <2>4. frame'[depth + 1] = {}
    BY <1>1, <2>2, Zenon DEF ScopeBegin, BaseInv, TypeOK, SetTypes
  <2>5. \A p \in Slots : InScope(p)' <=> InScope(p)
    BY <2>2, <2>3, <2>4, Zenon DEF InScope
  <2>6. UNCHANGED <<slotVars, oself, orefs, work, sstep, threw, used>>
    BY <1>1, Zenon DEF ScopeBegin, releaseVars, schedVars, orchVars, submitVars
  <2>7. \A p \in Slots : Readers(p)' = Readers(p) /\ (SelfPending(p)' <=> SelfPending(p))
    BY <2>6, Zenon DEF slotVars, Readers, ConsumerPending, SelfPending, Held
  <2>8. \A p \in Slots : Refs(p)' = Refs(p)
    BY <2>5, <2>6, <2>7, Zenon DEF Refs, One
  <2>9. QED
    BY <2>6, <2>8, Zenon DEF slotVars, RefsInv, Bare
<1>2. ASSUME CallbackRunning, used < N, used' = used + 1, threw' = threw, NEW s \in Slots, s = used + 1,
             UNCHANGED <<retained, consumers>>, \A p \in Slots : p # s => Refs(p)' = Refs(p),
             \A p \in Slots : p # s => fanoutTotal'[p] = fanoutTotal[p] /\ fanoutReleased'[p] = fanoutReleased[p],
             fanoutReleased'[s] + Refs(s)' = fanoutTotal'[s] + 1
      PROVE  RefsInv'
  <2>1. \A p \in Slots : p > used' => p # s /\ p > used
    BY <1>2, SlotOrder, Zenon DEF BaseInv
  <2>2. \A p \in Slots : p <= used' => p = s \/ p <= used
    BY <1>2, SlotOrder, Zenon DEF BaseInv
  <2>3. \A p \in Slots : ~Bare(p)
    BY <1>2, Zenon DEF CallbackRunning, Bare
  <2>4. QED
    BY <1>2, <2>1, <2>2, <2>3, Zenon DEF RefsInv
<1>3. ASSUME used < N
      PROVE  /\ used + 1 \in Slots /\ fanoutTotal[used + 1] = 0 /\ fanoutReleased[used + 1] = 0
             /\ \A c \in Slots : used + 1 \notin retained[c] /\ used + 1 \notin consumers[c]
  <2>1. used + 1 \in Slots /\ used + 1 > used
    BY <1>3, NAssumption DEF Slots, BaseInv, TypeOK, IndexTypes
  <2>2. QED
    BY <2>1, FreshRefs, Zenon DEF RefsInv
<1>4. CASE Alloc
  <2>1. PICK s \in Slots : s = used + 1
    BY <1>3, <1>4, Zenon DEF Alloc
  <2>2. /\ depth > 0 /\ state' = [state EXCEPT ![s] = "COMPLETED"] /\ used' = s
        /\ frame' = IF TRUE THEN [frame EXCEPT ![depth] = @ \cup {s}] ELSE frame
        /\ UNCHANGED <<depth, oself, orefs, retained, consumers, debt, sstep, work, threw>>
    BY <1>4, <2>1, Zenon DEF Alloc, CallbackRunning, releaseVars, schedVars, orchVars
  <2>3. Refs(s)' = One(TRUE) + One("COMPLETED" \in Claimable \cup {"RUNNING"}) /\ \A p \in Slots : p # s => Refs(p)' = Refs(p)
    BY <2>1, <2>2, CreateRefs, Zenon DEF TaskStates
  <2>4. Refs(s)' = 1
    BY <2>3 DEF One, Claimable
  <2>5. fanoutTotal'[s] = 1 /\ fanoutReleased'[s] = 1
    BY <1>4, <2>1, <2>2, Zenon DEF Alloc, ScopeRef, BaseInv, TypeOK, CounterTypes
  <2>6. \A p \in Slots : p # s => fanoutTotal'[p] = fanoutTotal[p] /\ fanoutReleased'[p] = fanoutReleased[p]
    BY <1>4, <2>1, Zenon DEF Alloc, BaseInv, TypeOK, CounterTypes
  <2>7. CallbackRunning /\ used < N
    BY <1>4, Zenon DEF Alloc
  <2>8. fanoutReleased'[s] + Refs(s)' = fanoutTotal'[s] + 1
    BY SMTT(30), <2>4, <2>5
  <2>9. QED
    BY <1>2, <2>1, <2>2, <2>3, <2>6, <2>7, <2>8, Zenon
<1>5. ASSUME NEW D \in SUBSET Slots, NEW R \in SUBSET D, SubmitBegin(D, R)
      PROVE  RefsInv'
  <2>1. PICK s \in Slots : s = used + 1
    BY <1>3, <1>5, Zenon DEF SubmitBegin
  <2>2. /\ depth > 0 /\ state' = [state EXCEPT ![s] = "BUILDING"] /\ used' = s
        /\ frame' = IF TRUE THEN [frame EXCEPT ![depth] = @ \cup {s}] ELSE frame
        /\ UNCHANGED <<depth, oself, orefs, retained, consumers, debt, sstep, work, threw>>
    BY <1>5, <2>1, Zenon DEF SubmitBegin, CallbackRunning, releaseVars, schedVars, orchVars
  <2>3. Refs(s)' = One(TRUE) + One("BUILDING" \in Claimable \cup {"RUNNING"}) /\ \A p \in Slots : p # s => Refs(p)' = Refs(p)
    BY <2>1, <2>2, CreateRefs, Zenon DEF TaskStates
  <2>4. Refs(s)' = 2
    BY <2>3 DEF One, Claimable
  <2>5. fanoutTotal'[s] = 1 /\ fanoutReleased'[s] = 0
    BY <1>3, <1>5, <2>1, <2>2, Zenon DEF SubmitBegin, ScopeRef, BaseInv, TypeOK, CounterTypes
  <2>6. \A p \in Slots : p # s => fanoutTotal'[p] = fanoutTotal[p] /\ fanoutReleased'[p] = fanoutReleased[p]
    BY <1>5, <2>1, Zenon DEF SubmitBegin, BaseInv, TypeOK, CounterTypes
  <2>7. CallbackRunning /\ used < N
    BY <1>5, Zenon DEF SubmitBegin
  <2>8. fanoutReleased'[s] + Refs(s)' = fanoutTotal'[s] + 1
    BY <2>4, <2>5
  <2>9. QED
    BY <1>2, <2>1, <2>2, <2>3, <2>6, <2>7, <2>8, Zenon
<1>6. ASSUME NEW reached \in {"unregistered", "unscoped", "uncharged"}, BuildThrow(reached)
      PROVE  RefsInv'
  <2>1. PICK s \in Slots : s = used + 1
    BY <1>3, <1>6, Zenon DEF BuildThrow
  <2>2. PICK x \in {"CONSUMED", "BUILDING"} : x = IF reached = "unregistered" THEN "CONSUMED" ELSE "BUILDING"
    BY Zenon
  <2>3. /\ depth > 0 /\ state' = [state EXCEPT ![s] = x] /\ used' = s /\ threw'
        /\ frame' = IF reached = "uncharged" THEN [frame EXCEPT ![depth] = @ \cup {s}] ELSE frame
        /\ UNCHANGED <<depth, oself, orefs, retained, consumers, debt, sstep, work, fanoutTotal, fanoutReleased>>
    BY <1>6, <2>1, <2>2, Zenon DEF BuildThrow, CallbackRunning, releaseVars, schedVars
  <2>4. /\ Refs(s)' = One(reached = "uncharged") + One(x \in Claimable \cup {"RUNNING"})
        /\ \A p \in Slots : p # s => Refs(p)' = Refs(p)
    BY <2>1, <2>2, <2>3, CreateRefs, Zenon DEF TaskStates
  <2>5. Refs(s)' <= 1 \/ x = "BUILDING"
    BY <2>2, <2>4 DEF One, Claimable
  <2>6. Bare(s)'
    BY <1>3, <1>6, <2>1, <2>3, <2>5, ZenonT(30) DEF Bare, BuildThrow, BaseInv, TypeOK, WordTypes
  <2>7. \A p \in Slots : p > used' => p > used
    BY <2>1, <2>3, SlotOrder, Zenon DEF BaseInv
  <2>8. \A p \in Slots : p <= used' => p = s \/ p <= used
    BY <2>1, <2>3, SlotOrder, Zenon DEF BaseInv
  <2>9. \A p \in Slots : ~Bare(p)
    BY <1>6, Zenon DEF BuildThrow, CallbackRunning, Bare
  <2>10. \A p \in Slots : p <= used' => fanoutReleased'[p] + Refs(p)' = fanoutTotal'[p] + 1 \/ Bare(p)'
    BY <2>3, <2>4, <2>6, <2>8, <2>9, Zenon DEF RefsInv
  <2>11. QED
    BY <2>3, <2>7, <2>10, Zenon DEF RefsInv
<1>7. QED
  BY <1>1, <1>4, <1>5, <1>6, Zenon DEF Callback

(* A step that moves no reference and leaves no bare slot with two of them.  *)
LEMMA RefsQuiet ==
    ASSUME RefsInv, UNCHANGED <<used, fanoutTotal, fanoutReleased, consumers, retained>>, threw => threw',
           \A p \in Slots : Refs(p)' = Refs(p),
           \A p \in Slots : Bare(p) /\ state[p] = "BUILDING" => state'[p] = "BUILDING" \/ Refs(p) <= 1
    PROVE  RefsInv'
<1>1. \A p \in Slots : Bare(p) => Bare(p)'
  BY Zenon DEF Bare
<1>2. QED
  BY <1>1, Zenon DEF RefsInv

(* The references a slot holds itself change hands: from a debt or from the  *)
(* submit to the orch thread's releases.                                     *)
LEMMA HandedRefs ==
    ASSUME UNCHANGED <<depth, frame>>, oself = {},
           \A s \in Slots : s \in oself' => SelfPending(s) /\ ~SelfPending(s)',
           \A s \in Slots : s \notin oself' => (SelfPending(s)' <=> SelfPending(s)),
           \A c, p \in Slots : ConsumerPending(c, p)' <=> ConsumerPending(c, p)
    PROVE  \A p \in Slots : Refs(p)' = Refs(p)
<1> SUFFICES ASSUME NEW p \in Slots PROVE Refs(p)' = Refs(p)
  OBVIOUS
<1>1. Readers(p)' = Readers(p)
  BY Zenon DEF Readers
<1>2. InScope(p)' <=> InScope(p)
  BY Zenon DEF InScope
<1>3. One(InScope(p)') = One(InScope(p))
  BY <1>2, Zenon DEF One
<1>4. One(p \in oself') + One(SelfPending(p)') = One(p \in oself) + One(SelfPending(p))
  BY DEF One
<1>5. One(InScope(p)) \in Nat /\ One(p \in oself) \in Nat /\ One(SelfPending(p)) \in Nat
  BY DEF One
<1>6. One(InScope(p)') \in Nat /\ One(p \in oself') \in Nat /\ One(SelfPending(p)') \in Nat
  BY DEF One
<1>7. /\ Refs(p)' = One(InScope(p)') + One(p \in oself') + One(SelfPending(p)') + Cardinality(Readers(p)')
      /\ Refs(p) = One(InScope(p)) + One(p \in oself) + One(SelfPending(p)) + Cardinality(Readers(p))
  BY Zenon DEF Refs, One
<1>8. Cardinality(Readers(p)) \in Nat
  BY ReadersCount, Zenon
<1>9. QED
  BY SMTT(30), <1>1, <1>3, <1>4, <1>5, <1>6, <1>7, <1>8

(* submit_impl charges a producer for the consumer it wires, unless the      *)
(* producer is not to be retained.                                           *)
LEMMA RefsWire ==
    ASSUME BaseInv, DebtInv, RefsInv, NEW p \in Slots, Wire(p)
    PROVE  RefsInv'
<1>1. PICK c \in Slots : c = cur
  BY Zenon DEF Wire, BaseInv, TypeOK, IndexTypes
<1>2. UNCHANGED <<state, fanoutReleased, debt, depth, frame, used, oself, orefs, work, sstep, threw>>
  BY Zenon DEF Wire, scopeVars, releaseVars, orchVars, schedVars
<1>3. \A q \in Slots : ~Bare(q)
  BY Zenon DEF Wire, BaseInv, OrchInv, Bare
<1>4. \A q \in Slots : (InScope(q)' <=> InScope(q)) /\ (SelfPending(q)' <=> SelfPending(q))
  BY <1>2, Zenon DEF InScope, SelfPending, Held
<1>5. CASE ~Retains(p)
  <2>1. UNCHANGED <<fanoutTotal, retained>>
    BY <1>5, Zenon DEF Wire
  <2>2. \A q \in Slots : Readers(q)' = Readers(q)
    BY <1>2, <2>1, Zenon DEF Readers, ConsumerPending
  <2>3. \A q \in Slots : Refs(q)' = Refs(q)
    BY <1>2, <1>4, <2>2, Zenon DEF Refs, One
  <2>4. QED
    BY <1>2, <1>3, <2>1, <2>3, Zenon DEF RefsInv
<1>6. CASE Retains(p)
  <2>1. /\ fanoutTotal' = [fanoutTotal EXCEPT ![p] = @ + 1]
        /\ retained' = [retained EXCEPT ![c] = @ \cup {p}]
    BY <1>1, <1>6, Zenon DEF Wire
  <2>2. p \notin retained[c] /\ Held(c) /\ p <= used
    <3>1. p \notin retained[c] /\ Held(c) /\ p < cur /\ cur = used
      BY <1>1, Zenon DEF Wire, BaseInv, EdgeInv, SlotInv, OrchInv, Held, Claimable
    <3>2. QED
      BY <1>1, <3>1, SlotOrder, Zenon DEF BaseInv
  <2>3. \A u \in Slots : retained'[u] = IF u = c THEN retained[u] \cup {p} ELSE retained[u]
    BY <2>1, Zenon DEF BaseInv, TypeOK, SetTypes
  <2>4. \A u, q \in Slots : ConsumerPending(u, q)' <=> ConsumerPending(u, q) \/ (u = c /\ q = p)
    BY <1>2, <2>2, <2>3, Zenon DEF ConsumerPending, Held
  <2>5. c \notin Readers(p) /\ Readers(p)' = Readers(p) \cup {c}
    BY <2>2, <2>4, Zenon DEF Readers, ConsumerPending
  <2>6. \A q \in Slots : q # p => Readers(q)' = Readers(q)
    BY <2>4, Zenon DEF Readers
  <2>7. \A q \in Slots : q # p => Refs(q)' = Refs(q) /\ fanoutTotal'[q] = fanoutTotal[q]
    BY <1>2, <1>4, <2>1, <2>6, Zenon DEF Refs, One, BaseInv, TypeOK, CounterTypes
  <2>8. Cardinality(Readers(p)') = Cardinality(Readers(p)) + 1 /\ Cardinality(Readers(p)) \in Nat
    BY <2>5, ReadersCount, SlotSets, ZenonT(30)
  <2>9. One(InScope(p)') = One(InScope(p)) /\ One(SelfPending(p)') = One(SelfPending(p)) /\ One(p \in oself') = One(p \in oself)
    BY <1>2, <1>4, Zenon DEF One
  <2>10. One(InScope(p)) \in Nat /\ One(p \in oself) \in Nat /\ One(SelfPending(p)) \in Nat
    BY DEF One
  <2>11. /\ Refs(p)' = One(InScope(p)') + One(p \in oself') + One(SelfPending(p)') + Cardinality(Readers(p)')
         /\ Refs(p) = One(InScope(p)) + One(p \in oself) + One(SelfPending(p)) + Cardinality(Readers(p))
    BY Zenon DEF Refs, One
  <2>12. Refs(p)' = Refs(p) + 1 /\ Refs(p) \in Nat
    BY SMTT(30), <2>8, <2>9, <2>10, <2>11
  <2>13. fanoutTotal'[p] = fanoutTotal[p] + 1 /\ fanoutTotal[p] \in Nat /\ fanoutReleased[p] \in Nat
    BY <2>1, Zenon DEF BaseInv, TypeOK, CounterTypes
  <2>14. fanoutReleased[p] + Refs(p) = fanoutTotal[p] + 1
    BY <1>3, <2>2, ZenonT(30) DEF RefsInv
  <2>15. \A a, b, t \in Nat : a + b = t + 1 => a + (b + 1) = (t + 1) + 1
    BY SMT
  <2>16. fanoutReleased'[p] + Refs(p)' = fanoutTotal'[p] + 1
    <3>1. fanoutReleased[p] + (Refs(p) + 1) = (fanoutTotal[p] + 1) + 1
      BY <2>12, <2>13, <2>14, <2>15, Zenon
    <3>2. QED
      BY <1>2, <2>12, <2>13, <3>1, Zenon
  <2>17. ~(p > used)
    BY <2>2, SlotOrder, Zenon DEF BaseInv
  <2>18. QED
    BY <1>2, <1>3, <2>7, <2>16, <2>17, Zenon DEF RefsInv
<1>7. QED
  BY <1>5, <1>6, Zenon

(* Closing a scope turns its references into releases to be made.            *)
LEMMA RefsScopeEnd ==
    ASSUME BaseInv, RefsInv, ScopeEnd
    PROVE  RefsInv'
<1>1. UNCHANGED <<slotVars, orefs, work, sstep, threw, used>> /\ oself = {} /\ depth > 0
  BY Zenon DEF ScopeEnd, OrchIdle, BaseInv, OrchInv, schedVars, submitVars
<1>2. \A p \in Slots : Readers(p)' = Readers(p) /\ (SelfPending(p)' <=> SelfPending(p))
  BY <1>1, Zenon DEF slotVars, Readers, ConsumerPending, SelfPending, Held
<1>3. depth \in 1 .. MaxDepth /\ 1 .. depth = (1 .. depth') \cup {depth} /\ depth \notin 1 .. depth' /\ 1 .. depth \subseteq 1 .. MaxDepth
  BY <1>1, DepthAssumption, SMTT(30) DEF ScopeEnd, BaseInv, TypeOK, IndexTypes
<1>4. oself' = frame[depth] /\ \A d \in 1 .. depth' : frame'[d] = frame[d]
  BY <1>3, Zenon DEF ScopeEnd, BaseInv, TypeOK, SetTypes
<1>5. ASSUME NEW p \in Slots
      PROVE  Refs(p)' = Refs(p)
  <2>1. InScope(p) <=> InScope(p)' \/ p \in oself'
    BY <1>3, <1>4, Zenon DEF InScope
  <2>2. ~(InScope(p)' /\ p \in oself')
    BY <1>3, <1>4, Zenon DEF InScope, BaseInv, ScopeInv
  <2>3. One(InScope(p)') + One(p \in oself') = One(InScope(p)) + One(p \in oself)
    BY <1>1, <2>1, <2>2, SMTT(30) DEF One
  <2>4. One(SelfPending(p)') = One(SelfPending(p)) /\ Cardinality(Readers(p)') = Cardinality(Readers(p))
    BY <1>2, Zenon DEF One
  <2>5. /\ Refs(p)' = One(InScope(p)') + One(p \in oself') + One(SelfPending(p)') + Cardinality(Readers(p)')
        /\ Refs(p) = One(InScope(p)) + One(p \in oself) + One(SelfPending(p)) + Cardinality(Readers(p))
    BY Zenon DEF Refs, One
  <2>6. QED
    BY <2>3, <2>4, <2>5, Zenon
<1>6. QED
  BY <1>1, <1>5, RefsQuiet, Zenon DEF slotVars

(* The orch thread's steps other than releases keep the counters in          *)
(* agreement.                                                                *)
LEMMA RefsOrch ==
    ASSUME BaseInv, DebtInv, RefsInv, Orch,
           ~\E s \in Slots : OrchReleaseSelf(s), ~\E c, p \in Slots : OrchReleaseRef(c, p)
    PROVE  RefsInv'
<1>1. CASE Publish
  <2>1. /\ UNCHANGED <<used, fanoutTotal, fanoutReleased, consumers, retained, debt, depth, frame, oself, orefs, work, sstep, threw>>
        /\ \A s \in Slots : state'[s] = state[s] \/ (s = cur /\ {state[s], state'[s]} \subseteq Claimable)
    <3>1. PublishedState \in Claimable /\ cur \in Slots
      BY <1>1, Zenon DEF PublishedState, Publish, BaseInv, TypeOK, IndexTypes, Claimable
    <3>2. \A s \in Slots : state'[s] = state[s] \/ (s = cur /\ state[s] = "BUILDING" /\ state'[s] = PublishedState)
      BY <1>1, <3>1, Zenon DEF Publish, BaseInv, TypeOK, WordTypes
    <3>3. QED
      BY <1>1, <3>1, <3>2, Zenon DEF Publish, scopeVars, releaseVars, schedVars, Claimable
  <2>2. \A s \in Slots : Held(s)' <=> Held(s)
    BY <2>1, Zenon DEF Held
  <2>3. \A s \in Slots : SelfPending(s)' <=> SelfPending(s)
    BY <2>1, <2>2, Zenon DEF SelfPending
  <2>4. \A c, p \in Slots : ConsumerPending(c, p)' <=> ConsumerPending(c, p)
    BY <2>1, <2>2, Zenon DEF ConsumerPending, Held
  <2>5. \A p \in Slots : Refs(p)' = Refs(p)
    BY <2>1, <2>3, <2>4, SameRefs, Zenon
  <2>6. ~threw
    BY <1>1, Zenon DEF Publish, BaseInv, OrchInv
  <2>7. QED
    BY <2>1, <2>5, <2>6, RefsQuiet, Zenon DEF Bare
<1>2. ASSUME NEW raised \in BOOLEAN, PoisonSubmit(raised)
      PROVE  RefsInv'
  <2>1. PICK k \in Slots : k = cur
    BY <1>2, Zenon DEF PoisonSubmit, BaseInv, TypeOK, IndexTypes
  <2>2. state[k] = "BUILDING" \/ (state[k] = "FAILED" /\ debt[k])
    BY <2>1, ZenonT(30) DEF BaseInv, SlotInv, DebtInv
  <2>3. /\ state'[k] = "FAILED" /\ debt'[k] = raised
        /\ \A s \in Slots : s # k => state'[s] = state[s] /\ debt'[s] = debt[s]
        /\ oself' = IF raised THEN {} ELSE {k}
        /\ orefs' = IF raised THEN {} ELSE {k} \X retained[k]
    <3>1. state \in [Slots -> TaskStates] /\ debt \in [Slots -> BOOLEAN] /\ raised \in BOOLEAN
      BY <1>2, Zenon DEF BaseInv, TypeOK, WordTypes, FlagTypes
    <3>2. /\ state' = [state EXCEPT ![k] = IF @ = "BUILDING" THEN "FAILED" ELSE @]
          /\ debt' = [debt EXCEPT ![k] = raised /\ (debt[k] \/ state[k] = "BUILDING")]
          /\ oself' = IF (debt[k] \/ state[k] = "BUILDING") /\ ~raised THEN {k} ELSE {}
          /\ orefs' = IF (debt[k] \/ state[k] = "BUILDING") /\ ~raised THEN {k} \X retained[k] ELSE {}
      BY <1>2, <2>1, Zenon DEF PoisonSubmit
    <3>3. debt[k] \/ state[k] = "BUILDING"
      BY <2>2, Zenon
    <3>4. /\ oself' = IF raised THEN {} ELSE {k}
          /\ orefs' = IF raised THEN {} ELSE {k} \X retained[k]
      BY <3>2, <3>3, Zenon
    <3>5. state'[k] = "FAILED" /\ \A s \in Slots : s # k => state'[s] = state[s]
      BY <2>2, <3>1, <3>2, Zenon
    <3>6. debt'[k] = raised /\ \A s \in Slots : s # k => debt'[s] = debt[s]
      BY <3>1, <3>2, <3>3, Zenon
    <3>7. QED
      BY <3>4, <3>5, <3>6, Zenon
  <2>4. /\ UNCHANGED <<used, fanoutTotal, fanoutReleased, consumers, retained, depth, frame, work, sstep>>
        /\ ~threw /\ oself = {} /\ orefs = {}
    BY <1>2, Zenon DEF PoisonSubmit, BaseInv, OrchInv, scopeVars, schedVars
  <2>5. Held(k) /\ ~Busy(k) /\ sstep # Step("snapshot", k)
    BY <2>2, Zenon DEF DebtInv, Held, Claimable, Over, Finished
  <2>6. \A s \in Slots : s # k => (Held(s)' <=> Held(s))
    BY <2>3, <2>4, Zenon DEF Held
  <2>7. Held(k)' <=> raised
    BY <2>3, <2>4, <2>5, Zenon DEF Held, Claimable
  <2>8. ~work[k].self /\ work[k].prods = {}
    BY <2>5, Zenon DEF Busy
  <2>9. \A s \in Slots : s \in oself' => SelfPending(s) /\ ~SelfPending(s)'
    BY <2>3, <2>4, <2>5, <2>7, <2>8, Zenon DEF SelfPending
  <2>10. \A s \in Slots : s \notin oself' => (SelfPending(s)' <=> SelfPending(s))
    BY <2>3, <2>4, <2>5, <2>6, <2>7, Zenon DEF SelfPending
  <2>11. \A c, p \in Slots : ConsumerPending(c, p)' <=> ConsumerPending(c, p)
    <3>1. \A c, p \in Slots : <<c, p>> \in orefs' <=> ~raised /\ c = k /\ p \in retained[k]
      BY <2>3
    <3>2. QED
      BY <2>4, <2>5, <2>6, <2>7, <2>8, <3>1, ZenonT(30) DEF ConsumerPending, Held
  <2>12. \A p \in Slots : Refs(p)' = Refs(p)
    BY <2>4, <2>9, <2>10, <2>11, HandedRefs, Zenon
  <2>13. QED
    BY <2>4, <2>12, RefsQuiet, Zenon DEF Bare
<1>3. CASE OrchRetire
  <2>1. /\ UNCHANGED <<used, fanoutTotal, fanoutReleased, consumers, retained, debt, depth, frame, oself, orefs, work, sstep, threw>>
    BY <1>3, Zenon DEF OrchRetire, scopeVars, submitVars, releaseVars, schedVars
  <2>2. \A s \in Slots : state'[s] = state[s] \/ (state[s] \in Finished /\ state'[s] = "CONSUMED")
    BY <1>3, Zenon DEF OrchRetire, OnConsumed, BaseInv, TypeOK, WordTypes
  <2>3. \A s \in Slots : (Held(s)' <=> Held(s)) /\ (state[s] = "BUILDING" => state'[s] = "BUILDING")
    BY <2>1, <2>2, Zenon DEF Held, Claimable, Finished
  <2>4. \A s \in Slots : SelfPending(s)' <=> SelfPending(s)
    BY <2>1, <2>3, Zenon DEF SelfPending
  <2>5. \A c, p \in Slots : ConsumerPending(c, p)' <=> ConsumerPending(c, p)
    BY <2>1, <2>3, Zenon DEF ConsumerPending, Held
  <2>6. \A p \in Slots : Refs(p)' = Refs(p)
    BY <2>1, <2>4, <2>5, SameRefs, Zenon
  <2>7. QED
    BY <2>1, <2>3, <2>6, RefsQuiet, Zenon
<1>4. ASSUME NEW k \in Slots, CancelClaim(k)
      PROVE  RefsInv'
  <2>1. /\ UNCHANGED <<used, fanoutTotal, fanoutReleased, consumers, retained, depth, frame, oself, orefs, work, sstep, threw>>
        /\ oself = {} /\ depth = 0
    BY <1>4, Zenon DEF CancelClaim, BaseInv, OrchInv, scopeVars, submitVars, orchVars, schedVars
  <2>2. /\ \A s \in Slots : s # k => state'[s] = state[s] /\ debt'[s] = debt[s]
        /\ IF state[k] \in Claimable THEN state'[k] = "FAILED" /\ debt'[k] ELSE state'[k] = state[k] /\ debt'[k] = debt[k]
    BY <1>4, Zenon DEF CancelClaim, BaseInv, TypeOK, WordTypes, FlagTypes
  <2>3. \A s \in Slots : Held(s)' <=> Held(s)
    BY <2>1, <2>2, Zenon DEF Held
  <2>4. \A s \in Slots : SelfPending(s)' <=> SelfPending(s)
    BY <2>1, <2>3, Zenon DEF SelfPending
  <2>5. \A c, p \in Slots : ConsumerPending(c, p)' <=> ConsumerPending(c, p)
    BY <2>1, <2>3, Zenon DEF ConsumerPending, Held
  <2>6. \A p \in Slots : Refs(p)' = Refs(p)
    BY <2>1, <2>4, <2>5, SameRefs, Zenon
  <2>7. ASSUME NEW p \in Slots, Bare(p) PROVE Refs(p) <= 1
    <3>1. Readers(p) = {}
      BY <2>7, Zenon DEF Bare, Readers, ConsumerPending
    <3>2. Cardinality(Readers(p)) = 0
      BY SMTT(30), <3>1, SlotSets
    <3>3. ~InScope(p)
      BY <2>1 DEF InScope
    <3>4. Refs(p) = One(InScope(p)) + One(p \in oself) + One(SelfPending(p)) + Cardinality(Readers(p))
      BY Zenon DEF Refs
    <3>5. One(InScope(p)) = 0 /\ One(p \in oself) = 0 /\ One(SelfPending(p)) \in {0, 1}
      BY <2>1, <3>3, SMTT(30) DEF One
    <3>6. QED
      BY SMTT(30), <3>2, <3>4, <3>5
  <2>8. QED
    BY <2>1, <2>6, <2>7, RefsQuiet, Zenon
<1>5. CASE CancelCommit
  <2>1. /\ UNCHANGED <<state, used, fanoutTotal, fanoutReleased, consumers, retained, depth, frame, work, sstep, threw>>
        /\ oself = {} /\ orefs = {}
        /\ \A s \in Slots : debt'[s] <=> debt[s] /\ s \notin batch
        /\ oself' = {s \in batch : debt[s]}
        /\ orefs' = {e \in oself' \X Slots : e[2] \in retained[e[1]]}
    BY <1>5, Zenon DEF CancelCommit, BaseInv, OrchInv, scopeVars, submitVars, schedVars
  <2>2. \A s \in Slots : debt[s] => /\ Held(s) /\ ~work[s].self /\ work[s].prods = {} /\ sstep # Step("snapshot", s)
                                    /\ state[s] \notin Claimable \cup {"RUNNING"}
    BY Zenon DEF DebtInv, Held, Busy, Claimable
  <2>3. \A s \in Slots : s \notin oself' => (Held(s)' <=> Held(s))
    BY <2>1, Zenon DEF Held
  <2>4. \A s \in Slots : s \in oself' => ~Held(s)' /\ debt[s]
    BY <2>1, <2>2, Zenon DEF Held
  <2>5. \A s \in Slots : s \in oself' => SelfPending(s) /\ ~SelfPending(s)'
    BY <2>1, <2>2, <2>4, Zenon DEF SelfPending
  <2>6. \A s \in Slots : s \notin oself' => (SelfPending(s)' <=> SelfPending(s))
    BY <2>1, <2>3, Zenon DEF SelfPending
  <2>7. \A c, p \in Slots : ConsumerPending(c, p)' <=> ConsumerPending(c, p)
    <3>1. \A c, p \in Slots : <<c, p>> \in orefs' <=> c \in oself' /\ p \in retained[c]
      BY <2>1
    <3>2. QED
      BY <2>1, <2>2, <2>3, <2>4, <3>1, ZenonT(30) DEF ConsumerPending, Held
  <2>8. \A p \in Slots : Refs(p)' = Refs(p)
    BY <2>1, <2>5, <2>6, <2>7, HandedRefs, Zenon
  <2>9. QED
    BY <2>1, <2>8, RefsQuiet, Zenon
<1>6. CASE SubmitThrow \/ OrchEnqueue \/ OrchReleased \/ CloseRunSubmission \/ FailRunSubmission \/ CancelThrow
  <2>0. UNCHANGED <<slotVars, used, depth, frame, oself, orefs, work, sstep>> /\ (threw' = threw \/ threw' = TRUE)
    BY <1>6, Zenon DEF SubmitThrow, OrchEnqueue, OrchReleased, CloseRunSubmission, FailRunSubmission, CancelThrow, submitVars, scopeVars, orchVars, schedVars, releaseVars
  <2>1. UNCHANGED <<slotVars, used, depth, frame, oself, orefs, work, sstep>> /\ (threw => threw')
    BY <2>0
  <2>2. \A s \in Slots : SelfPending(s)' <=> SelfPending(s)
    BY <2>1, Zenon DEF SelfPending, Held, slotVars
  <2>3. \A c, p \in Slots : ConsumerPending(c, p)' <=> ConsumerPending(c, p)
    BY <2>1, Zenon DEF ConsumerPending, slotVars
  <2>4. \A p \in Slots : Refs(p)' = Refs(p)
    BY <2>1, <2>2, <2>3, SameRefs, Zenon
  <2>5. QED
    BY <2>1, <2>4, RefsQuiet, Zenon DEF slotVars
<1>7. QED
  BY <1>1, <1>2, <1>3, <1>4, <1>5, <1>6, RefsWire, RefsScopeEnd, ZenonT(30) DEF Orch

(* So do the Scheduler's: finishing a task hands its references to the work  *)
(* that releases them.                                                       *)
LEMMA RefsSched ==
    ASSUME BaseInv, DebtInv, RefsInv, Sched,
           ~\E s \in Slots : SchedReleaseSelf(s), ~\E s, p \in Slots : SchedReleaseRef(s, p)
    PROVE  RefsInv'
<1>0. UNCHANGED <<used, depth, frame, oself, orefs, threw>>
  BY OthersQuiet, Zenon DEF OrchQuiet, scopeVars, submitVars, releaseVars, orchVars
<1>1. ASSUME UNCHANGED <<fanoutTotal, fanoutReleased, consumers, retained>>,
             \A s \in Slots : SelfPending(s)' <=> SelfPending(s),
             \A c, p \in Slots : ConsumerPending(c, p)' <=> ConsumerPending(c, p),
             \A p \in Slots : Bare(p) /\ state[p] = "BUILDING" => state'[p] = "BUILDING"
      PROVE  RefsInv'
  BY <1>0, <1>1, SameRefs, RefsQuiet, Zenon
<1>2. ASSUME UNCHANGED <<fanoutTotal, fanoutReleased, consumers, retained>>,
             \A s \in Slots : Held(s)' <=> Held(s),
             \A s \in Slots : work'[s].self = work[s].self /\ work'[s].prods = work[s].prods,
             \A p \in Slots : Bare(p) /\ state[p] = "BUILDING" => state'[p] = "BUILDING"
      PROVE  RefsInv'
  <2>1. \A s \in Slots : SelfPending(s)' <=> SelfPending(s)
    BY <1>2, Zenon DEF SelfPending
  <2>2. \A c, p \in Slots : ConsumerPending(c, p)' <=> ConsumerPending(c, p)
    BY <1>0, <1>2, Zenon DEF ConsumerPending, Held
  <2>3. QED
    BY <1>1, <1>2, <2>1, <2>2, Zenon
<1>3. ASSUME NEW s \in Slots, PopReady(s)
      PROVE  RefsInv'
  <2>1. \A u \in Slots : sstep' # Step("snapshot", u) /\ sstep # Step("snapshot", u)
    BY <1>3, NotSnapshot, Zenon DEF PopReady, SchedIdle
  <2>2. UNCHANGED <<slotVars, work>>
    BY <1>3, Zenon DEF PopReady
  <2>3. QED
    BY <1>2, <2>1, <2>2, Zenon DEF slotVars, Held
<1>4. CASE Dispatch
  <2>1. \A u \in Slots : sstep' # Step("snapshot", u) /\ sstep # Step("snapshot", u)
    BY <1>4, NotSnapshot, Zenon DEF Dispatch
  <2>2. \A u \in Slots : state'[u] = state[u] \/ (state[u] = "READY" /\ state'[u] = "RUNNING")
    BY <1>4, Zenon DEF Dispatch, ClaimForDispatch, BaseInv, TypeOK, WordTypes
  <2>3. UNCHANGED <<fanoutTotal, fanoutReleased, consumers, retained, debt, work>>
    BY <1>4, Zenon DEF Dispatch
  <2>4. \A u \in Slots : Held(u)' <=> Held(u)
    BY <2>1, <2>2, <2>3, Zenon DEF Held, Claimable
  <2>5. QED
    BY <1>2, <2>2, <2>3, <2>4, Zenon
<1>5. ASSUME NEW k \in Slots, OnTaskComplete(k)
      PROVE  RefsInv'
  <2>1. state[k] = "RUNNING" /\ UNCHANGED <<fanoutTotal, fanoutReleased, consumers, retained, debt, sstep>>
    BY <1>5, ZenonT(30) DEF OnTaskComplete, BaseInv, LifeInv
  <2>2. /\ \A u \in Slots : u # k => state'[u] = state[u] /\ work'[u] = work[u]
        /\ work'[k].self = TRUE /\ work'[k].prods = retained[k]
    BY <1>5, ZenonT(30) DEF OnTaskComplete, BaseInv, TypeOK, WordTypes, WorkTypes
  <2>3. \A s \in Slots : SelfPending(s)' <=> SelfPending(s)
    BY <2>1, <2>2, Zenon DEF SelfPending, Held
  <2>4. \A c, p \in Slots : ConsumerPending(c, p)' <=> ConsumerPending(c, p)
    <3>1. ASSUME NEW c \in Slots, NEW p \in Slots, c # k
          PROVE  ConsumerPending(c, p)' <=> ConsumerPending(c, p)
      BY <1>0, <2>1, <2>2, <3>1, Zenon DEF ConsumerPending
    <3>2. ASSUME NEW p \in Slots
          PROVE  ConsumerPending(k, p)' <=> ConsumerPending(k, p)
      BY <2>1, <2>2, Zenon DEF ConsumerPending
    <3>3. QED
      BY <3>1, <3>2, Zenon
  <2>5. QED
    BY <1>1, <2>1, <2>2, <2>3, <2>4, Zenon
<1>6. ASSUME NEW s \in Slots, NEW c \in Slots, ReleaseConsumer(s, c)
      PROVE  RefsInv'
  <2>1. \A u \in Slots : sstep' # Step("snapshot", u) /\ sstep # Step("snapshot", u)
    BY <1>6, NotSnapshot, Zenon DEF ReleaseConsumer
  <2>2. \A u \in Slots : work'[u].self = work[u].self /\ work'[u].prods = work[u].prods
    BY <1>6 DEF ReleaseConsumer, BaseInv, TypeOK, WorkTypes
  <2>3. UNCHANGED <<state, fanoutTotal, fanoutReleased, consumers, retained, debt>>
    BY <1>6, Zenon DEF ReleaseConsumer
  <2>4. QED
    BY <1>2, <2>1, <2>2, <2>3, Zenon DEF Held
<1>7. CASE TryMarkReady
  <2>1. \A u \in Slots : sstep' # Step("snapshot", u) /\ sstep # Step("snapshot", u)
    <3>1. sstep.kind = "mark" /\ (sstep' = Step("enqueue", sstep.slot) \/ sstep' = Idle)
      BY <1>7, Zenon DEF TryMarkReady
    <3>2. QED
      BY <3>1, NotSnapshot, Zenon
  <2>2. \A u \in Slots : state'[u] = state[u] \/ (state[u] = "PENDING" /\ state'[u] = "READY")
    BY <1>7, Zenon DEF TryMarkReady, CanMarkReady, BaseInv, TypeOK, WordTypes
  <2>3. UNCHANGED <<fanoutTotal, fanoutReleased, consumers, retained, debt, work>>
    BY <1>7, Zenon DEF TryMarkReady
  <2>4. \A u \in Slots : Held(u)' <=> Held(u)
    BY <2>1, <2>2, <2>3, Zenon DEF Held, Claimable
  <2>5. QED
    BY <1>2, <2>2, <2>3, <2>4, ZenonT(30)
<1>8. CASE SchedEnqueue
  <2>1. \A u \in Slots : sstep' # Step("snapshot", u) /\ sstep # Step("snapshot", u)
    BY <1>8, NotSnapshot, Zenon DEF SchedEnqueue
  <2>2. UNCHANGED <<slotVars, work>>
    BY <1>8, Zenon DEF SchedEnqueue
  <2>3. QED
    BY <1>2, <2>1, <2>2, Zenon DEF slotVars, Held
<1>9. ASSUME NEW s \in Slots, NEW k \in Slots, PoisonTask(s, k)
      PROVE  RefsInv'
  <2>1. /\ \A u \in Slots : u # k => state'[u] = state[u] /\ debt'[u] = debt[u]
        /\ IF state[k] \in Claimable THEN state'[k] = "FAILED" ELSE state'[k] = state[k] /\ debt'[k] = debt[k]
        /\ state[k] = "BUILDING" => debt'[k]
        /\ UNCHANGED <<fanoutTotal, fanoutReleased, consumers, retained>>
    BY <1>9, Zenon DEF PoisonTask, OwesPropagation, Claimable, BaseInv, TypeOK, WordTypes, FlagTypes
  <2>2. \A u \in Slots : work'[u].self = work[u].self /\ work'[u].prods = work[u].prods
    BY <1>9 DEF PoisonTask, BaseInv, TypeOK, WorkTypes
  <2>3. \A u \in Slots : sstep # Step("snapshot", u)
    BY <1>9, NotSnapshot, Zenon DEF PoisonTask
  <2>4. \A u \in Slots : sstep' = Step("snapshot", u) <=> u = k /\ state[k] \in {"PENDING", "READY"}
    BY <1>9, StepFields, SMTT(30) DEF PoisonTask
  <2>5. \A u \in Slots : Held(u)' <=> Held(u)
    BY <2>1, <2>3, <2>4, Zenon DEF Held, Claimable
  <2>6. ~Bare(k)
    BY <1>9, Zenon DEF PoisonTask, Bare, BaseInv, EdgeInv
  <2>7. QED
    BY <1>2, <2>1, <2>2, <2>5, <2>6, Zenon
<1>10. CASE PoisonSnapshot
  <2>1. PICK k \in Slots : sstep = Step("snapshot", k) /\ sstep.slot = k
    BY <1>10, StepSlots, Zenon DEF PoisonSnapshot, BaseInv, StepKinds
  <2>2. /\ UNCHANGED slotVars
        /\ \A u \in Slots : u # k => work'[u] = work[u] /\ sstep # Step("snapshot", u)
        /\ \A u \in Slots : sstep' # Step("snapshot", u)
        /\ work'[k].self = TRUE /\ work'[k].prods = retained[k]
    <3>1. /\ work' = [work EXCEPT ![k] = [cons |-> consumers[k], self |-> TRUE, prods |-> retained[k], bad |-> TRUE]]
          /\ sstep' = Idle /\ UNCHANGED slotVars
      BY <1>10, <2>1, Zenon DEF PoisonSnapshot
    <3>2. DOMAIN work = Slots
      BY Zenon DEF BaseInv, TypeOK, WorkTypes
    <3>3. /\ \A u \in Slots : u # k => work'[u] = work[u]
          /\ work'[k] = [cons |-> consumers[k], self |-> TRUE, prods |-> retained[k], bad |-> TRUE]
      BY <3>1, <3>2, ZenonT(30)
    <3>4. work'[k].self = TRUE /\ work'[k].prods = retained[k]
      BY <3>3, SMT
    <3>5. \A u \in Slots : u # k => sstep # Step("snapshot", u)
      BY <2>1, StepsDiffer, Zenon
    <3>6. \A u \in Slots : sstep' # Step("snapshot", u)
      BY <3>1, NotSnapshot, Zenon
    <3>7. QED
      BY <3>1, <3>3, <3>4, <3>5, <3>6, Zenon
  <2>3. \A s \in Slots : SelfPending(s)' <=> SelfPending(s)
    BY <2>1, <2>2, Zenon DEF SelfPending, Held, slotVars
  <2>4. \A c, p \in Slots : ConsumerPending(c, p)' <=> ConsumerPending(c, p)
    BY <1>0, <2>1, <2>2, Zenon DEF ConsumerPending, slotVars
  <2>5. QED
    BY <1>1, <2>2, <2>3, <2>4, Zenon DEF slotVars
<1>11. CASE SchedRetire
  <2>1. \A u \in Slots : sstep' # Step("snapshot", u) /\ sstep # Step("snapshot", u)
    BY <1>11, NotSnapshot, Zenon DEF SchedRetire
  <2>2. \A s \in Slots : state'[s] = state[s] \/ (state[s] \in Finished /\ state'[s] = "CONSUMED")
    BY <1>11, Zenon DEF SchedRetire, OnConsumed, BaseInv, TypeOK, WordTypes
  <2>3. UNCHANGED <<fanoutTotal, fanoutReleased, consumers, retained, debt, work>>
    BY <1>11, Zenon DEF SchedRetire
  <2>4. \A s \in Slots : (Held(s)' <=> Held(s)) /\ (state[s] = "BUILDING" => state'[s] = "BUILDING")
    BY <2>1, <2>2, <2>3, Zenon DEF Held, Claimable, Finished
  <2>5. QED
    BY <1>2, <2>3, <2>4, Zenon
<1>12. QED
  BY <1>3, <1>4, <1>5, <1>6, <1>7, <1>8, <1>9, <1>10, <1>11, ZenonT(30) DEF Sched
-----------------------------------------------------------------------------
(* RefsNat in the state after a step.                                        *)
LEMMA RefsNatNext ==
    \A p \in Slots : /\ Refs(p)' \in Nat
                     /\ Refs(p)' = 0 <=> (~InScope(p) /\ p \notin oself /\ ~SelfPending(p) /\ Readers(p) = {})'
<1>1. \A p \in Slots : /\ Refs(p) \in Nat
                       /\ Refs(p) = 0 <=> (~InScope(p) /\ p \notin oself /\ ~SelfPending(p) /\ Readers(p) = {})
  BY RefsNat, Zenon
<1>2. (\A p \in Slots : /\ Refs(p) \in Nat
                        /\ Refs(p) = 0 <=> (~InScope(p) /\ p \notin oself /\ ~SelfPending(p) /\ Readers(p) = {}))'
  BY <1>1, PTL
<1>3. QED
  BY <1>2

(* A release takes one reference off one slot and counts it.                 *)
Released(p) ==
    /\ p <= used
    /\ TryConsume(p)
    /\ UNCHANGED <<state, fanoutTotal, consumers, retained, debt, used, threw, depth, frame>>
    /\ Refs(p)' = Refs(p) - 1
    /\ \A q \in Slots : q # p => Refs(q)' = Refs(q)

(* The four release steps are that.                                          *)
LEMMA ReleaseSelf ==
    ASSUME BaseInv, DebtInv, NEW p \in Slots, OrchReleaseSelf(p) \/ SchedReleaseSelf(p)
    PROVE  Released(p)
<1>0. TryConsume(p) /\ UNCHANGED <<state, fanoutTotal, consumers, retained, debt, used, threw, depth, frame, orefs>>
  BY Zenon DEF OrchReleaseSelf, SchedReleaseSelf, submitVars, orchVars, scopeVars, releaseVars
<1>1. \A q \in Slots : InScope(q)' <=> InScope(q)
  BY <1>0, Zenon DEF InScope
<1>2. \A u \in Slots : sstep' = Step("snapshot", u) <=> sstep = Step("snapshot", u)
  BY NotSnapshot, Zenon DEF OrchReleaseSelf, SchedReleaseSelf, AfterConsume, schedVars
<1>3. \A u \in Slots : Held(u)' <=> Held(u)
  BY <1>0, <1>2, Zenon DEF Held
<1>4. \A u \in Slots : work'[u].prods = work[u].prods
  BY DEF OrchReleaseSelf, SchedReleaseSelf, schedVars, BaseInv, TypeOK, WorkTypes
<1>5. \A c, q \in Slots : ConsumerPending(c, q)' <=> ConsumerPending(c, q)
  BY <1>0, <1>2, <1>4, Zenon DEF ConsumerPending
<1>6. \A q \in Slots : Readers(q)' = Readers(q)
  BY <1>5, Zenon DEF Readers
<1>7. One(p \in oself) + One(SelfPending(p)) = One(p \in oself') + One(SelfPending(p)') + 1
      /\ p <= used /\ \A q \in Slots : q # p => (q \in oself' <=> q \in oself) /\ (SelfPending(q)' <=> SelfPending(q))
  <2>1. CASE OrchReleaseSelf(p)
    <3>1. p \in oself /\ oself' = oself \ {p} /\ UNCHANGED work
      BY <2>1, Zenon DEF OrchReleaseSelf, schedVars
    <3>2. \A q \in Slots : SelfPending(q)' <=> SelfPending(q)
      BY <1>3, <3>1, Zenon DEF SelfPending
    <3>3. One(p \in oself) = 1 /\ One(p \in oself') = 0
      BY <3>1, Zenon DEF One
    <3>4. One(SelfPending(p)') = One(SelfPending(p)) /\ One(SelfPending(p)) \in {0, 1}
      BY <3>2, Zenon DEF One
    <3>5. p <= used /\ \A q \in Slots : q # p => (q \in oself' <=> q \in oself)
      BY <3>1, Zenon DEF BaseInv, ScopeInv
    <3>6. QED
      BY SMTT(30), <3>2, <3>3, <3>4, <3>5
  <2>2. CASE SchedReleaseSelf(p)
    <3>1. UNCHANGED oself /\ work[p].self
      BY <2>2, Zenon DEF SchedReleaseSelf, releaseVars
    <3>2. ~work'[p].self /\ \A q \in Slots : q # p => work'[q] = work[q]
      BY <2>2 DEF SchedReleaseSelf, BaseInv, TypeOK, WorkTypes
    <3>3. state[p] \in Over /\ ~debt[p] /\ sstep # Step("snapshot", p)
      BY <2>2, <3>1, StepsDiffer, Zenon DEF SchedReleaseSelf, DebtInv, Busy, StepKinds
    <3>4. ~Held(p)
      BY <3>3, Zenon DEF Held, Over, Finished, Claimable
    <3>5. One(SelfPending(p)) = 1 /\ One(SelfPending(p)') = 0
      BY <1>3, <3>1, <3>2, <3>4, Zenon DEF One, SelfPending
    <3>6. \A q \in Slots : q # p => (SelfPending(q)' <=> SelfPending(q))
      BY <1>3, <3>2, Zenon DEF SelfPending
    <3>7. One(p \in oself') = One(p \in oself) /\ One(p \in oself) \in {0, 1}
      BY <3>1, Zenon DEF One
    <3>8. p <= used
      BY <3>3, SlotOrder, Zenon DEF BaseInv, LifeInv, Over, Finished
    <3>9. QED
      BY SMTT(30), <3>1, <3>5, <3>6, <3>7, <3>8
  <2>3. QED
    BY <2>1, <2>2, Zenon
<1>8. \A q \in Slots : q # p => Refs(q)' = Refs(q)
  BY <1>1, <1>6, <1>7, ZenonT(30) DEF Refs, One
<1>9. Refs(p)' = Refs(p) - 1
  <2>1. Refs(p) = One(InScope(p)) + One(p \in oself) + One(SelfPending(p)) + Cardinality(Readers(p))
    BY Zenon DEF Refs
  <2>2. Refs(p)' = One(InScope(p)) + One(p \in oself') + One(SelfPending(p)') + Cardinality(Readers(p))
    BY <1>1, <1>6, Zenon DEF Refs, One
  <2>3. Cardinality(Readers(p)) \in Nat
    BY ReadersCount, Zenon
  <2>4. \A b : One(b) \in {0, 1}
    BY DEF One
  <2>5. QED
    BY SMTT(30), <1>7, <2>1, <2>2, <2>3, <2>4
<1>10. QED
  BY <1>0, <1>7, <1>8, <1>9, Zenon DEF Released

(* The same for the reference a consumer holds on its producer.              *)
LEMMA ReleaseRef ==
    ASSUME BaseInv, DebtInv, NEW c \in Slots, NEW p \in Slots, OrchReleaseRef(c, p) \/ SchedReleaseRef(c, p)
    PROVE  Released(p)
<1>0. TryConsume(p) /\ UNCHANGED <<state, fanoutTotal, consumers, retained, debt, used, threw, depth, frame, oself>>
  BY Zenon DEF OrchReleaseRef, SchedReleaseRef, submitVars, orchVars, scopeVars, releaseVars
<1>1. \A q \in Slots : InScope(q)' <=> InScope(q)
  BY <1>0, Zenon DEF InScope
<1>2. \A u \in Slots : sstep' = Step("snapshot", u) <=> sstep = Step("snapshot", u)
  BY NotSnapshot, Zenon DEF OrchReleaseRef, SchedReleaseRef, AfterConsume, schedVars
<1>3. \A u \in Slots : work'[u].self = work[u].self
  BY DEF OrchReleaseRef, SchedReleaseRef, schedVars, BaseInv, TypeOK, WorkTypes
<1>4. \A u \in Slots : SelfPending(u)' <=> SelfPending(u)
  BY <1>0, <1>2, <1>3, Zenon DEF SelfPending, Held
<1>5. p \in retained[c] /\ ConsumerPending(c, p) /\ ~ConsumerPending(c, p)'
      /\ \A d, q \in Slots : d # c \/ q # p => (ConsumerPending(d, q)' <=> ConsumerPending(d, q))
  <2>1. CASE OrchReleaseRef(c, p)
    <3>1. <<c, p>> \in orefs /\ orefs' = orefs \ {<<c, p>>} /\ UNCHANGED <<work, sstep>>
      BY <2>1, Zenon DEF OrchReleaseRef, schedVars
    <3>2. /\ p \in retained[c] /\ state[c] \in Over /\ ~debt[c]
          /\ work[c].prods = {} /\ sstep # Step("snapshot", c)
      BY <3>1, Zenon DEF DebtInv, Busy
    <3>3. \A d, q \in Slots : d # c \/ q # p => (<<d, q>> \in orefs' <=> <<d, q>> \in orefs)
      BY <3>1
    <3>4. QED
      BY <1>0, <3>1, <3>2, <3>3, Zenon DEF ConsumerPending, Over, Finished, Claimable
  <2>2. CASE SchedReleaseRef(c, p)
    <3>1. p \in work[c].prods /\ UNCHANGED orefs /\ sstep = Idle
      BY <2>2, Zenon DEF SchedReleaseRef, releaseVars
    <3>2. work'[c].prods = work[c].prods \ {p} /\ \A d \in Slots : d # c => work'[d] = work[d]
      BY <2>2 DEF SchedReleaseRef, BaseInv, TypeOK, WorkTypes
    <3>3. p \in retained[c] /\ Busy(c)
      BY <3>1, Zenon DEF BaseInv, EdgeInv, Busy
    <3>4. state[c] \in Over /\ ~debt[c] /\ <<c, p>> \notin orefs
      BY <3>3, Zenon DEF DebtInv
    <3>5. sstep # Step("snapshot", c)
      BY <3>1, StepsDiffer, Zenon DEF StepKinds
    <3>6. QED
      BY <1>0, <1>2, <3>1, <3>2, <3>3, <3>4, <3>5, ZenonT(30) DEF ConsumerPending, Over, Finished, Claimable
  <2>3. QED
    BY <2>1, <2>2, Zenon
<1>6. c \in Readers(p) /\ Readers(p)' = Readers(p) \ {c} /\ \A q \in Slots : q # p => Readers(q)' = Readers(q)
  BY <1>5, Zenon DEF Readers
<1>7. Cardinality(Readers(p)') = Cardinality(Readers(p)) - 1 /\ Cardinality(Readers(p)) \in Nat
  BY <1>6, ReadersCount, SlotSets, ZenonT(30)
<1>8. \A q \in Slots : q # p => Refs(q)' = Refs(q)
  BY <1>0, <1>1, <1>4, <1>6, Zenon DEF Refs, One
<1>9. Refs(p)' = Refs(p) - 1
  <2>1. Refs(p) = One(InScope(p)) + One(p \in oself) + One(SelfPending(p)) + Cardinality(Readers(p))
    BY Zenon DEF Refs
  <2>2. Refs(p)' = One(InScope(p)) + One(p \in oself) + One(SelfPending(p)) + Cardinality(Readers(p)')
    BY <1>0, <1>1, <1>4, Zenon DEF Refs, One
  <2>3. \A b : One(b) \in {0, 1}
    BY SMTT(30) DEF One
  <2>4. QED
    BY SMTT(30), <1>7, <2>1, <2>2, <2>3
<1>10. p <= used
  BY <1>5, SlotOrder, Zenon DEF BaseInv, EdgeInv
<1>11. QED
  BY <1>0, <1>8, <1>9, <1>10, Zenon DEF Released

(* After a release the counters still agree, and when it meets the threshold *)
(* of a finished slot no reference is left.                                  *)
LEMMA ReleasedRefs ==
    ASSUME BaseInv, RefsInv, NEW p \in Slots, Released(p)
    PROVE  /\ RefsInv'
           /\ ThresholdMet(p) /\ state[p] \in Finished =>
                  (~InScope(p) /\ p \notin oself /\ ~SelfPending(p) /\ Readers(p) = {})'
<1>1. /\ p <= used /\ UNCHANGED <<state, fanoutTotal, consumers, retained, debt, used, threw>>
      /\ \A q \in Slots : q # p => Refs(q)' = Refs(q) /\ fanoutReleased'[q] = fanoutReleased[q]
      /\ Refs(p)' = Refs(p) - 1 /\ fanoutReleased'[p] = fanoutReleased[p] + 1
  BY ZenonT(30) DEF Released, TryConsume, BaseInv, TypeOK, CounterTypes
<1>2. /\ Refs(p) \in Nat /\ Refs(p)' \in Nat /\ fanoutReleased[p] \in Nat /\ fanoutTotal[p] \in Nat
      /\ used \in Nat /\ p \in Nat
  BY RefsNat, RefsNatNext, SlotOrder, Zenon DEF BaseInv, TypeOK, CounterTypes
<1>3. fanoutReleased'[p] + Refs(p)' = fanoutReleased[p] + Refs(p) /\ ~(p > used)
  BY SMTT(30), <1>1, <1>2
<1>4. Refs(p) <= 1 => Refs(p)' <= 1
  BY SMTT(30), <1>1, <1>2
<1>5. Bare(p) => Bare(p)'
  BY <1>1, <1>4, Zenon DEF Bare
<1>6. \A q \in Slots : q # p => (Bare(q)' <=> Bare(q))
  BY <1>1, Zenon DEF Bare
<1>7. RefsInv'
  <2>1. p > used' => fanoutReleased'[p] = 0 /\ fanoutTotal'[p] = 0
    BY <1>1, <1>3, Zenon
  <2>2. p <= used' => fanoutReleased'[p] + Refs(p)' = fanoutTotal'[p] + 1 \/ Bare(p)'
    BY <1>1, <1>3, <1>5, Zenon DEF RefsInv
  <2>3. QED
    BY <1>1, <1>6, <2>1, <2>2, Zenon DEF RefsInv
<1>8. ASSUME ThresholdMet(p), state[p] \in Finished
      PROVE  Refs(p)' = 0
  <2>1. Refs(p) <= 1
    BY <1>1, <1>8, LastRelease, Zenon DEF BaseInv
  <2>2. QED
    BY SMTT(30), <1>1, <1>2, <2>1
<1>9. QED
  BY <1>7, <1>8, RefsNatNext, Zenon

Releases(p) ==
    \/ OrchReleaseSelf(p) \/ SchedReleaseSelf(p)
    \/ \E c \in Slots : OrchReleaseRef(c, p) \/ SchedReleaseRef(c, p)

(* The two facts together for each of the four release steps.                *)
LEMMA ReleaseStep ==
    ASSUME BaseInv, DebtInv, RefsInv, NEW p \in Slots, Releases(p)
    PROVE  /\ Released(p) /\ RefsInv'
           /\ ThresholdMet(p) /\ state[p] \in Finished =>
                  (~InScope(p) /\ p \notin oself /\ ~SelfPending(p) /\ Readers(p) = {})'
<1>1. Released(p)
  BY ReleaseSelf, ReleaseRef, Zenon DEF Releases
<1>2. QED
  BY <1>1, ReleasedRefs, Zenon

(* A release only starts retiring a slot for which nothing is owed any more. *)
LEMMA ReleaseDebt ==
    ASSUME BaseInv, DebtInv, RefsInv, NEW p \in Slots, Releases(p)
    PROVE  DebtInv'
<1>1. UNCHANGED <<state, debt, retained>>
  BY ReleaseStep, Zenon DEF Released
<1>2. orefs' \subseteq orefs
  BY Zenon DEF Releases, OrchReleaseSelf, SchedReleaseSelf, OrchReleaseRef, SchedReleaseRef, releaseVars
<1>3. \A s \in Slots : Busy(s)' => Busy(s)
  <2>1. \A s \in Slots : work'[s].cons = work[s].cons /\ (work'[s].self => work[s].self) /\ work'[s].prods \subseteq work[s].prods
    <3>1. CASE OrchReleaseSelf(p) \/ \E c \in Slots : OrchReleaseRef(c, p)
      BY <3>1, Zenon DEF OrchReleaseSelf, OrchReleaseRef, schedVars
    <3>2. CASE SchedReleaseSelf(p)
      BY <3>2, SMTT(30) DEF SchedReleaseSelf, BaseInv, TypeOK, WorkTypes
    <3>3. ASSUME NEW c \in Slots, SchedReleaseRef(c, p)
          PROVE  \A s \in Slots : work'[s].cons = work[s].cons /\ (work'[s].self => work[s].self) /\ work'[s].prods \subseteq work[s].prods
      BY <3>3 DEF SchedReleaseRef, BaseInv, TypeOK, WorkTypes
    <3>4. QED
      BY <3>1, <3>2, <3>3, Zenon DEF Releases
  <2>2. QED
    BY <2>1, Zenon DEF Busy
<1>4. \A s \in Slots : /\ sstep' = Step("snapshot", s) => sstep = Step("snapshot", s)
                       /\ sstep' = Step("retire", s) => sstep = Step("retire", s) \/ (s = p /\ ThresholdMet(p) /\ state[p] \in Finished)
                       /\ ostep' = Step("retire", s) => ostep = Step("retire", s) \/ (s = p /\ ThresholdMet(p) /\ state[p] \in Finished)
  <2>1. (sstep' = sstep \/ sstep' = AfterConsume(p)) /\ (ostep' = ostep \/ ostep' = AfterConsume(p))
    BY Zenon DEF Releases, OrchReleaseSelf, SchedReleaseSelf, OrchReleaseRef, SchedReleaseRef, schedVars, orchVars
  <2>2. AfterConsume(p) = Idle \/ (AfterConsume(p) = Step("retire", p) /\ ThresholdMet(p) /\ state[p] \in Finished)
    BY Zenon DEF AfterConsume
  <2>3. \A s \in Slots : AfterConsume(p) # Step("snapshot", s) /\ (AfterConsume(p) = Step("retire", s) => s = p /\ ThresholdMet(p) /\ state[p] \in Finished)
    BY <2>2, NotSnapshot, Zenon
  <2>4. QED
    BY <2>1, <2>3, Zenon
<1>5. \A s \in Slots : Retiring(s)' => Retiring(s) \/ (s = p /\ ThresholdMet(p) /\ state[p] \in Finished)
  BY <1>4, Zenon DEF Retiring
<1>6. ThresholdMet(p) /\ state[p] \in Finished => ~debt[p]
  BY <1>1, ReleaseStep, Zenon DEF SelfPending, Held
<1>7. QED
  BY <1>1, <1>2, <1>3, <1>4, <1>5, <1>6, Zenon DEF DebtInv, Over

(* Initially nothing is owed and nothing counted.                            *)
LEMMA CountInit == Init => DebtInv /\ RefsInv
<1> SUFFICES ASSUME Init PROVE DebtInv /\ RefsInv
  BY Zenon
<1>1. \A s \in Slots : ~debt[s] /\ ~Busy(s) /\ fanoutReleased[s] = 0 /\ fanoutTotal[s] = 0
  <2>1. /\ work = [s \in Slots |-> NoWork] /\ debt = [s \in Slots |-> FALSE]
        /\ fanoutReleased = [s \in Slots |-> 0] /\ fanoutTotal = [s \in Slots |-> 0]
    BY Zenon DEF Init
  <2>2. NoWork.cons = {} /\ ~NoWork.self /\ NoWork.prods = {}
    BY Zenon DEF NoWork
  <2>3. QED
    BY <2>1, <2>2, Zenon DEF Busy
<1>2. \A s \in Slots : ~Retiring(s) /\ sstep # Step("snapshot", s)
  <2>1. ostep = Idle /\ sstep = Idle
    BY Zenon DEF Init
  <2>2. QED
    BY <2>1, StepsDiffer, Zenon DEF Retiring, StepKinds
<1>3. orefs = {} /\ \A s \in Slots : ~(s <= used)
  <2>1. orefs = {} /\ used = 0
    BY Zenon DEF Init
  <2>2. \A s \in Slots : ~(s <= 0)
    BY NAssumption DEF Slots
  <2>3. QED
    BY <2>1, <2>2, Zenon
<1>4. QED
  BY <1>1, <1>2, <1>3, Zenon DEF DebtInv, RefsInv

(* What is owed and what is counted are inductive together.                  *)
LEMMA CountNext == BaseInv /\ DebtInv /\ RefsInv /\ [Next]_vars => DebtInv' /\ RefsInv'
<1> SUFFICES ASSUME BaseInv, DebtInv, RefsInv, [Next]_vars PROVE DebtInv' /\ RefsInv'
  OBVIOUS
<1>1. ASSUME NEW p \in Slots, Releases(p)
      PROVE  DebtInv' /\ RefsInv'
  BY <1>1, ReleaseDebt, ReleaseStep, Zenon
<1>2. CASE Callback
  BY <1>2, DebtCallback, RefsCallback, Zenon
<1>3. CASE Orch
  BY <1>1, <1>3, DebtOrch, RefsOrch, Zenon DEF Releases
<1>4. CASE Sched
  BY <1>1, <1>4, DebtSched, RefsSched, Zenon DEF Releases
<1>5. CASE Endpoint \/ UNCHANGED vars
  <2>1. UNCHANGED <<slotVars, scopeVars, submitVars, releaseVars, orchVars, schedVars>>
    BY <1>5, Zenon DEF Endpoint, Accept, WorkerDone, vars
  <2>2. UNCHANGED <<slotVars, used, depth, frame, oself, orefs, work, ostep, sstep, threw>>
    BY <2>1, Zenon DEF scopeVars, submitVars, releaseVars, orchVars, schedVars
  <2>3. DebtInv'
    BY <2>2, Zenon DEF slotVars, DebtInv, Retiring, Busy
  <2>4. \A s \in Slots : SelfPending(s)' <=> SelfPending(s)
    BY <2>2, Zenon DEF SelfPending, Held, slotVars
  <2>5. \A c, p \in Slots : ConsumerPending(c, p)' <=> ConsumerPending(c, p)
    BY <2>2, Zenon DEF ConsumerPending, slotVars
  <2>6. \A p \in Slots : Refs(p)' = Refs(p)
    BY <2>2, <2>4, <2>5, SameRefs, Zenon
  <2>7. QED
    BY <2>2, <2>3, <2>6, RefsQuiet, Zenon DEF slotVars
<1>6. QED
  BY <1>2, <1>3, <1>4, <1>5, Zenon DEF Next, Terminated

(* The counters of every slot agree with the references there are to it, on  *)
(* every path of both threads: fanout_released and fanout_total of the       *)
(* TaskSlotState differ by exactly what is still to be released.             *)
THEOREM CountsAgree == Spec => [](BaseInv /\ DebtInv /\ RefsInv)
<1>1. Init => BaseInv
  BY InitTypeOK, InitLife, OrchInvInit, SlotInvInit, ScopeInvInit, EdgeInvInit, Zenon DEF BaseInv
<1>2. BaseInv /\ TypeOK' /\ [Next]_vars => BaseInv'
  BY NextLife, OrchInvNext, SlotInvNext, ScopeInvNext, EdgeInvNext, Zenon DEF BaseInv
<1>3. QED
  BY <1>1, <1>2, TypeCorrect, CountInit, CountNext, PTL DEF Spec
-----------------------------------------------------------------------------
(* Only a release decides to retire a slot, and only one that meets the      *)
(* threshold of a finished slot.                                             *)
LEMMA Deciding ==
    ASSUME BaseInv, NEW p \in Slots, Next, Decides(p)
    PROVE  Releases(p) /\ ThresholdMet(p) /\ state[p] \in Finished
<1>1. CASE Callback \/ Endpoint \/ Terminated
  BY <1>1, Zenon DEF Callback, Endpoint, Terminated, ScopeBegin, Alloc, BuildThrow, SubmitBegin, Accept, WorkerDone, vars, orchVars, schedVars, Decides
<1>2. CASE Orch
  <2>1. CASE UNCHANGED <<ostep, sstep>>
    BY <2>1, Zenon DEF Decides
  <2>2. CASE UNCHANGED sstep /\ ostep' = Idle
    BY <2>2, StepsDiffer, Zenon DEF Decides, StepKinds
  <2>3. CASE Publish
    <3>1. UNCHANGED sstep /\ (ostep' = ostep \/ ostep' = Idle \/ ostep' = Step("enqueue", cur))
      BY <2>3, Zenon DEF Publish, schedVars
    <3>2. QED
      BY <3>1, <2>1, <2>2, StepsDiffer, Zenon DEF Decides
  <2>4. ASSUME NEW q \in Slots, NEW c \in Slots, OrchReleaseSelf(q) \/ OrchReleaseRef(c, q)
        PROVE  Releases(p) /\ ThresholdMet(p) /\ state[p] \in Finished
    <3>1. UNCHANGED sstep /\ ostep' = AfterConsume(q)
      BY <2>4, Zenon DEF OrchReleaseSelf, OrchReleaseRef, schedVars
    <3>2. p = q /\ ThresholdMet(q) /\ state[q] \in Finished
      BY <3>1, StepsDiffer, Zenon DEF Decides, AfterConsume, StepKinds
    <3>3. QED
      BY <2>4, <3>2, Zenon DEF Releases
  <2>5. QED
    BY <1>2, <2>1, <2>2, <2>3, <2>4, ZenonT(30) DEF Orch, ScopeEnd, Wire, SubmitThrow, PoisonSubmit, OrchEnqueue, OrchRetire, OrchReleased, CloseRunSubmission, FailRunSubmission, CancelClaim, CancelThrow, CancelCommit, orchVars, schedVars
<1>3. CASE Sched
  <2>0. UNCHANGED ostep
    BY <1>3, OthersQuiet, Zenon DEF OrchQuiet, orchVars
  <2>1. CASE sstep' = sstep \/ sstep' = Idle \/ \E k \in {"claim", "mark", "enqueue", "snapshot"}, s \in Slots : sstep' = Step(k, s)
    BY <2>0, <2>1, StepsDiffer, Zenon DEF Decides, StepKinds
  <2>2. CASE TryMarkReady
    <3>1. sstep.slot \in Slots
      BY <2>2, StepSlots, Zenon DEF TryMarkReady, BaseInv, StepKinds
    <3>2. QED
      BY <2>1, <2>2, <3>1, Zenon DEF TryMarkReady
  <2>3. ASSUME NEW q \in Slots, NEW c \in Slots, SchedReleaseSelf(q) \/ SchedReleaseRef(c, q)
        PROVE  Releases(p) /\ ThresholdMet(p) /\ state[p] \in Finished
    <3>1. sstep' = AfterConsume(q)
      BY <2>3, Zenon DEF SchedReleaseSelf, SchedReleaseRef
    <3>2. p = q /\ ThresholdMet(q) /\ state[q] \in Finished
      BY <2>0, <3>1, StepsDiffer, Zenon DEF Decides, AfterConsume, StepKinds
    <3>3. QED
      BY <2>3, <3>2, Zenon DEF Releases
  <2>4. QED
    BY <1>3, <2>1, <2>2, <2>3, ZenonT(30) DEF Sched, PopReady, Dispatch, OnTaskComplete, ReleaseConsumer, SchedEnqueue, PoisonTask, PoisonSnapshot, SchedRetire
<1>4. QED
  BY <1>1, <1>2, <1>3, Zenon DEF Next

(* try_consume decides to reclaim a slot only when its scope has released it *)
(* and no consumer wired to retain it can still read it, for any number of   *)
(* tasks, scopes and failed allocations.                                     *)
THEOREM ReclaimsUnreferenced == Spec => ReclaimOnlyUnreferenced
<1>1. ASSUME BaseInv, DebtInv, RefsInv, [Next]_vars
      PROVE  [\A p \in Slots : Decides(p) => ~InScope(p) /\ \A c \in Slots : ~ConsumerPending(c, p)']_vars
  <2> SUFFICES ASSUME Next, NEW p \in Slots, Decides(p)
               PROVE  ~InScope(p) /\ \A c \in Slots : ~ConsumerPending(c, p)'
    BY <1>1, Zenon
  <2>1. Releases(p) /\ ThresholdMet(p) /\ state[p] \in Finished
    BY <1>1, Deciding, Zenon
  <2>2. Released(p) /\ (~InScope(p))' /\ Readers(p)' = {}
    BY <1>1, <2>1, ReleaseStep, Zenon
  <2>3. QED
    BY <2>2, Zenon DEF Released, InScope, Readers
<1>2. QED
  BY <1>1, CountsAgree, PTL DEF Spec, ReclaimOnlyUnreferenced
-----------------------------------------------------------------------------
(* Who settles a debt.  In cancellation it is one of the slots still to be   *)
(* visited or already taken over, which is why the retry of a cancellation   *)
(* that threw starts over from all slots.                                    *)
OwnerInv == \A s \in Slots : debt[s] => s = cur \/ threw \/ (opc = "cancel" /\ s \in todo \cup batch)

(* OwnerInv is inductive: a debt is given with its owner, and its owner goes *)
(* on only when it is settled.                                               *)
LEMMA OwnerNext == BaseInv /\ DebtInv /\ OwnerInv /\ [Next]_vars => OwnerInv'
<1> SUFFICES ASSUME BaseInv, DebtInv, OwnerInv, [Next]_vars PROVE OwnerInv'
  OBVIOUS
<1>0. /\ opc # "wire" => cur = None
      /\ \A s \in Slots : s # None
      /\ \A s \in Slots : state[s] = "BUILDING" => (s = cur \/ threw) /\ ~debt[s]
  <2>1. \A s \in Slots : s # None
    BY NAssumption DEF Slots, None
  <2>2. QED
    BY <2>1, Zenon DEF BaseInv, OrchInv, SlotInv, DebtInv
<1>1. ASSUME UNCHANGED <<debt, threw, opc, todo, batch>>, cur' = cur \/ opc # "wire"
      PROVE  OwnerInv'
  BY <1>0, <1>1, Zenon DEF OwnerInv
<1>2. ASSUME UNCHANGED <<debt, threw, cur, todo, batch>>, opc # "cancel"
      PROVE  OwnerInv'
  BY <1>2, Zenon DEF OwnerInv
<1>3. ASSUME threw'
      PROVE  OwnerInv'
  BY <1>3, Zenon DEF OwnerInv
<1>4. CASE Callback
  <2>1. ASSUME NEW D \in SUBSET Slots, NEW R \in SUBSET D, SubmitBegin(D, R)
        PROVE  OwnerInv'
    <3>1. \A s \in Slots : ~debt[s]
      BY <1>0, <2>1, Zenon DEF SubmitBegin, CallbackRunning, OrchIdle, OwnerInv
    <3>2. QED
      BY <2>1, <3>1, Zenon DEF SubmitBegin, OwnerInv
  <2>2. CASE ScopeBegin \/ Alloc
    BY <1>1, <2>2, Zenon DEF ScopeBegin, Alloc, slotVars, submitVars, releaseVars, orchVars
  <2>3. ASSUME NEW reached \in {"unregistered", "unscoped", "uncharged"}, BuildThrow(reached)
        PROVE  OwnerInv'
    BY <1>3, <2>3, Zenon DEF BuildThrow
  <2>4. QED
    BY <1>4, <2>1, <2>2, <2>3, Zenon DEF Callback
<1>5. CASE Orch
  <2>1. CASE SubmitThrow
    BY <1>3, <2>1, Zenon DEF SubmitThrow
  <2>2. CASE Publish
    <3>1. opc # "cancel" /\ UNCHANGED <<debt, threw, todo, batch>> /\ (cur' = cur \/ (cur' = None /\ state[cur] = "BUILDING" /\ cur \in Slots))
      BY <2>2, Zenon DEF Publish, releaseVars, BaseInv, TypeOK, IndexTypes
    <3>2. cur' # cur => ~debt[cur]
      BY <1>0, <3>1, Zenon
    <3>3. QED
      BY <3>1, <3>2, Zenon DEF OwnerInv
  <2>3. ASSUME NEW raised \in BOOLEAN, PoisonSubmit(raised)
        PROVE  OwnerInv'
    <3>1. opc = "wire" /\ cur \in Slots /\ threw' = (threw \/ raised)
      BY <2>3, Zenon DEF PoisonSubmit, BaseInv, TypeOK, IndexTypes
    <3>2. \A s \in Slots : debt'[s] => raised \/ (s # cur /\ debt[s])
      BY <2>3, Zenon DEF PoisonSubmit, BaseInv, TypeOK, FlagTypes
    <3>3. CASE raised
      BY <1>3, <3>1, <3>3, Zenon
    <3>4. CASE ~raised
      <4>1. threw' <=> threw
        BY <3>1, <3>4, Zenon
      <4>2. QED
        BY <3>1, <3>2, <3>4, <4>1, Zenon DEF OwnerInv
    <3>5. QED
      BY <3>3, <3>4, Zenon
  <2>4. CASE FailRunSubmission \/ CancelThrow
    <3>1. UNCHANGED <<debt, threw, cur>> /\ opc' = "cancel" /\ todo' = 1 .. used
      BY <2>4, ZenonT(30) DEF FailRunSubmission, CancelThrow, slotVars, submitVars
    <3>2. \A s \in Slots : debt[s] => s \in 1 .. used
      BY DEF BaseInv, LifeInv, DebtInv, Slots, TypeOK, IndexTypes
    <3>3. QED
      BY <3>1, <3>2, Zenon DEF OwnerInv
  <2>5. ASSUME NEW s \in Slots, CancelClaim(s)
        PROVE  OwnerInv'
    <3>1. /\ opc = "cancel" /\ UNCHANGED <<threw, cur, opc>> /\ todo' = todo \ {s} /\ (CancelOwns(s) => s \in batch') /\ batch \subseteq batch'
          /\ \A u \in Slots : u # s => debt'[u] = debt[u]
          /\ debt'[s] => CancelOwns(s)
      BY <2>5, Zenon DEF CancelClaim, CancelOwns, submitVars, orchVars, BaseInv, TypeOK, FlagTypes
    <3>2. QED
      BY <3>1, Zenon DEF OwnerInv
  <2>6. CASE CancelCommit
    <3>1. opc = "cancel" /\ todo = {} /\ UNCHANGED <<threw, cur>> /\ \A s \in Slots : debt'[s] => debt[s] /\ s \notin batch
      BY <2>6, Zenon DEF CancelCommit, submitVars
    <3>2. QED
      BY <3>1, Zenon DEF OwnerInv
  <2>7. CASE ScopeEnd \/ CloseRunSubmission \/ OrchReleased
    BY <1>2, <2>7, Zenon DEF ScopeEnd, CloseRunSubmission, OrchReleased, OrchIdle, slotVars, submitVars, releaseVars
  <2>8. CASE OrchEnqueue \/ OrchRetire \/ \E p \in Slots : Wire(p) \/ OrchReleaseSelf(p) \/ \E c \in Slots : OrchReleaseRef(c, p)
    BY <1>1, <2>8, Zenon DEF Wire, OrchEnqueue, OrchRetire, OrchReleaseSelf, OrchReleaseRef, slotVars, submitVars, releaseVars, orchVars
  <2>9. QED
    BY <1>5, <2>1, <2>2, <2>3, <2>4, <2>5, <2>6, <2>7, <2>8, ZenonT(30) DEF Orch
<1>6. CASE Sched
  <2>0. UNCHANGED <<threw, cur, opc, todo, batch>>
    BY <1>6, OthersQuiet, Zenon DEF OrchQuiet, orchVars, submitVars, releaseVars
  <2>1. ASSUME NEW s \in Slots, NEW c \in Slots, PoisonTask(s, c)
        PROVE  OwnerInv'
    <3>1. \A u \in Slots : debt'[u] => debt[u] \/ state[u] = "BUILDING"
      BY <2>1, Zenon DEF PoisonTask, OwesPropagation, BaseInv, TypeOK, FlagTypes
    <3>2. QED
      BY <1>0, <2>0, <3>1, Zenon DEF OwnerInv
  <2>2. CASE UNCHANGED debt
    BY <1>1, <2>0, <2>2, Zenon
  <2>3. QED
    BY <1>6, <2>1, <2>2, ZenonT(30) DEF Sched, PopReady, Dispatch, OnTaskComplete, ReleaseConsumer, TryMarkReady, SchedEnqueue, PoisonSnapshot, SchedReleaseSelf, SchedReleaseRef, SchedRetire, slotVars
<1>7. CASE Endpoint \/ UNCHANGED vars
  <2>1. UNCHANGED <<slotVars, submitVars, releaseVars, orchVars>>
    BY <1>7, Zenon DEF Endpoint, Accept, WorkerDone, vars
  <2>2. QED
    BY <1>1, <2>1, Zenon DEF slotVars, submitVars, releaseVars, orchVars
<1>8. QED
  BY <1>4, <1>5, <1>6, <1>7, Zenon DEF Next, Terminated

(* A failure-propagation debt always sits on a FAILED slot and has an owner: *)
(* no exception of submit_impl or cancel_unstarted_run, however often the    *)
(* cancellation is retried, leaves a debt without one.                       *)
THEOREM DebtsOwned == Spec => []DebtOwned
<1>1. Init => OwnerInv
  BY Zenon DEF Init, OwnerInv
<1>2. DebtInv /\ OwnerInv => DebtOwned
  BY Zenon DEF DebtInv, OwnerInv, DebtOwned
<1>3. QED
  BY <1>1, <1>2, OwnerNext, CountsAgree, PTL DEF Spec
=============================================================================
