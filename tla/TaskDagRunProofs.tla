-------------------------- MODULE TaskDagRunProofs --------------------------
(***************************************************************************)
(* The counters of the run and its fence, the readiness of tasks, and the  *)
(* producers that outlive their readers.                                   *)
(***************************************************************************)
EXTENDS TaskDagProofs

(* Slots only enter the run when the callback creates them, leave it when    *)
(* on_consumed retires them, and are published by Publish alone.  Any other  *)
(* step advances a slot within the run.                                      *)
Advances(s) ==
    \/ state'[s] = state[s]
    \/ state[s] \in Claimable \cup {"RUNNING"} /\ state'[s] \in Finished
    \/ state[s] = "PENDING" /\ state'[s] = "READY"
    \/ state[s] = "READY" /\ state'[s] = "RUNNING"

(* Such a step leaves active_tasks alone, and pending_accepts unless it is   *)
(* an acceptance.                                                            *)
LEMMA OtherSteps ==
    ASSUME BaseInv, Orch \/ Sched \/ Endpoint \/ UNCHANGED vars, ~Publish, ~OrchRetire, ~SchedRetire
    PROVE  /\ UNCHANGED activeTasks /\ \A s \in Slots : Advances(s)
           /\ UNCHANGED <<accepted, pendingAccepts>> \/ \E s \in Slots : Accept(s)
<1> USE DEF BaseInv, TypeOK, WordTypes, IndexTypes
<1>1. CASE UNCHANGED <<state, activeTasks, accepted, pendingAccepts>>
  BY <1>1, Zenon DEF Advances
<1>2. CASE Endpoint \/ UNCHANGED vars
  BY <1>1, <1>2, ZenonT(30) DEF Endpoint, Accept, WorkerDone, Advances, vars, slotVars, queueVars, runVars
<1>3. CASE Orch
  <2>1. ASSUME NEW raised \in BOOLEAN, PoisonSubmit(raised)
        PROVE  UNCHANGED <<activeTasks, accepted, pendingAccepts>> /\ \A s \in Slots : Advances(s)
    BY <2>1, Zenon DEF PoisonSubmit, queueVars, Advances, Claimable, Finished
  <2>2. ASSUME NEW s \in Slots, CancelClaim(s)
        PROVE  UNCHANGED <<activeTasks, accepted, pendingAccepts>> /\ \A u \in Slots : Advances(u)
    BY <2>2, Zenon DEF CancelClaim, queueVars, runVars, Advances, Finished
  <2>3. QED
    BY <1>1, <1>3, <2>1, <2>2, ZenonT(30) DEF Orch, ScopeEnd, Wire, SubmitThrow, OrchEnqueue, OrchReleaseSelf, OrchReleaseRef, OrchReleased, CloseRunSubmission, FailRunSubmission, CancelThrow, CancelCommit, slotVars, queueVars, runVars
<1>4. CASE Sched
  <2>1. CASE Dispatch
    BY <2>1, Zenon DEF Dispatch, ClaimForDispatch, queueVars, runVars, Advances
  <2>2. ASSUME NEW s \in Slots, OnTaskComplete(s)
        PROVE  UNCHANGED <<activeTasks, accepted, pendingAccepts>> /\ \A u \in Slots : Advances(u)
    <3>1. state[s] = "RUNNING"
      BY <2>2, Zenon DEF OnTaskComplete, LifeInv
    <3>2. QED
      BY <2>2, <3>1, Zenon DEF OnTaskComplete, runVars, Advances, Finished
  <2>3. CASE TryMarkReady
    BY <2>3, Zenon DEF TryMarkReady, CanMarkReady, queueVars, runVars, Advances
  <2>4. ASSUME NEW s \in Slots, NEW c \in Slots, PoisonTask(s, c)
        PROVE  UNCHANGED <<activeTasks, accepted, pendingAccepts>> /\ \A u \in Slots : Advances(u)
    BY <2>4, Zenon DEF PoisonTask, queueVars, runVars, Advances, Finished
  <2>5. QED
    BY <1>1, <1>4, <2>1, <2>2, <2>3, <2>4, ZenonT(30) DEF Sched, PopReady, ReleaseConsumer, SchedEnqueue, PoisonSnapshot, SchedReleaseSelf, SchedReleaseRef, slotVars, queueVars, runVars
<1>5. QED
  BY <1>2, <1>3, <1>4, Zenon

(* A new slot is the next one, and nothing else moves.                       *)
LEMMA NewSlot ==
    ASSUME BaseInv, Callback
    PROVE  /\ ~submissionClosed /\ UNCHANGED <<readyQ, accepted, pendingAccepts, phase>>
           /\ \/ UNCHANGED <<state, activeTasks>>
              \/ \E s \in Slots : /\ s = used + 1 /\ state[s] = "FREE" /\ state'[s] \in {"BUILDING", "COMPLETED", "CONSUMED"}
                                  /\ \A u \in Slots : u # s => state'[u] = state[u]
                                  /\ activeTasks' = IF state'[s] = "CONSUMED" THEN activeTasks ELSE activeTasks + 1
<1>0. ASSUME used < N
      PROVE  used + 1 \in Slots /\ state[used + 1] = "FREE"
  <2>1. used + 1 \in Slots /\ used + 1 > used
    BY <1>0, NAssumption, SMTT(30) DEF Slots, BaseInv, TypeOK, IndexTypes
  <2>2. QED
    BY <2>1, Zenon DEF BaseInv, LifeInv
<1>1. ~submissionClosed /\ UNCHANGED <<readyQ, accepted, pendingAccepts, phase>>
  BY Zenon DEF Callback, ScopeBegin, Alloc, BuildThrow, SubmitBegin, CallbackRunning, queueVars, runVars
<1>2. CASE ScopeBegin
  BY <1>1, <1>2, Zenon DEF ScopeBegin, slotVars, runVars
<1>3. CASE Alloc
  BY <1>0, <1>1, <1>3, Zenon DEF Alloc, BaseInv, TypeOK, WordTypes
<1>4. ASSUME NEW reached \in {"unregistered", "unscoped", "uncharged"}, BuildThrow(reached)
      PROVE  \E s \in Slots : /\ s = used + 1 /\ state[s] = "FREE" /\ state'[s] \in {"BUILDING", "COMPLETED", "CONSUMED"}
                              /\ \A u \in Slots : u # s => state'[u] = state[u]
                              /\ activeTasks' = IF state'[s] = "CONSUMED" THEN activeTasks ELSE activeTasks + 1
  BY <1>0, <1>4, Zenon DEF BuildThrow, CountsTask, BaseInv, TypeOK, WordTypes
<1>5. ASSUME NEW D \in SUBSET Slots, NEW R \in SUBSET D, SubmitBegin(D, R)
      PROVE  \E s \in Slots : /\ s = used + 1 /\ state[s] = "FREE" /\ state'[s] \in {"BUILDING", "COMPLETED", "CONSUMED"}
                              /\ \A u \in Slots : u # s => state'[u] = state[u]
                              /\ activeTasks' = IF state'[s] = "CONSUMED" THEN activeTasks ELSE activeTasks + 1
  BY <1>0, <1>5, Zenon DEF SubmitBegin, BaseInv, TypeOK, WordTypes
<1>6. QED
  BY <1>1, <1>2, <1>3, <1>4, <1>5, Zenon DEF Callback

Active == {s \in Slots : state[s] \notin {"FREE", "CONSUMED"}}

(* active_tasks counts the slots of the run through creation and retirement. *)
LEMMA ActiveNext == BaseInv /\ ActiveTasksExact /\ [Next]_vars => ActiveTasksExact'
<1> SUFFICES ASSUME BaseInv, ActiveTasksExact, [Next]_vars PROVE ActiveTasksExact'
  OBVIOUS
<1>0. ActiveTasksExact' <=> activeTasks' = Cardinality(Active')
  BY Zenon DEF ActiveTasksExact, Active
<1>1. activeTasks = Cardinality(Active) /\ Active \in SUBSET Slots
  BY Zenon DEF ActiveTasksExact, Active
<1>2. CASE Callback
  <2>1. CASE UNCHANGED <<state, activeTasks>>
    BY <2>1, Zenon DEF ActiveTasksExact
  <2>2. ASSUME NEW s \in Slots, state[s] = "FREE", state'[s] \in {"BUILDING", "COMPLETED", "CONSUMED"},
               \A u \in Slots : u # s => state'[u] = state[u],
               activeTasks' = IF state'[s] = "CONSUMED" THEN activeTasks ELSE activeTasks + 1
        PROVE  ActiveTasksExact'
    <3>1. CASE state'[s] = "CONSUMED"
      <4>1. Active' = Active
        BY <2>2, <3>1, Zenon DEF Active
      <4>2. QED
        BY <1>0, <1>1, <2>2, <3>1, <4>1, Zenon
    <3>2. CASE state'[s] # "CONSUMED"
      <4>1. s \in Slots \ Active /\ Active' = Active \cup {s}
        BY <2>2, <3>2, Zenon DEF Active
      <4>2. Cardinality(Active') = Cardinality(Active) + 1
        BY <1>1, <4>1, SlotSets, Zenon
      <4>3. QED
        BY <1>0, <1>1, <2>2, <3>2, <4>2, Zenon
    <3>3. QED
      BY <3>1, <3>2, Zenon
  <2>3. QED
    BY <1>2, <2>1, <2>2, NewSlot, Zenon
<1>3. ASSUME NEW s \in Slots, OnConsumed(s)
      PROVE  ActiveTasksExact'
  <2>1. CASE state[s] \in Finished
    <3>1. s \in Active /\ Active' = Active \ {s}
      BY <1>3, <2>1, Zenon DEF OnConsumed, Active, Finished, BaseInv, TypeOK, WordTypes
    <3>2. Cardinality(Active) \in Nat /\ Cardinality(Active') = Cardinality(Active) - 1 /\ Cardinality(Active) # 0
      BY <1>1, <3>1, SlotSets, Zenon
    <3>3. activeTasks' = IF activeTasks - 1 < 0 THEN 0 ELSE activeTasks - 1
      BY <1>3, <2>1, Zenon DEF OnConsumed
    <3>4. QED
      BY SMTT(30), <1>0, <1>1, <3>2, <3>3
  <2>2. CASE state[s] \notin Finished
    BY <1>3, <2>2, Zenon DEF OnConsumed, ActiveTasksExact
  <2>3. QED
    BY <2>1, <2>2, Zenon
<1>4. CASE OrchRetire \/ SchedRetire
  <2>1. OrchRetire => ostep.slot \in Slots /\ OnConsumed(ostep.slot)
    BY StepSlots, Zenon DEF OrchRetire, BaseInv, StepKinds
  <2>2. SchedRetire => sstep.slot \in Slots /\ OnConsumed(sstep.slot)
    BY StepSlots, Zenon DEF SchedRetire, BaseInv, StepKinds
  <2>3. QED
    BY <1>3, <1>4, <2>1, <2>2, Zenon
<1>5. CASE Publish
  <2>1. cur \in Slots /\ UNCHANGED activeTasks
    BY <1>5, Zenon DEF Publish, BaseInv, TypeOK, IndexTypes
  <2>2. \A s \in Slots : state'[s] = state[s] \/ (state[s] = "BUILDING" /\ state'[s] \in {"READY", "PENDING"})
    BY <1>5, <2>1, Zenon DEF Publish, PublishedState, BaseInv, TypeOK, WordTypes
  <2>3. Active' = Active
    BY <2>2, Zenon DEF Active
  <2>4. QED
    BY <1>0, <1>1, <2>1, <2>3, Zenon
<1>6. CASE (Orch \/ Sched \/ Endpoint \/ UNCHANGED vars) /\ ~Publish /\ ~OrchRetire /\ ~SchedRetire
  <2>1. UNCHANGED activeTasks /\ \A s \in Slots : Advances(s)
    BY <1>6, OtherSteps, Zenon
  <2>2. Active' = Active
    BY <2>1, Zenon DEF Active, Advances, Claimable, Finished
  <2>3. QED
    BY <1>0, <1>1, <2>1, <2>2, Zenon
<1>7. QED
  BY <1>2, <1>4, <1>5, <1>6, Zenon DEF Next, Terminated

(* pending_accepts is raised before a task can be accepted and lowered at    *)
(* most once for each.                                                       *)
LEMMA AcceptNext == BaseInv /\ AcceptanceNotEarly /\ [Next]_vars => AcceptanceNotEarly'
<1> SUFFICES ASSUME BaseInv, AcceptanceNotEarly, [Next]_vars PROVE AcceptanceNotEarly'
  OBVIOUS
<1>0. /\ Unaccepted \in SUBSET Slots /\ Unaccepted' \in SUBSET Slots
      /\ pendingAccepts \in Nat /\ Cardinality(Unaccepted) \in Nat /\ pendingAccepts >= Cardinality(Unaccepted)
      /\ AcceptanceNotEarly' <=> pendingAccepts' >= Cardinality(Unaccepted')
  <2>1. Unaccepted \in SUBSET Slots /\ Unaccepted' \in SUBSET Slots
    BY Zenon DEF Unaccepted
  <2>2. QED
    BY <2>1, SlotSets, Zenon DEF AcceptanceNotEarly, BaseInv, TypeOK, CounterTypes
<1>1. ASSUME UNCHANGED pendingAccepts, Unaccepted' \subseteq Unaccepted
      PROVE  AcceptanceNotEarly'
  <2>1. IsFiniteSet(Unaccepted)
    BY <1>0, SlotSets, Zenon
  <2>2. Cardinality(Unaccepted') <= Cardinality(Unaccepted) /\ Cardinality(Unaccepted') \in Nat
    BY <1>0, <1>1, <2>1, FS_Subset, SlotSets, Zenon
  <2>3. QED
    BY <1>0, <1>1, <2>2
<1>2. CASE Callback
  <2>1. UNCHANGED <<accepted, pendingAccepts>> /\ \A s \in Slots : state'[s] = state[s] \/ state'[s] \in {"BUILDING", "COMPLETED", "CONSUMED"}
    BY <1>2, NewSlot, Zenon
  <2>2. QED
    BY <1>1, <2>1, Zenon DEF Unaccepted
<1>3. CASE OrchRetire \/ SchedRetire
  <2>1. UNCHANGED <<accepted, pendingAccepts>> /\ (state' = state \/ \E s : state' = [state EXCEPT ![s] = "CONSUMED"])
    BY <1>3, Zenon DEF OrchRetire, SchedRetire, OnConsumed
  <2>2. \A s \in Slots : state'[s] = state[s] \/ state'[s] = "CONSUMED"
    BY <2>1, Zenon DEF BaseInv, TypeOK, WordTypes
  <2>3. QED
    BY <1>1, <2>1, <2>2, Zenon DEF Unaccepted
<1>4. CASE Publish
  <2>1. cur \in Slots /\ UNCHANGED accepted
    BY <1>4, Zenon DEF Publish, BaseInv, TypeOK, IndexTypes, queueVars
  <2>2. CASE state[cur] # "BUILDING"
    BY <1>1, <1>4, <2>1, <2>2, Zenon DEF Publish, Unaccepted
  <2>3. CASE state[cur] = "BUILDING"
    <3>1. pendingAccepts' = pendingAccepts + 1 /\ state'[cur] \in {"READY", "PENDING"} /\ \A s \in Slots : s # cur => state'[s] = state[s]
      BY <1>4, <2>1, <2>3, Zenon DEF Publish, PublishedState, BaseInv, TypeOK, WordTypes
    <3>2. cur \in Slots \ Unaccepted /\ Unaccepted' = Unaccepted \cup {cur}
      BY <2>1, <2>3, <3>1, Zenon DEF Unaccepted
    <3>3. Cardinality(Unaccepted') = Cardinality(Unaccepted) + 1
      BY <1>0, <3>2, SlotSets, Zenon
    <3>4. QED
      BY SMTT(30), <1>0, <3>1, <3>3
  <2>4. QED
    BY <2>2, <2>3, Zenon
<1>5. ASSUME NEW s \in Slots, Accept(s)
      PROVE  AcceptanceNotEarly'
  <2>1. state[s] = "RUNNING" /\ ~accepted[s] /\ UNCHANGED state
    BY <1>5, Zenon DEF Accept, MayAccept, slotVars
  <2>2. accepted'[s] /\ \A u \in Slots : u # s => accepted'[u] = accepted[u]
    BY <1>5, Zenon DEF Accept, BaseInv, TypeOK, FlagTypes
  <2>3. s \in Unaccepted /\ Unaccepted' = Unaccepted \ {s}
    BY <2>1, <2>2, Zenon DEF Unaccepted
  <2>4. Cardinality(Unaccepted') = Cardinality(Unaccepted) - 1 /\ Cardinality(Unaccepted) # 0
    BY <1>0, <2>3, SlotSets, Zenon
  <2>5. pendingAccepts' = IF pendingAccepts = 0 THEN 0 ELSE pendingAccepts - 1
    BY <1>5, Zenon DEF Accept
  <2>6. QED
    BY SMTT(30), <1>0, <2>4, <2>5
<1>6. CASE (Orch \/ Sched \/ Endpoint \/ UNCHANGED vars) /\ ~Publish /\ ~OrchRetire /\ ~SchedRetire
  <2>1. (\A s \in Slots : Advances(s)) /\ (UNCHANGED <<accepted, pendingAccepts>> \/ \E s \in Slots : Accept(s))
    BY <1>6, OtherSteps, Zenon
  <2>2. ASSUME UNCHANGED <<accepted, pendingAccepts>>
        PROVE  AcceptanceNotEarly'
    BY <1>1, <2>1, <2>2, Zenon DEF Unaccepted, Advances, Claimable, Finished
  <2>3. QED
    BY <1>5, <2>1, <2>2, Zenon
<1>7. QED
  BY <1>2, <1>3, <1>4, <1>6, Zenon DEF Next, Terminated

(* Both counters that decide when the run may be waited for are right at     *)
(* every step: active_tasks counts the slots not yet reclaimed, so that      *)
(* decrement_run_tasks never underflows, and pending_accepts is never less   *)
(* than the published tasks still to be accepted.                            *)
THEOREM RunCountersHold == Spec => []RunCountersExact
<1>1. Init => ActiveTasksExact /\ AcceptanceNotEarly
  <2> SUFFICES ASSUME Init PROVE ActiveTasksExact /\ AcceptanceNotEarly
    OBVIOUS
  <2>1. {s \in Slots : state[s] \notin {"FREE", "CONSUMED"}} = {} /\ Unaccepted = {} /\ activeTasks = 0 /\ pendingAccepts = 0
    BY Zenon DEF Init, Unaccepted
  <2>2. Cardinality({}) = 0
    BY FS_EmptySet, Zenon
  <2>3. QED
    BY <2>1, <2>2 DEF ActiveTasksExact, AcceptanceNotEarly
<1>2. QED
  BY <1>1, ActiveNext, AcceptNext, CountsAgree, PTL DEF Spec, RunCountersExact
-----------------------------------------------------------------------------
(* A step that makes the run terminal does so with the submission closed and *)
(* no task left, and empties the ready queue; nothing is queued afterwards.  *)
LEMMA PhaseStep ==
    ASSUME BaseInv, [Next]_vars
    PROVE  /\ submissionClosed => submissionClosed'
           /\ phase' = phase \/ (submissionClosed' /\ activeTasks' = 0 /\ \A s \in Slots : readyQ'[s] = 0)
           /\ phase # "EXECUTING" => \A s \in Slots : readyQ'[s] = readyQ[s] \/ readyQ[s] > 0
<1> DEFINE Fenced == phase' = phase \/ (submissionClosed' /\ activeTasks' = 0 /\ \A s \in Slots : readyQ'[s] = 0)
           Drained == phase # "EXECUTING" => \A s \in Slots : readyQ'[s] = readyQ[s] \/ readyQ[s] > 0
<1>1. ASSUME NEW s, OnConsumed(s), UNCHANGED submissionClosed
      PROVE  Fenced /\ Drained
  <2>1. CASE phase' = phase /\ readyQ' = readyQ
    BY <2>1, Zenon
  <2>2. CASE FenceReached(submissionClosed, activeTasks') /\ readyQ' = [u \in Slots |-> 0]
    <3>1. submissionClosed /\ activeTasks' = 0 /\ phase = "EXECUTING"
      BY <2>2, Zenon DEF FenceReached
    <3>2. QED
      BY <1>1, <2>2, <3>1
  <2>3. QED
    BY <1>1, <2>1, <2>2, Zenon DEF OnConsumed, FinishRunIfReady
<1>2. Callback \/ Endpoint \/ UNCHANGED vars => UNCHANGED <<submissionClosed, phase, readyQ>>
  BY Zenon DEF Callback, Endpoint, ScopeBegin, Alloc, BuildThrow, SubmitBegin, Accept, WorkerDone, vars, queueVars, runVars
<1>3. CASE OrchRetire \/ SchedRetire
  <2>1. UNCHANGED submissionClosed /\ \E s : OnConsumed(s)
    BY <1>3, Zenon DEF OrchRetire, SchedRetire
  <2>2. QED
    BY <1>1, <2>1
<1>4. CASE OrchReleased
  <2>1. UNCHANGED <<submissionClosed, activeTasks>> /\ FinishRunIfReady(submissionClosed, activeTasks, submissionFailed, firstError)
    BY <1>4, Zenon DEF OrchReleased
  <2>2. QED
    BY <2>1 DEF FinishRunIfReady, FenceReached
<1>5. CASE CloseRunSubmission
  <2>1. submissionClosed' = TRUE /\ UNCHANGED activeTasks /\ FinishRunIfReady(TRUE, activeTasks, submissionFailed, firstError)
    BY <1>5, Zenon DEF CloseRunSubmission
  <2>2. QED
    BY <2>1 DEF FinishRunIfReady, FenceReached
<1>6. CASE FailRunSubmission
  <2>1. submissionClosed' = TRUE /\ UNCHANGED <<phase, readyQ>>
    BY <1>6, Zenon DEF FailRunSubmission, queueVars
  <2>2. QED
    BY <2>1
<1>7. CASE UNCHANGED <<submissionClosed, phase>> /\ Drained
  BY <1>7
<1>8. OrchEnqueue \/ SchedEnqueue => UNCHANGED <<submissionClosed, phase>> /\ Drained
  BY Zenon DEF OrchEnqueue, SchedEnqueue, EnqueueReady, runVars
<1>9. ASSUME NEW s \in Slots, PopReady(s)
      PROVE  UNCHANGED <<phase, submissionClosed>> /\ \A u \in Slots : readyQ'[u] = readyQ[u] \/ readyQ[u] > 0
  BY <1>9, Zenon DEF PopReady, runVars, BaseInv, TypeOK, CounterTypes
<1>10. CASE UNCHANGED <<submissionClosed, phase, readyQ>>
  BY <1>7, <1>10, Zenon
<1>11. CASE Orch
  BY <1>3, <1>4, <1>5, <1>6, <1>7, <1>8, <1>10, <1>11, ZenonT(30) DEF Orch, ScopeEnd, Wire, SubmitThrow, Publish, PoisonSubmit, OrchReleaseSelf, OrchReleaseRef, CancelClaim, CancelThrow, CancelCommit, queueVars, runVars
<1>12. CASE Sched
  BY <1>3, <1>7, <1>8, <1>9, <1>10, <1>12, ZenonT(30) DEF Sched, Dispatch, OnTaskComplete, ReleaseConsumer, TryMarkReady, PoisonTask, PoisonSnapshot, SchedReleaseSelf, SchedReleaseRef, queueVars, runVars
<1>13. QED
  BY <1>2, <1>10, <1>11, <1>12, Zenon DEF Next, Terminated

FenceInv ==
    phase # "EXECUTING" => submissionClosed /\ \A s \in Slots : state[s] \in {"FREE", "CONSUMED"} /\ readyQ[s] = 0

(* FenceInv is inductive, since the run is made terminal at zero active      *)
(* tasks only.                                                               *)
LEMMA FenceNext == BaseInv /\ ActiveTasksExact' /\ FenceInv /\ [Next]_vars => FenceInv'
<1> SUFFICES ASSUME BaseInv, ActiveTasksExact', FenceInv, [Next]_vars, phase' # "EXECUTING"
             PROVE  submissionClosed' /\ \A s \in Slots : state'[s] \in {"FREE", "CONSUMED"} /\ readyQ'[s] = 0
  BY Zenon DEF FenceInv
<1>1. CASE phase' # phase
  <2>1. submissionClosed' /\ activeTasks' = 0 /\ \A s \in Slots : readyQ'[s] = 0
    BY <1>1, PhaseStep, Zenon
  <2>2. Active' \in SUBSET Slots /\ Cardinality(Active') = 0
    BY <2>1, Zenon DEF Active, ActiveTasksExact
  <2>3. Active' = {}
    BY <2>2, SlotSets, Zenon
  <2>4. QED
    BY <2>1, <2>3, Zenon DEF Active
<1>2. CASE phase' = phase
  <2>1. submissionClosed /\ submissionClosed' /\ \A s \in Slots : state[s] \in {"FREE", "CONSUMED"} /\ readyQ[s] = 0
    BY <1>2, PhaseStep, Zenon DEF FenceInv
  <2>2. \A s \in Slots : readyQ'[s] = 0
    <3>1. \A s \in Slots : readyQ'[s] = readyQ[s] \/ readyQ[s] > 0
      BY <1>2, PhaseStep, Zenon
    <3>2. QED
      BY SMTT(30), <2>1, <3>1
  <2>3. ~Callback /\ ~Publish
    BY <2>1, NewSlot, Zenon DEF Publish, BaseInv, OrchInv
  <2>4. CASE OrchRetire \/ SchedRetire
    <3>1. (OrchRetire => ostep.slot \in Slots) /\ (SchedRetire => sstep.slot \in Slots)
      BY StepSlots, Zenon DEF OrchRetire, SchedRetire, BaseInv, StepKinds
    <3>2. UNCHANGED state
      BY <2>1, <2>4, <3>1, Zenon DEF OrchRetire, SchedRetire, OnConsumed, Finished
    <3>3. QED
      BY <2>1, <2>2, <3>2, Zenon
  <2>5. CASE (Orch \/ Sched \/ Endpoint \/ UNCHANGED vars) /\ ~Publish /\ ~OrchRetire /\ ~SchedRetire
    <3>1. \A s \in Slots : Advances(s)
      BY <2>5, OtherSteps, Zenon
    <3>2. \A s \in Slots : state'[s] = state[s]
      BY <2>1, <3>1, Zenon DEF Advances, Claimable
    <3>3. QED
      BY <2>1, <2>2, <3>2, Zenon
  <2>6. QED
    BY <2>3, <2>4, <2>5, Zenon DEF Next, Terminated
<1>3. QED
  BY <1>1, <1>2, Zenon

(* The task count is exact and the fence holds throughout.                   *)
LEMMA FenceHolds == Spec => [](ActiveTasksExact /\ FenceInv)
<1>1. Init => FenceInv
  BY Zenon DEF Init, FenceInv
<1>2. QED
  BY <1>1, FenceNext, RunCountersHold, CountsAgree, PTL DEF Spec, RunCountersExact

(* The fence of the run is final: when finish_run_if_ready has made the run  *)
(* terminal the submission is closed, every slot it handed out is reclaimed, *)
(* nothing is queued and no failure is still to be propagated.               *)
THEOREM FenceIsFinal == Spec => []FenceFinal
<1>1. FenceInv /\ DebtInv => FenceFinal
  BY Zenon DEF FenceInv, DebtInv, FenceFinal
<1>2. QED
  BY <1>1, FenceHolds, CountsAgree, PTL
-----------------------------------------------------------------------------
(* A task that is not READY yet is not on its way to dispatch.               *)
HeadInv == ReadyOnce /\ \A s \in Slots : state[s] \in {"FREE", "BUILDING", "PENDING"} => Heading(s) = 0

(* The ways to dispatch a task is on, written as a sum.                      *)
LEMMA HeadingIs ==
    ASSUME TypeOK, NEW s \in Slots
    PROVE  /\ Heading(s) = readyQ[s] + One(ostep = Step("enqueue", s)) + One(sstep = Step("enqueue", s)) + One(sstep = Step("claim", s))
           /\ readyQ[s] \in Nat /\ Heading(s) \in Nat
<1>1. readyQ[s] \in Nat
  BY Zenon DEF TypeOK, CounterTypes
<1>2. QED
  BY <1>1 DEF Heading, One

(* The same in the state after a step.                                       *)
LEMMA HeadingIsNext ==
    ASSUME TypeOK'
    PROVE  \A s \in Slots : /\ Heading(s)' = readyQ'[s] + One(ostep' = Step("enqueue", s)) + One(sstep' = Step("enqueue", s)) + One(sstep' = Step("claim", s))
                            /\ readyQ'[s] \in Nat /\ Heading(s)' \in Nat
<1>1. \A s \in Slots : readyQ'[s] \in Nat
  BY Zenon DEF TypeOK, CounterTypes
<1>2. QED
  BY <1>1 DEF Heading, One

(* HeadInv is inductive: the step that makes a task READY is the one that    *)
(* sends it on its way.                                                      *)
LEMMA HeadNext == BaseInv /\ TypeOK' /\ FenceInv /\ FenceInv' /\ HeadInv /\ [Next]_vars => HeadInv'
<1> SUFFICES ASSUME BaseInv, TypeOK', FenceInv, FenceInv', HeadInv, [Next]_vars PROVE HeadInv'
  OBVIOUS
<1>0. \A s \in Slots : /\ Heading(s) \in Nat /\ Heading(s)' \in Nat /\ readyQ[s] \in Nat /\ readyQ'[s] \in Nat
                       /\ Heading(s) = readyQ[s] + One(ostep = Step("enqueue", s)) + One(sstep = Step("enqueue", s)) + One(sstep = Step("claim", s))
                       /\ Heading(s)' = readyQ'[s] + One(ostep' = Step("enqueue", s)) + One(sstep' = Step("enqueue", s)) + One(sstep' = Step("claim", s))
  BY HeadingIs, HeadingIsNext, Zenon DEF BaseInv
<1>1. ASSUME \A s \in Slots : /\ Heading(s)' <= Heading(s)
                              /\ state'[s] = "READY" => state[s] = "READY" /\ Heading(s)' = Heading(s)
                              /\ state'[s] \in {"FREE", "BUILDING", "PENDING"} => state[s] \in {"FREE", "BUILDING", "PENDING"}
      PROVE  HeadInv'
  <2>1. ASSUME NEW s \in Slots
        PROVE  /\ Heading(s)' <= 1 /\ (state'[s] = "READY" => Heading(s)' = 1)
               /\ state'[s] \in {"FREE", "BUILDING", "PENDING"} => Heading(s)' = 0
    BY <1>0, <1>1, SMTT(30) DEF HeadInv, ReadyOnce
  <2>2. QED
    BY <2>1, Zenon DEF HeadInv, ReadyOnce
<1>2. ASSUME UNCHANGED readyQ,
             \A s \in Slots : /\ ostep' = Step("enqueue", s) <=> ostep = Step("enqueue", s)
                              /\ sstep' = Step("enqueue", s) <=> sstep = Step("enqueue", s)
                              /\ sstep' = Step("claim", s) <=> sstep = Step("claim", s)
      PROVE  \A s \in Slots : Heading(s)' <= Heading(s) /\ Heading(s)' = Heading(s)
  <2>1. \A s \in Slots : Heading(s)' = Heading(s)
    BY <1>0, <1>2, Zenon DEF One
  <2>2. QED
    BY <1>0, <2>1
<1>3. CASE Callback
  <2>1. UNCHANGED <<readyQ, ostep, sstep>>
    BY <1>3, Zenon DEF Callback, ScopeBegin, Alloc, BuildThrow, SubmitBegin, queueVars, orchVars, schedVars
  <2>2. \A s \in Slots : state'[s] = state[s] \/ (state[s] = "FREE" /\ state'[s] \in {"BUILDING", "COMPLETED", "CONSUMED"})
    BY <1>3, NewSlot, Zenon
  <2>3. QED
    BY <1>1, <1>2, <2>1, <2>2, Zenon
<1>4. ASSUME \A s \in Slots : state'[s] = state[s] \/ (state[s] # "FREE" /\ state'[s] = "CONSUMED"),
             UNCHANGED readyQ \/ phase' # phase,
             ostep' = ostep \/ (ostep' = Idle /\ \A s \in Slots : ostep # Step("enqueue", s)),
             sstep' = sstep \/ (sstep' = Idle /\ \A s \in Slots : sstep # Step("enqueue", s) /\ sstep # Step("claim", s))
      PROVE  HeadInv'
  <2>0. \A s \in Slots : Idle # Step("enqueue", s) /\ Idle # Step("claim", s)
    BY DEF Step, Idle
  <2>1. \A s \in Slots : /\ ostep' = Step("enqueue", s) <=> ostep = Step("enqueue", s)
                         /\ sstep' = Step("enqueue", s) <=> sstep = Step("enqueue", s)
                         /\ sstep' = Step("claim", s) <=> sstep = Step("claim", s)
    BY <1>4, <2>0, Zenon
  <2>2. CASE UNCHANGED readyQ
    BY <1>1, <1>2, <1>4, <2>1, <2>2, ZenonT(30)
  <2>3. CASE phase' # phase
    <3>1. submissionClosed' /\ activeTasks' = 0 /\ \A s \in Slots : readyQ'[s] = 0
      BY <2>3, PhaseStep, Zenon
    <3>2. \A s \in Slots : Heading(s)' <= Heading(s)
      <4>1. \A b : One(b) \in {0, 1}
        BY DEF One
      <4>2. \A s \in Slots : Heading(s)' = 0 + One(ostep = Step("enqueue", s)) + One(sstep = Step("enqueue", s)) + One(sstep = Step("claim", s))
        BY <1>0, <2>1, <3>1, Zenon DEF One
      <4>3. QED
        BY SMTT(30), <1>0, <4>1, <4>2
    <3>3. phase' # "EXECUTING" \/ phase # "EXECUTING"
      BY <2>3, Zenon
    <3>4. \A s \in Slots : state'[s] # "READY"
      BY <1>4, <3>3, Zenon DEF FenceInv
    <3>5. QED
      BY <1>1, <1>4, <3>2, <3>4, Zenon
  <2>4. QED
    BY <1>4, <2>2, <2>3, Zenon
<1>5. ASSUME NEW s \in Slots, OnConsumed(s)
      PROVE  (\A u \in Slots : state'[u] = state[u] \/ (state[u] # "FREE" /\ state'[u] = "CONSUMED")) /\ (UNCHANGED readyQ \/ phase' # phase)
  <2>1. \A u \in Slots : state'[u] = state[u] \/ (state[u] # "FREE" /\ state'[u] = "CONSUMED")
    BY <1>5, Zenon DEF OnConsumed, Finished, BaseInv, TypeOK, WordTypes
  <2>2. UNCHANGED readyQ \/ phase' # phase
    BY <1>5, Zenon DEF OnConsumed, FinishRunIfReady, FenceReached
  <2>3. QED
    BY <2>1, <2>2, Zenon
<1>6. CASE OrchRetire
  <2>1. ostep.slot \in Slots /\ ostep' = Idle /\ \A s \in Slots : ostep # Step("enqueue", s)
    <3>1. ostep.slot \in Slots /\ ostep' = Idle /\ ostep.kind = "retire"
      BY <1>6, StepSlots, Zenon DEF OrchRetire, BaseInv, StepKinds
    <3>2. QED
      BY <3>1, StepFields, SMTT(30)
  <2>2. OnConsumed(ostep.slot) /\ UNCHANGED sstep
    BY <1>6, Zenon DEF OrchRetire, schedVars
  <2>3. QED
    BY <1>4, <1>5, <2>1, <2>2, Zenon
<1>7. CASE SchedRetire
  <2>1. sstep.slot \in Slots /\ sstep' = Idle /\ \A s \in Slots : sstep # Step("enqueue", s) /\ sstep # Step("claim", s)
    <3>1. sstep.slot \in Slots /\ sstep' = Idle /\ sstep.kind = "retire"
      BY <1>7, StepSlots, Zenon DEF SchedRetire, BaseInv, StepKinds
    <3>2. QED
      BY <3>1, StepFields, SMTT(30)
  <2>2. OnConsumed(sstep.slot) /\ UNCHANGED ostep
    BY <1>7, Zenon DEF SchedRetire, orchVars
  <2>3. QED
    BY <1>4, <1>5, <2>1, <2>2, ZenonT(30)
<1>8. CASE OrchReleased \/ CloseRunSubmission
  <2>1. UNCHANGED <<state, ostep, sstep>> /\ (UNCHANGED readyQ \/ phase' # phase)
    BY <1>8, Zenon DEF OrchReleased, CloseRunSubmission, FinishRunIfReady, FenceReached, slotVars, schedVars
  <2>2. QED
    BY <1>4, <2>1, Zenon
<1>9. CASE Publish
  <2>1. cur \in Slots /\ ostep = Idle /\ UNCHANGED <<readyQ, sstep>>
    BY <1>9, Zenon DEF Publish, BaseInv, OrchInv, TypeOK, IndexTypes, queueVars, schedVars
  <2>2. \A s \in Slots : ostep # Step("enqueue", s)
    BY <2>1, StepsDiffer, Zenon DEF StepKinds
  <2>3. CASE state[cur] = "BUILDING" /\ PublishedState = "READY"
    <3>0. PICK s \in Slots : s = cur
      BY <2>1, Zenon
    <3>1. state'[s] = "READY" /\ ostep' = Step("enqueue", s) /\ \A u \in Slots : u # s => state'[u] = state[u]
      BY <1>9, <2>3, <3>0, ZenonT(30) DEF Publish, BaseInv, TypeOK, WordTypes
    <3>2. Heading(s) = 0
      BY <2>3, <3>0, Zenon DEF HeadInv
    <3>3. Heading(s)' = Heading(s) + 1
      BY <1>0, <2>1, <2>2, <3>1, SMTT(30) DEF One
    <3>4. \A u \in Slots : Step("enqueue", s) = Step("enqueue", u) => u = s
      BY DEF Step
    <3>5. \A u \in Slots : u # s => Heading(u)' = Heading(u)
      BY <1>0, <2>1, <2>2, <3>1, <3>4, ZenonT(30) DEF One
    <3>6. Heading(s)' = 1 /\ Heading(s)' <= 1
      BY SMTT(30), <3>2, <3>3
    <3>7. QED
      BY <3>1, <3>5, <3>6, Zenon DEF HeadInv, ReadyOnce
  <2>4. CASE ~(state[cur] = "BUILDING" /\ PublishedState = "READY")
    <3>1. ostep' = Idle /\ \A s \in Slots : state'[s] = state[s] \/ (state[s] = "BUILDING" /\ state'[s] = "PENDING")
      BY <1>9, <2>1, <2>4, Zenon DEF Publish, PublishedState, BaseInv, TypeOK, WordTypes
    <3>2. QED
      BY <1>1, <1>2, <2>1, <3>1, ZenonT(30)
  <2>5. QED
    BY <2>3, <2>4, Zenon
<1>10. CASE OrchEnqueue \/ SchedEnqueue
  <2>1. PICK s \in Slots : \/ ostep = Step("enqueue", s) /\ ostep' = Idle /\ sstep' = sstep
                           \/ sstep = Step("enqueue", s) /\ sstep' = Idle /\ ostep' = ostep
    BY <1>10, StepSlots, ZenonT(30) DEF OrchEnqueue, SchedEnqueue, BaseInv, orchVars, schedVars, StepKinds
  <2>2. UNCHANGED state /\ (\A u \in Slots : u # s => readyQ'[u] = readyQ[u])
    BY <1>10, <2>1, SMTT(30) DEF OrchEnqueue, SchedEnqueue, EnqueueReady, slotVars, BaseInv, TypeOK, CounterTypes, Step, Idle, orchVars, schedVars
  <2>3. IF phase = "EXECUTING" THEN readyQ'[s] = readyQ[s] + 1 ELSE readyQ'[s] = readyQ[s] /\ state[s] # "READY"
    <3>1. phase # "EXECUTING" => state[s] # "READY"
      BY ZenonT(30) DEF FenceInv
    <3>2. IF phase = "EXECUTING" THEN readyQ'[s] = readyQ[s] + 1 ELSE readyQ'[s] = readyQ[s]
      BY <1>10, <2>1, SMTT(30) DEF OrchEnqueue, SchedEnqueue, EnqueueReady, BaseInv, TypeOK, CounterTypes, Step, Idle
    <3>3. QED
      BY <3>1, <3>2, Zenon
  <2>4. \A u \in Slots : Idle # Step("enqueue", u) /\ Idle # Step("claim", u) /\ Step("enqueue", s) # Step("claim", u)
                         /\ (Step("enqueue", s) = Step("enqueue", u) => u = s)
    BY DEF Step, Idle
  <2>5. \A u \in Slots : u # s => Heading(u)' = Heading(u)
    BY <1>0, <2>1, <2>2, <2>4, ZenonT(30) DEF One
  <2>6. Heading(s)' = readyQ'[s] + (Heading(s) - readyQ[s] - 1)
    BY <1>0, <2>1, <2>4, SMTT(30) DEF One
  <2>7. \A u \in Slots : Heading(u)' <= Heading(u) /\ (state'[u] = "READY" => Heading(u)' = Heading(u))
    BY SMTT(30), <1>0, <2>2, <2>3, <2>5, <2>6
  <2>8. QED
    BY <1>1, <2>2, <2>7, Zenon
<1>11. ASSUME NEW s \in Slots, PopReady(s)
      PROVE  HeadInv'
  <2>1. UNCHANGED <<state, ostep>> /\ sstep = Idle /\ sstep' = Step("claim", s)
    BY <1>11, ZenonT(30) DEF PopReady, SchedIdle, slotVars, orchVars
  <2>2. readyQ'[s] = readyQ[s] - 1 /\ \A u \in Slots : u # s => readyQ'[u] = readyQ[u]
    BY <1>11, SMTT(30) DEF PopReady, BaseInv, TypeOK, CounterTypes
  <2>3. \A u \in Slots : Idle # Step("enqueue", u) /\ Idle # Step("claim", u) /\ Step("claim", s) # Step("enqueue", u)
                         /\ (Step("claim", s) = Step("claim", u) => u = s)
    BY DEF Step, Idle
  <2>4. \A u \in Slots : u # s => Heading(u)' = Heading(u)
    BY <1>0, <2>1, <2>2, <2>3, ZenonT(30) DEF One
  <2>5. Heading(s)' = Heading(s)
    BY <1>0, <2>1, <2>2, <2>3, SMTT(30) DEF One
  <2>6. \A u \in Slots : Heading(u)' <= Heading(u) /\ Heading(u)' = Heading(u)
    BY SMTT(30), <1>0, <2>4, <2>5
  <2>7. QED
    BY <1>1, <2>1, <2>6, Zenon
<1>12. CASE Dispatch
  <2>1. PICK s \in Slots : sstep = Step("claim", s) /\ ClaimForDispatch(s)
    BY <1>12, StepSlots, Zenon DEF Dispatch, BaseInv, StepKinds
  <2>2. sstep' = Idle /\ UNCHANGED <<readyQ, ostep>>
    BY <1>12, Zenon DEF Dispatch, queueVars, orchVars
  <2>3. state'[s] # "READY" /\ \A u \in Slots : state'[u] = state[u] \/ (state[u] = "READY" /\ state'[u] = "RUNNING")
    BY <2>1, Zenon DEF ClaimForDispatch, BaseInv, TypeOK, WordTypes
  <2>4. \A u \in Slots : Idle # Step("enqueue", u) /\ Idle # Step("claim", u) /\ Step("claim", s) # Step("enqueue", u)
                         /\ (Step("claim", s) = Step("claim", u) => u = s)
    BY DEF Step, Idle
  <2>5. \A u \in Slots : u # s => Heading(u)' = Heading(u)
    BY <1>0, <2>1, <2>2, <2>4, ZenonT(30) DEF One
  <2>6. Heading(s)' = Heading(s) - 1
    BY <1>0, <2>1, <2>2, <2>4, SMTT(30) DEF One
  <2>7. \A u \in Slots : Heading(u)' <= Heading(u) /\ (state'[u] = "READY" => Heading(u)' = Heading(u))
    BY SMTT(30), <1>0, <2>3, <2>5, <2>6
  <2>8. QED
    BY <1>1, <2>3, <2>7, ZenonT(30)
<1>13. CASE TryMarkReady
  <2>1. PICK s \in Slots : sstep = Step("mark", s) /\ sstep.slot = s
    BY <1>13, StepSlots, Zenon DEF TryMarkReady, BaseInv, StepKinds
  <2>2. \A u \in Slots : /\ Idle # Step("enqueue", u) /\ Idle # Step("claim", u) /\ Step("enqueue", s) # Step("claim", u)
                         /\ Step("mark", s) # Step("claim", u) /\ Step("mark", s) # Step("enqueue", u)
                         /\ Step("enqueue", s) = Step("enqueue", u) => u = s
    BY DEF Step, Idle
  <2>3. UNCHANGED <<readyQ, ostep>>
    BY <1>13, Zenon DEF TryMarkReady, queueVars, orchVars
  <2>4. CASE CanMarkReady(s)
    <3>1. state[s] = "PENDING" /\ sstep' = Step("enqueue", s) /\ state'[s] = "READY" /\ \A u \in Slots : u # s => state'[u] = state[u]
      BY <1>13, <2>1, <2>4, ZenonT(30) DEF TryMarkReady, CanMarkReady, BaseInv, TypeOK, WordTypes
    <3>2. Heading(s) = 0 /\ Heading(s)' = Heading(s) + 1
      BY <1>0, <2>1, <2>2, <2>3, <3>1, SMTT(30) DEF HeadInv, One
    <3>3. \A u \in Slots : u # s => Heading(u)' = Heading(u)
      BY <1>0, <2>1, <2>2, <2>3, <3>1, ZenonT(30) DEF One
    <3>4. Heading(s)' = 1 /\ Heading(s)' <= 1
      BY <3>2
    <3>5. QED
      BY <3>1, <3>3, <3>4, Zenon DEF HeadInv, ReadyOnce
  <2>5. CASE ~CanMarkReady(s)
    <3>1. sstep' = Idle /\ UNCHANGED state
      BY <1>13, <2>1, <2>5, Zenon DEF TryMarkReady
    <3>2. QED
      BY <1>1, <1>2, <2>1, <2>2, <2>3, <3>1, ZenonT(30)
  <2>6. QED
    BY <2>4, <2>5, Zenon
<1>14. ASSUME UNCHANGED readyQ,
              \A s \in Slots : state'[s] = state[s] \/ (state[s] \in Claimable \cup {"RUNNING"} /\ state'[s] \in Finished),
              ostep' = ostep \/ \A s \in Slots : ostep # Step("enqueue", s) /\ ostep' # Step("enqueue", s),
              sstep' = sstep \/ \A s \in Slots : /\ sstep # Step("enqueue", s) /\ sstep' # Step("enqueue", s)
                                                 /\ sstep # Step("claim", s) /\ sstep' # Step("claim", s)
       PROVE  HeadInv'
  <2>1. \A s \in Slots : Heading(s)' <= Heading(s) /\ Heading(s)' = Heading(s)
    BY <1>2, <1>14, Zenon
  <2>2. QED
    BY <1>1, <1>14, <2>1, Zenon DEF Finished
<1>15. CASE Orch /\ ~Publish /\ ~OrchEnqueue /\ ~OrchRetire /\ ~OrchReleased /\ ~CloseRunSubmission
  <2>1. UNCHANGED <<readyQ, sstep>>
    BY <1>15, ZenonT(30) DEF Orch, ScopeEnd, Wire, SubmitThrow, PoisonSubmit, OrchReleaseSelf, OrchReleaseRef, FailRunSubmission, CancelClaim, CancelThrow, CancelCommit, queueVars, schedVars
  <2>2. \A s \in Slots : state'[s] = state[s] \/ (state[s] \in Claimable \cup {"RUNNING"} /\ state'[s] \in Finished)
    <3>1. ASSUME NEW raised \in BOOLEAN, PoisonSubmit(raised)
          PROVE  \A s \in Slots : state'[s] = state[s] \/ (state[s] \in Claimable \cup {"RUNNING"} /\ state'[s] \in Finished)
      BY <3>1, Zenon DEF PoisonSubmit, Claimable, Finished, BaseInv, TypeOK, WordTypes
    <3>2. ASSUME NEW c \in Slots, CancelClaim(c)
          PROVE  \A s \in Slots : state'[s] = state[s] \/ (state[s] \in Claimable \cup {"RUNNING"} /\ state'[s] \in Finished)
      BY <3>2, Zenon DEF CancelClaim, Finished, BaseInv, TypeOK, WordTypes
    <3>3. QED
      BY <1>15, <3>1, <3>2, ZenonT(30) DEF Orch, ScopeEnd, Wire, SubmitThrow, OrchReleaseSelf, OrchReleaseRef, FailRunSubmission, CancelThrow, CancelCommit, slotVars
  <2>3. ostep' = ostep \/ (ostep = Idle /\ \E s \in Slots : ostep' = AfterConsume(s))
    BY <1>15, ZenonT(30) DEF Orch, ScopeEnd, Wire, SubmitThrow, PoisonSubmit, OrchReleaseSelf, OrchReleaseRef, FailRunSubmission, CancelClaim, CancelThrow, CancelCommit, orchVars
  <2>4. \A s, u \in Slots : AfterConsume(u) # Step("enqueue", s) /\ Idle # Step("enqueue", s)
    BY DEF AfterConsume, Step, Idle
  <2>5. QED
    BY <1>14, <2>1, <2>2, <2>3, <2>4, ZenonT(30)
<1>16. CASE Sched /\ ~SchedEnqueue /\ ~SchedRetire /\ ~Dispatch /\ ~TryMarkReady /\ ~\E s \in Slots : PopReady(s)
  <2>1. UNCHANGED <<readyQ, ostep>>
    BY <1>16, Zenon DEF Sched, OnTaskComplete, ReleaseConsumer, PoisonTask, PoisonSnapshot, SchedReleaseSelf, SchedReleaseRef, queueVars, orchVars
  <2>2. \A s \in Slots : state'[s] = state[s] \/ (state[s] \in Claimable \cup {"RUNNING"} /\ state'[s] \in Finished)
    <3>1. ASSUME NEW c \in Slots, OnTaskComplete(c)
          PROVE  \A s \in Slots : state'[s] = state[s] \/ (state[s] \in Claimable \cup {"RUNNING"} /\ state'[s] \in Finished)
      BY <3>1, Zenon DEF OnTaskComplete, Finished, BaseInv, TypeOK, WordTypes, LifeInv
    <3>2. ASSUME NEW c \in Slots, NEW u \in Slots, PoisonTask(u, c)
          PROVE  \A s \in Slots : state'[s] = state[s] \/ (state[s] \in Claimable \cup {"RUNNING"} /\ state'[s] \in Finished)
      BY <3>2, Zenon DEF PoisonTask, Finished, BaseInv, TypeOK, WordTypes
    <3>3. QED
      BY <1>16, <3>1, <3>2, ZenonT(30) DEF Sched, ReleaseConsumer, PoisonSnapshot, SchedReleaseSelf, SchedReleaseRef, slotVars
  <2>3. \/ sstep' = sstep
        \/ (sstep = Idle \/ sstep.kind = "snapshot") /\ (sstep' = Idle \/ \E k \in {"mark", "snapshot", "retire"}, s \in Slots : sstep' = Step(k, s))
    BY <1>16, Zenon DEF Sched, OnTaskComplete, ReleaseConsumer, PoisonTask, PoisonSnapshot, SchedReleaseSelf, SchedReleaseRef, AfterConsume
  <2>4. sstep' = sstep \/ \A s \in Slots : /\ sstep # Step("enqueue", s) /\ sstep' # Step("enqueue", s)
                                           /\ sstep # Step("claim", s) /\ sstep' # Step("claim", s)
    BY <2>3 DEF Step, Idle
  <2>5. QED
    BY <1>14, <2>1, <2>2, <2>4, ZenonT(30)
<1>17. CASE Endpoint \/ UNCHANGED vars
  <2>1. UNCHANGED <<readyQ, state, ostep, sstep>>
    BY <1>17, Zenon DEF Endpoint, Accept, WorkerDone, vars, slotVars, queueVars, orchVars, schedVars
  <2>2. QED
    BY <1>14, <2>1, Zenon
<1>18. QED
  BY <1>3, <1>6, <1>7, <1>8, <1>9, <1>10, <1>11, <1>12, <1>13, <1>15, <1>16, <1>17, ZenonT(30) DEF Next, Terminated
-----------------------------------------------------------------------------
(* The producers a task still waits for: those wired to it that have not     *)
(* completed, or whose completion has not been counted for it yet.           *)
Settled == {"COMPLETED", "CONSUMED"}
Undone(c) == {p \in Slots : /\ c \in consumers[p]
                            /\ state[p] \notin Settled \/ (c \in work[p].cons /\ ~work[p].bad)}

(* fanin_released plus the producers still waited for never exceeds the      *)
(* fanin a published task waits for, nor the one its submit has counted so   *)
(* far; without the second the count could be published one short.           *)
FaninInv ==
    /\ \A c \in Slots : state[c] = "PENDING" => faninReleased[c] + Cardinality(Undone(c)) <= faninCount[c]
    /\ opc = "wire" /\ ~poisoned /\ state[cur] = "BUILDING" => faninReleased[cur] + Cardinality(Undone(cur)) <= live
    /\ \A s \in Slots : work[s].cons # {} /\ ~work[s].bad => state[s] \in Settled
    /\ \A c \in Slots : c > used => faninReleased[c] = 0
    /\ NoEarlyReady

(* The producers still waited for can be counted.                            *)
LEMMA UndoneCount ==
    ASSUME NEW c
    PROVE  Undone(c) \in SUBSET Slots /\ Cardinality(Undone(c)) \in Nat /\ (Cardinality(Undone(c)) = 0 <=> Undone(c) = {})
<1>1. Undone(c) \in SUBSET Slots
  BY Zenon DEF Undone
<1>2. QED
  BY <1>1, SlotSets, Zenon

(* A step that counts nothing and starts nothing can only shrink what is     *)
(* waited for.                                                               *)
LEMMA FaninShrinks ==
    ASSUME BaseInv, TypeOK', FaninInv,
           UNCHANGED <<consumers, faninReleased, faninCount>>, used' >= used,
           \A p \in Slots : /\ consumers[p] # {} /\ state[p] \in Settled => state'[p] \in Settled
                            /\ state'[p] = "PENDING" => state[p] = "PENDING"
                            /\ state'[p] \in {"READY", "RUNNING"} => state[p] \in {"READY", "RUNNING"}
                            /\ work'[p].cons # {} /\ ~work'[p].bad => /\ state'[p] \in Settled
                                                                      /\ (work'[p].cons \subseteq work[p].cons /\ ~work[p].bad) \/ state[p] \notin Settled,
           opc' = "wire" /\ ~poisoned' /\ state'[cur'] = "BUILDING" =>
               opc = "wire" /\ ~poisoned /\ state[cur] = "BUILDING" /\ cur' = cur /\ live' = live
    PROVE  FaninInv'
<1>1. ASSUME NEW c \in Slots
      PROVE  Undone(c)' \subseteq Undone(c)
  BY Zenon DEF Undone
<1>2. ASSUME NEW c \in Slots
      PROVE  Cardinality(Undone(c)') <= Cardinality(Undone(c)) /\ Cardinality(Undone(c)') \in Nat /\ Cardinality(Undone(c)) \in Nat
  <2>1. Undone(c) \in SUBSET Slots /\ IsFiniteSet(Undone(c))
    BY UndoneCount, SlotSets, Zenon
  <2>2. Undone(c)' \in SUBSET Slots
    BY <1>1, <2>1, ZenonT(30)
  <2>3. QED
    BY <1>1, <2>1, <2>2, FS_Subset, SlotSets, Zenon
<1>3. \A c \in Slots : faninReleased[c] \in Nat /\ faninCount[c] \in Nat /\ c \in Nat
  BY SMTT(30) DEF BaseInv, TypeOK, CounterTypes, Slots
<1>4. live \in Nat /\ used \in Nat /\ used' \in Nat
  BY SMTT(30) DEF BaseInv, TypeOK, CounterTypes, IndexTypes
<1>5. \A c \in Slots : state'[c] = "PENDING" => faninReleased'[c] + Cardinality(Undone(c)') <= faninCount'[c]
  <2>1. ASSUME NEW c \in Slots, state'[c] = "PENDING"
        PROVE  faninReleased[c] + Cardinality(Undone(c)) <= faninCount[c]
    BY <2>1, Zenon DEF FaninInv
  <2>2. QED
    BY SMTT(30), <1>2, <1>3, <2>1
<1>6. ASSUME opc' = "wire", ~poisoned', state'[cur'] = "BUILDING"
      PROVE  faninReleased'[cur'] + Cardinality(Undone(cur)') <= live'
  <2>1. cur \in Slots /\ cur' = cur /\ live' = live /\ faninReleased[cur] + Cardinality(Undone(cur)) <= live
    BY <1>6, Zenon DEF FaninInv, BaseInv, TypeOK, IndexTypes
  <2>2. PICK c \in Slots : c = cur
    BY <2>1, Zenon
  <2>3. Undone(cur)' = Undone(c)'
    BY <2>1, <2>2, Zenon DEF Undone
  <2>4. faninReleased[c] + Cardinality(Undone(c)') <= live
    BY SMTT(30), <1>2, <1>3, <1>4, <2>1, <2>2
  <2>5. QED
    BY <2>1, <2>2, <2>3, <2>4, Zenon
<1>7. \A c \in Slots : c > used' => faninReleased'[c] = 0
  <2>1. \A c \in Slots : c > used' => c > used
    BY SMTT(30), <1>3, <1>4
  <2>2. QED
    BY <2>1, Zenon DEF FaninInv
<1>8. NoEarlyReady'
  BY Zenon DEF NoEarlyReady, FaninInv, Settled
<1>9. QED
  BY <1>5, <1>6, <1>7, <1>8, Zenon DEF FaninInv

(* Wiring a producer that has not completed counts it as live.               *)
LEMMA FaninWire ==
    ASSUME BaseInv, DebtInv, TypeOK', FaninInv, NEW p \in Slots, Wire(p)
    PROVE  FaninInv'
<1>0. PICK k \in Slots : k = cur
  BY Zenon DEF Wire, BaseInv, TypeOK, IndexTypes
<1>1. /\ opc = "wire" /\ p \in deps /\ UNCHANGED <<state, faninCount, faninReleased, used, cur, work, opc>>
      /\ consumers' = IF TakesEdge(p) THEN [consumers EXCEPT ![p] = @ \cup {k}] ELSE consumers
      /\ live' = (IF LiveFanin(p) THEN live + 1 ELSE live) /\ poisoned' = (poisoned \/ state[p] = "FAILED")
  BY <1>0, Zenon DEF Wire, orchVars, schedVars
<1>2. k \notin consumers[p] /\ k \notin work[p].cons /\ state[k] \in {"BUILDING", "FAILED"}
  BY <1>0, <1>1, Zenon DEF BaseInv, EdgeInv, SlotInv, DebtInv
<1>3. \A q \in Slots : q # p => consumers'[q] = consumers[q]
  BY <1>1, Zenon DEF BaseInv, TypeOK, SetTypes
<1>4. \A c \in Slots : c \in consumers'[p] <=> c \in consumers[p] \/ (c = k /\ TakesEdge(p))
  BY <1>1, Zenon DEF BaseInv, TypeOK, SetTypes
<1>5. \A c \in Slots : c # k => Undone(c)' = Undone(c)
  BY <1>1, <1>3, <1>4, Zenon DEF Undone
<1>6. ASSUME ~poisoned', state[k] = "BUILDING"
      PROVE  faninReleased[k] + Cardinality(Undone(k)') <= live'
  <2>0. ~poisoned /\ state[p] # "FAILED"
    BY <1>1, <1>6, Zenon
  <2>1. /\ faninReleased[k] + Cardinality(Undone(k)) <= live
        /\ faninReleased[k] \in Nat /\ live \in Nat
        /\ Undone(k) \in SUBSET Slots /\ Cardinality(Undone(k)) \in Nat
    BY <1>0, <1>1, <1>6, <2>0, UndoneCount, ZenonT(30) DEF FaninInv, BaseInv, TypeOK, CounterTypes
  <2>2. CASE LiveFanin(p)
    <3>1. p \in Slots \ Undone(k) /\ TakesEdge(p) /\ state[p] \notin Settled
      BY <1>2, <2>2, Zenon DEF Undone, LiveFanin, TakesEdge, Finished, Settled
    <3>2. Undone(k)' = Undone(k) \cup {p}
      BY <1>1, <1>3, <1>4, <3>1, Zenon DEF Undone
    <3>3. Cardinality(Undone(k)') = Cardinality(Undone(k)) + 1
      BY <2>1, <3>1, <3>2, SlotSets, Zenon
    <3>4. QED
      BY SMTT(30), <1>1, <2>1, <2>2, <3>3
  <2>3. CASE ~LiveFanin(p)
    <3>1. state[p] \in Settled
      BY <2>0, <2>3, Zenon DEF LiveFanin, Finished, Settled
    <3>2. Undone(k)' = Undone(k)
      BY <1>1, <1>2, <1>3, <1>4, <3>1, ZenonT(30) DEF Undone
    <3>3. QED
      BY <1>1, <2>1, <2>3, <3>2, Zenon
  <2>4. QED
    BY <2>2, <2>3, Zenon
<1>7. \A c \in Slots : state'[c] = "PENDING" => faninReleased'[c] + Cardinality(Undone(c)') <= faninCount'[c]
  <2>1. ASSUME NEW c \in Slots, state[c] = "PENDING"
        PROVE  c # k
    BY <1>2, <2>1, Zenon
  <2>2. QED
    BY <1>1, <1>5, <2>1, Zenon DEF FaninInv
<1>8. opc' = "wire" /\ ~poisoned' /\ state'[cur'] = "BUILDING" => faninReleased'[cur'] + Cardinality(Undone(cur)') <= live'
  <2>1. Undone(cur)' = Undone(k)'
    BY <1>0, <1>1, Zenon DEF Undone
  <2>2. QED
    BY <1>0, <1>1, <1>6, <2>1, Zenon
<1>9. NoEarlyReady'
  BY <1>1, <1>2, <1>3, <1>4, Zenon DEF NoEarlyReady, FaninInv
<1>10. QED
  BY <1>1, <1>7, <1>8, <1>9, Zenon DEF FaninInv

(* A new slot waits for nothing yet.                                         *)
LEMMA FaninCallback ==
    ASSUME BaseInv, DebtInv, TypeOK', FaninInv, Callback
    PROVE  FaninInv'
<1>1. UNCHANGED <<consumers, faninReleased, faninCount, work>>
  BY Zenon DEF Callback, ScopeBegin, Alloc, BuildThrow, SubmitBegin, slotVars, orchVars, schedVars
<1>2. used' = used \/ used' = used + 1
  BY Zenon DEF Callback, ScopeBegin, Alloc, BuildThrow, SubmitBegin, submitVars
<1>3. used \in Nat /\ used' >= used
  BY <1>2 DEF BaseInv, TypeOK, IndexTypes
<1>4. \A s \in Slots : state'[s] = state[s] \/ (state[s] = "FREE" /\ state'[s] \in {"BUILDING", "COMPLETED", "CONSUMED"})
  BY NewSlot, Zenon
<1>5. opc = "idle" /\ ~submissionClosed
  BY Zenon DEF Callback, ScopeBegin, Alloc, BuildThrow, SubmitBegin, CallbackRunning, OrchIdle
<1>6. \A p \in Slots : /\ state[p] \in Settled => state'[p] \in Settled
                       /\ state'[p] = "PENDING" => state[p] = "PENDING"
                       /\ state'[p] \in {"READY", "RUNNING"} => state[p] \in {"READY", "RUNNING"}
                       /\ work'[p].cons # {} /\ ~work'[p].bad => /\ state'[p] \in Settled
                                                                 /\ (work'[p].cons \subseteq work[p].cons /\ ~work[p].bad) \/ state[p] \notin Settled
  BY <1>1, <1>4, Zenon DEF FaninInv, Settled
<1>7. CASE opc' # "wire"
  BY <1>1, <1>3, <1>6, <1>7, FaninShrinks, ZenonT(30)
<1>8. CASE opc' = "wire"
  <2>1. PICK D \in SUBSET Slots : \E R \in SUBSET D : SubmitBegin(D, R)
    BY <1>5, <1>8, ZenonT(30) DEF Callback, ScopeBegin, Alloc, BuildThrow, orchVars
  <2>2. PICK k \in Slots : k = used + 1
    BY <2>1, NAssumption, SMTT(30) DEF SubmitBegin, Slots, BaseInv, TypeOK, IndexTypes
  <2>3. cur' = k /\ live' = 0 /\ used' = k /\ state'[k] = "BUILDING"
    BY <2>1, <2>2, Zenon DEF SubmitBegin, BaseInv, TypeOK, WordTypes
  <2>4. k > used
    BY SMTT(30), <1>3, <2>2
  <2>5. faninReleased[k] = 0 /\ \A p \in Slots : k \notin consumers[p]
    BY <2>4, FreshRefs, Zenon DEF FaninInv
  <2>6. Undone(cur)' = {}
    BY <1>1, <2>3, <2>5, Zenon DEF Undone
  <2>7. Cardinality({}) = 0
    BY FS_EmptySet, Zenon
  <2>8. faninReleased'[cur'] + Cardinality(Undone(cur)') <= live'
    BY SMTT(30), <1>1, <2>3, <2>5, <2>6, <2>7
  <2>9. \A c \in Slots : Undone(c)' = Undone(c)
    <3>1. \A p \in Slots : consumers[p] # {} => state'[p] = state[p]
      <4>1. \A p \in Slots : p > used => consumers[p] = {}
        BY SMTT(30) DEF BaseInv, EdgeInv, Slots, TypeOK, IndexTypes, SetTypes
      <4>2. \A p \in Slots : p # k => state'[p] = state[p]
        BY <2>1, <2>2, Zenon DEF SubmitBegin, BaseInv, TypeOK, WordTypes
      <4>3. QED
        BY <2>4, <4>1, <4>2, ZenonT(30)
    <3>2. QED
      BY <1>1, <3>1, Zenon DEF Undone
  <2>10. \A c \in Slots : c > used' => c > used
    BY <1>3, <2>2, <2>3, SMTT(30) DEF Slots
  <2>11. NoEarlyReady'
    BY <1>1, <1>6, Zenon DEF FaninInv, NoEarlyReady, Settled
  <2>12. \A c \in Slots : state'[c] = "PENDING" => faninReleased'[c] + Cardinality(Undone(c)') <= faninCount'[c]
    BY <1>1, <1>6, <2>9, Zenon DEF FaninInv
  <2>13. QED
    BY <1>1, <1>6, <2>8, <2>10, <2>11, <2>12, ZenonT(30) DEF FaninInv
<1>9. QED
  BY <1>7, <1>8, Zenon

(* Publication makes a task READY only when all the live producers have been *)
(* counted meanwhile.                                                        *)
LEMMA FaninPublish ==
    ASSUME BaseInv, DebtInv, TypeOK', FaninInv, Publish
    PROVE  FaninInv'
<1>0. PICK k \in Slots : k = cur
  BY Zenon DEF Publish, BaseInv, TypeOK, IndexTypes
<1>1. /\ opc = "wire" /\ ~poisoned /\ UNCHANGED <<faninReleased, consumers, work, used>>
      /\ faninCount' = [faninCount EXCEPT ![k] = live]
  BY <1>0, Zenon DEF Publish, schedVars
<1>2. faninCount'[k] = live /\ \A c \in Slots : c # k => faninCount'[c] = faninCount[c]
  BY <1>1, Zenon DEF BaseInv, TypeOK, CounterTypes
<1>3. CASE state[k] # "BUILDING"
  <2>1. UNCHANGED <<state, opc, cur, live>> /\ poisoned' = TRUE
    BY <1>0, <1>3, Zenon DEF Publish
  <2>2. state[k] # "PENDING"
    BY <1>0, <1>3, Zenon DEF BaseInv, SlotInv, DebtInv
  <2>3. \A c \in Slots : Undone(c)' = Undone(c)
    BY <1>1, <2>1, Zenon DEF Undone
  <2>4. QED
    BY <1>1, <1>2, <2>1, <2>2, <2>3, Zenon DEF FaninInv, NoEarlyReady
<1>4. CASE state[k] = "BUILDING"
  <2>1. opc' = "idle" /\ state'[k] = PublishedState /\ \A c \in Slots : c # k => state'[c] = state[c]
    BY <1>0, <1>4, Zenon DEF Publish, BaseInv, TypeOK, WordTypes
  <2>2. PublishedState = IF faninReleased[k] >= live THEN "READY" ELSE "PENDING"
    BY <1>0, Zenon DEF PublishedState
  <2>3. \A p \in Slots : (state'[p] \in Settled <=> state[p] \in Settled)
    BY <1>4, <2>1, <2>2, Zenon DEF Settled
  <2>4. \A c \in Slots : Undone(c)' = Undone(c)
    BY <1>1, <2>3, Zenon DEF Undone
  <2>5. faninReleased[k] + Cardinality(Undone(k)) <= live
    BY <1>0, <1>1, <1>4, Zenon DEF FaninInv
  <2>6. \A c \in Slots : state'[c] = "PENDING" => faninReleased'[c] + Cardinality(Undone(c)') <= faninCount'[c]
    BY <1>1, <1>2, <2>1, <2>4, <2>5, ZenonT(30) DEF FaninInv
  <2>7. state'[k] = "READY" => Undone(k) = {}
    <3>1. ASSUME faninReleased[k] >= live
          PROVE  Cardinality(Undone(k)) = 0
      BY <2>5, <3>1, UndoneCount, SMTT(30) DEF BaseInv, TypeOK, CounterTypes
    <3>2. QED
      BY <2>1, <2>2, <3>1, UndoneCount, ZenonT(30)
  <2>8. NoEarlyReady'
    <3>1. \A p \in Slots : state'[k] \in {"READY", "RUNNING"} /\ k \in consumers[p] => state[p] \in Settled
      BY <2>1, <2>2, <2>7, Zenon DEF Undone
    <3>2. QED
      BY <1>1, <2>1, <2>3, <3>1, Zenon DEF NoEarlyReady, FaninInv, Settled
  <2>9. QED
    BY <1>1, <2>1, <2>3, <2>6, <2>8, ZenonT(30) DEF FaninInv
<1>5. QED
  BY <1>3, <1>4, Zenon

(* The Scheduler counts a completed producer once for each consumer, and     *)
(* makes the consumer READY at the last.                                     *)
LEMMA FaninSched ==
    ASSUME BaseInv, DebtInv, TypeOK', FaninInv, Sched
    PROVE  FaninInv'
<1>0. UNCHANGED <<used, cur, live, poisoned, opc>>
  BY OthersQuiet, Zenon DEF OrchQuiet, submitVars, orchVars
<1>1. ASSUME UNCHANGED <<consumers, faninReleased, faninCount>>,
             \A s \in Slots : Advances(s) \/ (state[s] \in Finished /\ state'[s] = "CONSUMED"),
             \A s \in Slots : ~(state[s] = "PENDING" /\ state'[s] = "READY"),
             \A p \in Slots : work'[p].cons # {} /\ ~work'[p].bad =>
                              /\ state'[p] \in Settled
                              /\ (work'[p].cons \subseteq work[p].cons /\ ~work[p].bad) \/ state[p] \notin Settled
      PROVE  FaninInv'
  <2>1. used' >= used
    BY <1>0, SMTT(30) DEF BaseInv, TypeOK, IndexTypes
  <2>2. \A p \in Slots : /\ state[p] \in Settled => state'[p] \in Settled
                         /\ state'[p] = "PENDING" => state[p] = "PENDING"
                         /\ state'[p] \in {"READY", "RUNNING"} => state[p] \in {"READY", "RUNNING"}
                         /\ state'[p] = "BUILDING" => state[p] = "BUILDING"
    BY <1>1, Zenon DEF Advances, Settled, Finished, Claimable
  <2>3. opc' = "wire" /\ ~poisoned' /\ state'[cur'] = "BUILDING" =>
               opc = "wire" /\ ~poisoned /\ state[cur] = "BUILDING" /\ cur' = cur /\ live' = live
    <3>1. opc = "wire" => cur \in Slots
      BY Zenon DEF BaseInv, TypeOK, IndexTypes
    <3>2. QED
      BY SMTT(30), <1>0, <2>2, <3>1
  <2>4. QED
    BY <1>1, <2>1, <2>2, <2>3, FaninShrinks, ZenonT(30)
<1>2. ASSUME UNCHANGED <<consumers, faninReleased, faninCount, work>>,
             \A s \in Slots : Advances(s) \/ (state[s] \in Finished /\ state'[s] = "CONSUMED"),
             \A s \in Slots : ~(state[s] = "PENDING" /\ state'[s] = "READY")
      PROVE  FaninInv'
  <2>1. \A p \in Slots : work'[p].cons # {} /\ ~work'[p].bad =>
                              /\ state'[p] \in Settled
                              /\ (work'[p].cons \subseteq work[p].cons /\ ~work[p].bad) \/ state[p] \notin Settled
    BY <1>2, Zenon DEF FaninInv, Advances, Settled, Finished, Claimable
  <2>2. QED
    BY <1>1, <1>2, <2>1, Zenon
<1>3. CASE SchedRetire
  <2>1. sstep.slot \in Slots
    BY <1>3, StepSlots, Zenon DEF SchedRetire, BaseInv, StepKinds
  <2>2. \A s \in Slots : state'[s] = state[s] \/ (state[s] \in Finished /\ state'[s] = "CONSUMED")
    BY <1>3, <2>1, Zenon DEF SchedRetire, OnConsumed, BaseInv, TypeOK, WordTypes
  <2>3. QED
    BY <1>2, <1>3, <2>2, Zenon DEF SchedRetire, Advances
<1>4. ASSUME NEW s \in Slots, PopReady(s)
      PROVE  FaninInv'
  BY <1>2, <1>4, Zenon DEF PopReady, slotVars, Advances
<1>5. CASE Dispatch
  <2>1. \A u \in Slots : state'[u] = state[u] \/ (state[u] = "READY" /\ state'[u] = "RUNNING")
    BY <1>5, Zenon DEF Dispatch, ClaimForDispatch, BaseInv, TypeOK, WordTypes
  <2>2. QED
    BY <1>2, <1>5, <2>1, ZenonT(30) DEF Dispatch, Advances
<1>6. CASE SchedEnqueue
  BY <1>2, <1>6, Zenon DEF SchedEnqueue, slotVars, Advances
<1>7. ASSUME NEW k \in Slots, OnTaskComplete(k)
      PROVE  FaninInv'
  <2>1. state[k] = "RUNNING" /\ UNCHANGED <<consumers, faninReleased, faninCount>>
    BY <1>7, Zenon DEF OnTaskComplete, BaseInv, LifeInv
  <2>2. /\ \A u \in Slots : u # k => state'[u] = state[u] /\ work'[u] = work[u]
        /\ state'[k] = IF work'[k].bad THEN "FAILED" ELSE "COMPLETED"
    BY <1>7, Zenon DEF OnTaskComplete, BaseInv, TypeOK, WordTypes, WorkTypes
  <2>3. QED
    BY <1>1, <2>1, <2>2, Zenon DEF FaninInv, Advances, Settled, Finished
<1>8. ASSUME NEW s \in Slots, NEW c \in Slots, PoisonTask(s, c)
      PROVE  FaninInv'
  <2>1. UNCHANGED <<consumers, faninReleased, faninCount>> /\ \A u \in Slots : state'[u] = state[u] \/ (state[u] \in Claimable /\ state'[u] = "FAILED")
    BY <1>8, Zenon DEF PoisonTask, BaseInv, TypeOK, WordTypes
  <2>2. \A u \in Slots : work'[u].bad = work[u].bad /\ work'[u].cons \subseteq work[u].cons
    BY <1>8, SMTT(30) DEF PoisonTask, BaseInv, TypeOK, WorkTypes
  <2>3. QED
    BY <1>1, <2>1, <2>2, ZenonT(30) DEF FaninInv, Advances, Settled, Finished, Claimable
<1>9. CASE PoisonSnapshot
  <2>1. sstep.slot \in Slots /\ UNCHANGED slotVars
    BY <1>9, StepSlots, ZenonT(30) DEF PoisonSnapshot, BaseInv, StepKinds
  <2>2. \A u \in Slots : work'[u] = work[u] \/ work'[u].bad
    BY <1>9, <2>1, SMTT(30) DEF PoisonSnapshot, BaseInv, TypeOK, WorkTypes
  <2>3. QED
    BY <1>1, <2>1, <2>2, Zenon DEF FaninInv, slotVars, Advances
<1>10. ASSUME NEW s \in Slots, NEW p \in Slots, SchedReleaseSelf(s) \/ SchedReleaseRef(s, p)
      PROVE  FaninInv'
  <2>1. \A u \in Slots : work'[u].bad = work[u].bad /\ work'[u].cons = work[u].cons
    BY <1>10, SMTT(30) DEF SchedReleaseSelf, SchedReleaseRef, BaseInv, TypeOK, WorkTypes
  <2>2. UNCHANGED <<state, consumers, faninReleased, faninCount>>
    BY <1>10, Zenon DEF SchedReleaseSelf, SchedReleaseRef
  <2>3. QED
    BY <1>1, <2>1, <2>2, ZenonT(30) DEF FaninInv, Advances
<1>11. CASE TryMarkReady
  <2>1. PICK k \in Slots : sstep.slot = k
    BY <1>11, StepSlots, Zenon DEF TryMarkReady, BaseInv, StepKinds
  <2>2. UNCHANGED <<consumers, faninReleased, faninCount, work>>
    BY <1>11, Zenon DEF TryMarkReady
  <2>3. CASE ~CanMarkReady(k)
    BY <1>2, <1>11, <2>1, <2>2, <2>3, ZenonT(30) DEF TryMarkReady, Advances
  <2>4. CASE CanMarkReady(k)
    <3>1. state[k] = "PENDING" /\ state'[k] = "READY" /\ \A u \in Slots : u # k => state'[u] = state[u]
      BY <1>11, <2>1, <2>4, ZenonT(30) DEF TryMarkReady, CanMarkReady, BaseInv, TypeOK, WordTypes
    <3>2. \A c \in Slots : Undone(c)' = Undone(c)
      BY <2>2, <3>1, Zenon DEF Undone, Settled
    <3>3. Undone(k) = {}
      <4>1. Cardinality(Undone(k)) = 0
        <5>1. faninReleased[k] + Cardinality(Undone(k)) <= faninCount[k]
          BY <3>1, Zenon DEF FaninInv
        <5>2. QED
          BY <2>4, <5>1, UndoneCount, SMTT(30) DEF CanMarkReady, BaseInv, TypeOK, CounterTypes
      <4>2. QED
        BY <4>1, UndoneCount, ZenonT(30)
    <3>4. \A p \in Slots : k \in consumers[p] => state[p] \in Settled
      BY <3>3, Zenon DEF Undone
    <3>5. NoEarlyReady'
      BY <2>2, <3>1, <3>4, ZenonT(30) DEF NoEarlyReady, FaninInv, Settled
    <3>6. ASSUME opc' = "wire", ~poisoned', state'[cur'] = "BUILDING"
          PROVE  faninReleased'[cur'] + Cardinality(Undone(cur)') <= live'
      <4>1. PICK c \in Slots : c = cur
        BY <1>0, <3>6, Zenon DEF BaseInv, TypeOK, IndexTypes
      <4>2. c # k /\ state[cur] = "BUILDING"
        BY <1>0, <3>1, <3>6, <4>1, ZenonT(30)
      <4>3. Undone(cur)' = Undone(c)'
        BY <1>0, <4>1, Zenon DEF Undone
      <4>4. ~poisoned
        BY SMTT(30), <1>0, <3>6
      <4>5. faninReleased[cur] + Cardinality(Undone(cur)) <= live
        BY <1>0, <3>6, <4>2, <4>4, ZenonT(30) DEF FaninInv
      <4>6. QED
        BY <1>0, <2>2, <3>2, <4>1, <4>3, <4>5, ZenonT(30)
    <3>7. QED
      BY <1>0, <2>2, <3>1, <3>2, <3>5, <3>6, ZenonT(30) DEF FaninInv, Settled
  <2>5. QED
    BY <2>3, <2>4, Zenon
<1>12. ASSUME NEW s \in Slots, NEW k \in Slots, ReleaseConsumer(s, k)
      PROVE  FaninInv'
  <2>1. UNCHANGED <<state, consumers, faninCount>> /\ k \in work[s].cons /\ ~work[s].bad
    BY <1>12, Zenon DEF ReleaseConsumer
  <2>2. work'[s].cons = work[s].cons \ {k} /\ ~work'[s].bad /\ \A u \in Slots : u # s => work'[u] = work[u]
    BY <1>12, SMTT(30) DEF ReleaseConsumer, BaseInv, TypeOK, WorkTypes
  <2>3. faninReleased'[k] = faninReleased[k] + 1 /\ \A c \in Slots : c # k => faninReleased'[c] = faninReleased[c]
    BY <1>12, Zenon DEF ReleaseConsumer, BaseInv, TypeOK, CounterTypes
  <2>4. state[s] \in Settled /\ k \in consumers[s]
    BY <2>1, Zenon DEF FaninInv, BaseInv, EdgeInv
  <2>5. s \in Undone(k) /\ Undone(k)' = Undone(k) \ {s} /\ \A c \in Slots : c # k => Undone(c)' = Undone(c)
    BY <2>1, <2>2, <2>4, Zenon DEF Undone
  <2>6. Cardinality(Undone(k)') = Cardinality(Undone(k)) - 1 /\ Cardinality(Undone(k)) \in Nat
    BY <2>5, UndoneCount, SlotSets, ZenonT(30)
  <2>7. faninReleased'[k] + Cardinality(Undone(k)') = faninReleased[k] + Cardinality(Undone(k))
    BY <2>3, <2>6 DEF BaseInv, TypeOK, CounterTypes
  <2>8. \A c \in Slots : faninReleased'[c] + Cardinality(Undone(c)') = faninReleased[c] + Cardinality(Undone(c))
    BY <2>3, <2>5, <2>7, Zenon
  <2>9. ASSUME opc' = "wire", ~poisoned', state'[cur'] = "BUILDING"
        PROVE  faninReleased'[cur'] + Cardinality(Undone(cur)') <= live'
    <3>1. PICK c \in Slots : c = cur
      BY <1>0, <2>9, Zenon DEF BaseInv, TypeOK, IndexTypes
    <3>2. Undone(cur)' = Undone(c)'
      BY <1>0, <3>1, Zenon DEF Undone
    <3>3. ~poisoned
      BY SMTT(30), <1>0, <2>9
    <3>4. faninReleased[cur] + Cardinality(Undone(cur)) <= live
      BY <1>0, <2>1, <2>9, <3>3, ZenonT(30) DEF FaninInv
    <3>5. QED
      BY <1>0, <2>8, <3>1, <3>2, <3>4, ZenonT(30)
  <2>10. \A c \in Slots : c > used' => faninReleased'[c] = 0
    <3>1. ~(k > used)
      BY <2>4, SMTT(30) DEF BaseInv, EdgeInv, TypeOK, IndexTypes, Slots
    <3>2. QED
      BY <1>0, <2>3, <3>1, ZenonT(30) DEF FaninInv
  <2>11. QED
    BY <2>1, <2>2, <2>8, <2>9, <2>10, ZenonT(30) DEF FaninInv, NoEarlyReady
<1>13. QED
  BY <1>3, <1>4, <1>5, <1>6, <1>7, <1>8, <1>9, <1>10, <1>11, <1>12, ZenonT(30) DEF Sched

(* The orch thread's other steps count nothing.                              *)
LEMMA FaninOrch ==
    ASSUME BaseInv, DebtInv, TypeOK', FaninInv, Orch
    PROVE  FaninInv'
<1>1. ASSUME UNCHANGED <<consumers, faninReleased, faninCount, work, used>>,
             \A s \in Slots : Advances(s) \/ (state[s] \in Finished /\ state'[s] = "CONSUMED"),
             \A s \in Slots : ~(state[s] = "PENDING" /\ state'[s] = "READY"),
             opc' = "wire" => UNCHANGED <<opc, poisoned, cur, live, state>>
      PROVE  FaninInv'
  <2>1. used' >= used
    BY <1>1 DEF BaseInv, TypeOK, IndexTypes
  <2>2. \A p \in Slots : /\ state[p] \in Settled => state'[p] \in Settled
                         /\ state'[p] = "PENDING" => state[p] = "PENDING"
                         /\ state'[p] \in {"READY", "RUNNING"} => state[p] \in {"READY", "RUNNING"}
    BY <1>1, Zenon DEF Advances, Settled, Finished, Claimable
  <2>3. \A p \in Slots : work'[p].cons # {} /\ ~work'[p].bad =>
                              /\ state'[p] \in Settled
                              /\ (work'[p].cons \subseteq work[p].cons /\ ~work[p].bad) \/ state[p] \notin Settled
    BY <1>1, <2>2, Zenon DEF FaninInv
  <2>4. opc' = "wire" /\ ~poisoned' /\ state'[cur'] = "BUILDING" =>
               opc = "wire" /\ ~poisoned /\ state[cur] = "BUILDING" /\ cur' = cur /\ live' = live
    BY <1>1
  <2>5. QED
    BY <1>1, <2>1, <2>2, <2>3, <2>4, FaninShrinks, ZenonT(30)
<1>2. CASE OrchRetire
  <2>1. ostep.slot \in Slots /\ opc' = "release"
    BY <1>2, SMTT(30) DEF OrchRetire, BaseInv, OrchInv, TypeOK, ThreadTypes, Idle
  <2>2. \A s \in Slots : state'[s] = state[s] \/ (state[s] \in Finished /\ state'[s] = "CONSUMED")
    BY <1>2, <2>1, Zenon DEF OrchRetire, OnConsumed, BaseInv, TypeOK, WordTypes
  <2>3. UNCHANGED <<consumers, faninReleased, faninCount, work, used>>
    BY <1>2, Zenon DEF OrchRetire, submitVars, schedVars
  <2>4. QED
    BY <1>1, <2>1, <2>2, <2>3, ZenonT(30) DEF Advances
<1>3. CASE ~Publish /\ ~OrchRetire /\ ~SchedRetire /\ ~\E p \in Slots : Wire(p)
  <2>0. ostep.kind = "enqueue" => opc = "idle"
    BY DEF BaseInv, OrchInv, Idle
  <2>1. \A s \in Slots : Advances(s)
    BY <1>3, OtherSteps, Zenon
  <2>2. UNCHANGED <<consumers, faninReleased, faninCount, work, used>> /\ opc' # "wire"
    BY <1>3, <2>0, ZenonT(30) DEF Orch, ScopeEnd, SubmitThrow, PoisonSubmit, OrchEnqueue, OrchReleaseSelf, OrchReleaseRef, OrchReleased, CloseRunSubmission, FailRunSubmission, CancelClaim, CancelThrow, CancelCommit, slotVars, submitVars, orchVars, schedVars
  <2>3. \A s \in Slots : ~(state[s] = "PENDING" /\ state'[s] = "READY")
    BY <1>3, ZenonT(30) DEF Orch, ScopeEnd, SubmitThrow, PoisonSubmit, OrchEnqueue, OrchReleaseSelf, OrchReleaseRef, OrchReleased, CloseRunSubmission, FailRunSubmission, CancelClaim, CancelThrow, CancelCommit, BaseInv, TypeOK, WordTypes, slotVars
  <2>4. QED
    BY <1>1, <2>1, <2>2, <2>3, ZenonT(30)
<1>4. QED
  BY <1>2, <1>3, FaninWire, FaninPublish, FaninSched, ZenonT(30) DEF Sched

(* FaninInv is inductive with the invariants above.                          *)
LEMMA FaninNext == BaseInv /\ DebtInv /\ TypeOK' /\ FaninInv /\ [Next]_vars => FaninInv'
<1> SUFFICES ASSUME BaseInv, DebtInv, TypeOK', FaninInv, [Next]_vars PROVE FaninInv'
  OBVIOUS
<1>1. CASE Endpoint \/ UNCHANGED vars
  <2>1. UNCHANGED <<slotVars, used, cur, live, poisoned, opc, work>>
    BY <1>1, Zenon DEF Endpoint, Accept, WorkerDone, vars, submitVars, orchVars, schedVars
  <2>2. used' >= used /\ (~poisoned' => ~poisoned)
    BY <2>1 DEF BaseInv, TypeOK, IndexTypes
  <2>3. QED
    BY <2>1, <2>2, FaninShrinks, Zenon DEF slotVars, FaninInv
<1>2. QED
  BY <1>1, FaninCallback, FaninOrch, FaninSched, Zenon DEF Next, Terminated

(* Readiness is exact, for any task graph: a task is queued once, whichever  *)
(* of its submit and its producers' completions makes it READY, and only     *)
(* when every producer it was wired to has completed.  The argument needs    *)
(* the fence, because enqueue_ready drops what it is given for a terminal    *)
(* run.                                                                      *)
THEOREM ReadinessExact == Spec => []ReadyExact
<1>1. Init => HeadInv
  <2> SUFFICES ASSUME Init PROVE HeadInv
    OBVIOUS
  <2>1. \A s \in Slots : readyQ[s] = 0 /\ state[s] = "FREE" /\ ostep = Idle /\ sstep = Idle
    BY Zenon DEF Init
  <2>2. \A s \in Slots : Heading(s) = 0
    BY <2>1, SMTT(30) DEF Heading, Idle, Step
  <2>3. QED
    BY <2>1, <2>2, SMTT(30) DEF HeadInv, ReadyOnce
<1>2. Init => FaninInv
  <2> SUFFICES ASSUME Init PROVE FaninInv
    BY SMTT(30)
  <2>1. \A s \in Slots : state[s] = "FREE" /\ work[s].cons = {} /\ faninReleased[s] = 0
    BY DEF Init, NoWork
  <2>2. opc = "idle"
    BY Zenon DEF Init
  <2>3. QED
    BY <2>1, <2>2, Zenon DEF FaninInv, NoEarlyReady
<1>3. HeadInv /\ FaninInv => ReadyExact
  BY Zenon DEF HeadInv, FaninInv, ReadyExact
<1>4. QED
  BY <1>1, <1>2, <1>3, HeadNext, FaninNext, FenceHolds, CountsAgree, TypeCorrect, PTL DEF Spec
-----------------------------------------------------------------------------
(* A slot enters a scope when it is created and never later.                 *)
LEMMA ScopeShrinks ==
    ASSUME BaseInv, [Next]_vars, NEW p \in Slots, p <= used, InScope(p)'
    PROVE  InScope(p)
<1>0. /\ depth \in 0 .. MaxDepth /\ 1 .. depth \subseteq 1 .. MaxDepth /\ p # used + 1
      /\ frame \in [1 .. MaxDepth -> SUBSET Slots]
  <2>1. depth \in 0 .. MaxDepth /\ frame \in [1 .. MaxDepth -> SUBSET Slots] /\ used \in Nat /\ p \in Nat
    BY DEF BaseInv, TypeOK, IndexTypes, SetTypes, Slots
  <2>2. QED
    BY SMTT(30), <2>1, DepthAssumption
<1>1. PICK d \in 1 .. depth' : p \in frame'[d]
  BY Zenon DEF InScope
<1>2. CASE UNCHANGED <<depth, frame>>
  BY <1>2, Zenon DEF InScope
<1>3. CASE ScopeBegin
  <2>1. depth' = depth + 1 /\ depth + 1 \in 1 .. MaxDepth /\ frame' = [frame EXCEPT ![depth + 1] = {}]
    BY <1>0, <1>3, DepthAssumption, SMTT(30) DEF ScopeBegin, ScopeRoom
  <2>2. d # depth + 1 /\ d \in 1 .. depth
    BY SMTT(30), <1>0, <1>1, <2>1
  <2>3. QED
    BY <1>0, <1>1, <2>1, <2>2, ZenonT(30) DEF InScope
<1>4. CASE ScopeEnd
  <2>1. depth' = depth - 1 /\ depth > 0 /\ frame' = [frame EXCEPT ![depth] = {}]
    BY <1>4, Zenon DEF ScopeEnd
  <2>2. d \in 1 .. depth /\ d # depth
    BY SMTT(30), <1>0, <1>1, <2>1
  <2>3. QED
    BY <1>0, <1>1, <2>1, <2>2, Zenon DEF InScope
<1>5. ASSUME depth' = depth, frame' = [frame EXCEPT ![depth] = @ \cup {used + 1}]
      PROVE  InScope(p)
  <2>1. d \in 1 .. depth /\ d \in 1 .. MaxDepth
    BY <1>0, <1>1, <1>5, Zenon
  <2>2. p \in frame[d]
    BY <1>0, <1>1, <1>5, <2>1, ZenonT(30)
  <2>3. QED
    BY <2>1, <2>2, Zenon DEF InScope
<1>6. CASE Callback
  BY <1>2, <1>3, <1>5, <1>6, ZenonT(30) DEF Callback, Alloc, BuildThrow, SubmitBegin
<1>7. CASE Orch
  BY <1>2, <1>4, <1>7, ZenonT(30) DEF Orch, Wire, SubmitThrow, Publish, PoisonSubmit, OrchEnqueue, OrchRetire, OrchReleaseSelf, OrchReleaseRef, OrchReleased, CloseRunSubmission, FailRunSubmission, CancelClaim, CancelThrow, CancelCommit, scopeVars
<1>8. CASE Sched \/ Endpoint
  BY <1>2, <1>8, OthersQuiet, Zenon DEF OrchQuiet, scopeVars
<1>9. QED
  BY <1>2, <1>6, <1>7, <1>8, ZenonT(30) DEF Next, Terminated, vars, scopeVars

(* Releases only accumulate, and only wiring a consumer adds a reference.    *)
LEMMA CountsGrow ==
    ASSUME BaseInv, [Next]_vars, NEW p \in Slots, p <= used
    PROVE  /\ fanoutReleased'[p] >= fanoutReleased[p]
           /\ \/ Wire(p) /\ Retains(p)
              \/ fanoutTotal'[p] = fanoutTotal[p] /\ \A c \in Slots : p \in retained'[c] => p \in retained[c]
<1> DEFINE Kept == fanoutTotal'[p] = fanoutTotal[p] /\ \A c \in Slots : p \in retained'[c] => p \in retained[c]
<1>0. p # used + 1 /\ fanoutReleased[p] \in Nat
  BY SMTT(30) DEF BaseInv, TypeOK, IndexTypes, CounterTypes, Slots
<1>1. CASE fanoutReleased'[p] = fanoutReleased[p] /\ Kept
  BY SMTT(30), <1>0, <1>1
<1>2. ASSUME NEW s \in Slots, TryConsume(s), UNCHANGED <<fanoutTotal, retained>>
      PROVE  fanoutReleased'[p] >= fanoutReleased[p] /\ Kept
  <2>1. fanoutReleased'[p] >= fanoutReleased[p]
    BY <1>0, <1>2, SMTT(30) DEF TryConsume, BaseInv, TypeOK, CounterTypes
  <2>2. QED
    BY <1>2, <2>1, Zenon
<1>3. CASE Callback
  <2>1. fanoutReleased'[p] = fanoutReleased[p] /\ fanoutTotal'[p] = fanoutTotal[p] /\ UNCHANGED retained
    BY <1>0, <1>3, ZenonT(30) DEF Callback, ScopeBegin, Alloc, BuildThrow, SubmitBegin, slotVars, BaseInv, TypeOK, CounterTypes
  <2>2. QED
    BY <1>1, <2>1, Zenon
<1>4. ASSUME NEW q \in Slots, Wire(q)
      PROVE  fanoutReleased'[p] = fanoutReleased[p] /\ (Kept \/ (q = p /\ Retains(p)))
  <2>1. cur \in Slots /\ UNCHANGED fanoutReleased
    BY <1>4, Zenon DEF Wire, BaseInv, TypeOK, IndexTypes
  <2>2. CASE ~Retains(q)
    BY <1>4, <2>1, <2>2, Zenon DEF Wire
  <2>3. CASE Retains(q) /\ q # p
    <3>1. fanoutTotal' = [fanoutTotal EXCEPT ![q] = @ + 1] /\ retained' = [retained EXCEPT ![cur] = @ \cup {q}]
      BY <1>4, <2>3, Zenon DEF Wire
    <3>2. fanoutTotal'[p] = fanoutTotal[p]
      BY <2>3, <3>1, Zenon DEF BaseInv, TypeOK, CounterTypes
    <3>3. \A c \in Slots : p \in retained'[c] => p \in retained[c]
      BY <2>1, <2>3, <3>1, Zenon DEF BaseInv, TypeOK, SetTypes
    <3>4. QED
      BY <2>1, <3>2, <3>3, Zenon
  <2>4. QED
    BY <2>1, <2>2, <2>3, Zenon
<1>5. CASE UNCHANGED <<fanoutReleased, fanoutTotal, retained>>
  BY <1>1, <1>5, Zenon
<1>6. CASE Orch
  <2>1. ASSUME NEW q \in Slots, Wire(q)
        PROVE  fanoutReleased'[p] >= fanoutReleased[p] /\ (Kept \/ (Wire(p) /\ Retains(p)))
    <3>1. fanoutReleased'[p] >= fanoutReleased[p]
      BY SMTT(30), <1>0, <1>4, <2>1
    <3>2. QED
      BY <1>4, <2>1, <3>1, Zenon
  <2>2. QED
    BY <1>2, <1>5, <1>6, <2>1, ZenonT(30) DEF Orch, ScopeEnd, SubmitThrow, Publish, PoisonSubmit, OrchEnqueue, OrchRetire, OrchReleaseSelf, OrchReleaseRef, OrchReleased, CloseRunSubmission, FailRunSubmission, CancelClaim, CancelThrow, CancelCommit, slotVars
<1>7. CASE Sched
  BY <1>2, <1>5, <1>7, ZenonT(30) DEF Sched, PopReady, Dispatch, OnTaskComplete, ReleaseConsumer, TryMarkReady, SchedEnqueue, PoisonTask, PoisonSnapshot, SchedReleaseSelf, SchedReleaseRef, SchedRetire, slotVars
<1>8. QED
  BY <1>3, <1>5, <1>6, <1>7, ZenonT(30) DEF Next, Terminated, Endpoint, Accept, WorkerDone, vars, slotVars

(* A slot that is being retired, or is, has left its scope and, if tasks     *)
(* only name producers whose scope is open, has had every reference it was   *)
(* charged with released.                                                    *)
Gone(p) == Retiring(p) \/ state[p] = "CONSUMED"
PaidUp(p) == fanoutReleased[p] > fanoutTotal[p] \/ \A c \in Slots : p \notin retained[c]
KeepInv == ScopedReads /\ opc = "wire" => \A p \in keep : InScope(p)
GoneInv == \A p \in Slots : Gone(p) => ~InScope(p) /\ (ScopedReads => PaidUp(p))

(* When a slot starts to be retired, its scope has let go of it and its      *)
(* references have been released.                                            *)
LEMMA BecomesGone ==
    ASSUME BaseInv, DebtInv, RefsInv, [Next]_vars, NEW p \in Slots, ~Gone(p), Gone(p)'
    PROVE  ~InScope(p)' /\ PaidUp(p)'
<1>1. CASE Retiring(p)'
  <2>1. Next /\ Decides(p)
    BY <1>1, Zenon DEF Gone, Retiring, Decides, vars, orchVars, schedVars
  <2>2. Releases(p) /\ ThresholdMet(p) /\ state[p] \in Finished
    BY <2>1, Deciding, Zenon
  <2>3. Released(p) /\ (~InScope(p))'
    BY <2>2, ReleaseStep, ZenonT(30)
  <2>4. fanoutReleased'[p] > fanoutTotal'[p]
    BY <2>2, <2>3, SMTT(30) DEF Released, TryConsume, ThresholdMet, BaseInv, TypeOK, CounterTypes
  <2>5. QED
    BY <2>3, <2>4, Zenon DEF PaidUp
<1>2. CASE state'[p] = "CONSUMED"
  <2>0. state[p] # "CONSUMED" /\ ~Retiring(p)
    BY Zenon DEF Gone
  <2>1. CASE Callback
    <3>1. BuildThrow("unregistered") /\ p = used + 1
      BY <1>2, <2>0, <2>1, ZenonT(30) DEF Callback, ScopeBegin, Alloc, BuildThrow, SubmitBegin, slotVars, BaseInv, TypeOK, WordTypes
    <3>2. p > used
      BY <3>1, SMTT(30) DEF BaseInv, TypeOK, IndexTypes
    <3>3. ~InScope(p) /\ \A c \in Slots : p \notin retained[c]
      BY <3>2, FreshRefs, Zenon
    <3>4. UNCHANGED <<depth, frame, retained>>
      BY <3>1, Zenon DEF BuildThrow
    <3>5. QED
      BY <3>3, <3>4, ZenonT(30) DEF PaidUp, InScope
  <2>2. CASE OrchRetire \/ SchedRetire
    <3>1. OrchRetire => ostep.slot \in Slots /\ ostep = Step("retire", ostep.slot)
      BY StepSlots, Zenon DEF OrchRetire, BaseInv, StepKinds
    <3>2. SchedRetire => sstep.slot \in Slots /\ sstep = Step("retire", sstep.slot)
      BY StepSlots, Zenon DEF SchedRetire, BaseInv, StepKinds
    <3>3. QED
      BY <1>2, <2>0, <2>2, <3>1, <3>2, ZenonT(30) DEF OrchRetire, SchedRetire, OnConsumed, Retiring, BaseInv, TypeOK, WordTypes
  <2>3. CASE Publish
    <3>1. PublishedState # "CONSUMED"
      BY Zenon DEF PublishedState
    <3>2. QED
      BY <1>2, <2>0, <2>3, <3>1, ZenonT(30) DEF Publish, BaseInv, TypeOK, WordTypes
  <2>4. CASE (Orch \/ Sched \/ Endpoint \/ UNCHANGED vars) /\ ~Publish /\ ~OrchRetire /\ ~SchedRetire
    <3>1. Advances(p)
      BY <2>4, OtherSteps, Zenon
    <3>2. QED
      BY <1>2, <2>0, <3>1, Zenon DEF Advances, Finished
  <2>5. QED
    BY <2>1, <2>2, <2>3, <2>4, ZenonT(30) DEF Next, Terminated
<1>3. QED
  BY <1>1, <1>2, Zenon DEF Gone

(* It stays so: a slot whose scope is closed is not wired again under        *)
(* ScopedReads, and CountsGrow does the rest.                                *)
LEMMA GoneNext == BaseInv /\ TypeOK' /\ DebtInv /\ RefsInv /\ KeepInv /\ GoneInv /\ [Next]_vars => GoneInv'
<1> SUFFICES ASSUME BaseInv, TypeOK', DebtInv, RefsInv, KeepInv, GoneInv, [Next]_vars, NEW p \in Slots, Gone(p)'
             PROVE  ~InScope(p)' /\ (ScopedReads => PaidUp(p)')
  BY Zenon DEF GoneInv
<1>1. CASE ~Gone(p)
  BY <1>1, BecomesGone, Zenon
<1>2. CASE Gone(p)
  <2>1. p <= used
    <3>1. state[p] # "FREE"
      BY <1>2, Zenon DEF Gone, DebtInv, Over, Finished
    <3>2. QED
      BY <3>1, SMTT(30) DEF BaseInv, LifeInv, TypeOK, IndexTypes, Slots
  <2>2. ~InScope(p)'
    BY <1>2, <2>1, ScopeShrinks, Zenon DEF GoneInv
  <2>3. ASSUME ScopedReads, fanoutTotal'[p] = fanoutTotal[p], \A c \in Slots : p \in retained'[c] => p \in retained[c]
        PROVE  PaidUp(p)'
    <3>1. PaidUp(p)
      BY <1>2, <2>3, Zenon DEF GoneInv
    <3>2. fanoutReleased'[p] >= fanoutReleased[p] /\ fanoutReleased[p] \in Nat /\ fanoutTotal[p] \in Nat
      BY <2>1, CountsGrow, Zenon DEF BaseInv, TypeOK, CounterTypes
    <3>3. CASE fanoutReleased[p] > fanoutTotal[p]
      <4>1. fanoutReleased'[p] \in Nat
        BY ZenonT(30) DEF TypeOK, CounterTypes
      <4>2. fanoutReleased'[p] > fanoutTotal'[p]
        BY SMTT(30), <2>3, <3>2, <3>3, <4>1
      <4>3. QED
        BY <4>2, Zenon DEF PaidUp
    <3>4. CASE \A c \in Slots : p \notin retained[c]
      BY <2>3, <3>4, Zenon DEF PaidUp
    <3>5. QED
      BY <3>1, <3>3, <3>4, ZenonT(30) DEF PaidUp
  <2>4. ~(ScopedReads /\ Wire(p) /\ Retains(p))
    BY <1>2, Zenon DEF Wire, Retains, KeepInv, GoneInv
  <2>5. QED
    BY <2>1, <2>2, <2>3, <2>4, CountsGrow, ZenonT(30)
<1>3. QED
  BY <1>1, <1>2, Zenon

(* Under ScopedReads the producers a submit will retain stay in their scopes *)
(* while it is in flight.                                                    *)
LEMMA KeepNext == BaseInv /\ KeepInv /\ [Next]_vars => KeepInv'
<1> SUFFICES ASSUME BaseInv, KeepInv, [Next]_vars, ScopedReads, opc' = "wire", NEW p \in keep'
             PROVE  InScope(p)'
  BY Zenon DEF KeepInv
<1>1. CASE UNCHANGED <<opc, keep, depth, frame>>
  BY <1>1, Zenon DEF KeepInv, InScope
<1>2. CASE Callback
  <2>1. ~UNCHANGED opc
    BY <1>2, Zenon DEF Callback, ScopeBegin, Alloc, BuildThrow, SubmitBegin, CallbackRunning, OrchIdle
  <2>2. PICK D \in SUBSET Slots : \E R \in SUBSET D : SubmitBegin(D, R)
    BY <1>2, <2>1, Zenon DEF Callback, ScopeBegin, Alloc, BuildThrow, orchVars
  <2>3. InScope(p) /\ depth' = depth /\ frame' = [frame EXCEPT ![depth] = @ \cup {used + 1}]
    BY <2>2, Zenon DEF SubmitBegin
  <2>4. depth \in 0 .. MaxDepth /\ frame \in [1 .. MaxDepth -> SUBSET Slots] /\ 1 .. depth \subseteq 1 .. MaxDepth
    BY DepthAssumption, SMTT(30) DEF BaseInv, TypeOK, IndexTypes, SetTypes
  <2>5. \A d \in 1 .. depth : frame[d] \subseteq frame'[d]
    BY <2>3, <2>4, Zenon
  <2>6. QED
    BY <2>3, <2>5, Zenon DEF InScope
<1>3. CASE Orch
  <2>0. (ostep.kind = "enqueue" => opc = "idle") /\ (ostep.kind = "retire" => opc = "release")
    BY SMTT(30) DEF BaseInv, OrchInv, Idle
  <2>1. UNCHANGED <<opc, keep, depth, frame>>
    BY <1>3, <2>0, ZenonT(30) DEF Orch, ScopeEnd, Wire, SubmitThrow, Publish, PoisonSubmit, OrchEnqueue, OrchRetire, OrchReleaseSelf, OrchReleaseRef, OrchReleased, CloseRunSubmission, FailRunSubmission, CancelClaim, CancelThrow, CancelCommit, scopeVars, submitVars, orchVars
  <2>2. QED
    BY <1>1, <2>1, ZenonT(30)
<1>4. CASE Sched \/ Endpoint
  BY <1>1, <1>4, OthersQuiet, ZenonT(30) DEF OrchQuiet, scopeVars, submitVars, orchVars
<1>5. QED
  BY <1>1, <1>2, <1>3, <1>4, ZenonT(30) DEF Next, Terminated, vars, scopeVars, submitVars, orchVars

(* A slot whose references have all been released has no reader.             *)
LEMMA GoneUnread ==
    ASSUME ScopedReads, BaseInv, RefsInv, GoneInv
    PROVE  NoReaderOfReclaimed
<1> SUFFICES ASSUME NEW c \in Slots, NEW p \in Slots, state[p] = "CONSUMED", p \in retained[c],
                    state[c] \in {"PENDING", "READY", "RUNNING"}
             PROVE  FALSE
  BY Zenon DEF NoReaderOfReclaimed
<1>1. Refs(p) \in Nat /\ Refs(p) # 0
  <2>1. c \in Readers(p)
    BY Zenon DEF Readers, ConsumerPending, Claimable
  <2>2. QED
    BY <2>1, RefsNat, Zenon
<1>2. fanoutReleased[p] > fanoutTotal[p] /\ fanoutReleased[p] \in Nat /\ fanoutTotal[p] \in Nat
  BY Zenon DEF GoneInv, Gone, PaidUp, BaseInv, TypeOK, CounterTypes
<1>3. p <= used
  BY DEF BaseInv, LifeInv, TypeOK, IndexTypes, Slots
<1>4. fanoutReleased[p] + Refs(p) = fanoutTotal[p] + 1
  BY <1>3, Zenon DEF RefsInv, Bare
<1>5. QED
  BY SMTT(30), <1>1, <1>2, <1>4

(* A producer is not reclaimed under a consumer wired to retain it, as long  *)
(* as tasks only name producers whose scope is still open.  Without that     *)
(* condition submit_impl can wire a producer between the decision of         *)
(* try_consume and the compare-exchange of on_consumed.                      *)
THEOREM ReadersKeepProducers == Spec => [](ScopedReads => NoReaderOfReclaimed)
<1>1. Init => KeepInv /\ GoneInv
  <2> SUFFICES ASSUME Init PROVE KeepInv /\ GoneInv
    BY SMTT(30)
  <2>1. \A p \in Slots : ~Gone(p)
    BY DEF Init, Gone, Retiring, Idle, Step
  <2>2. opc # "wire"
    BY Zenon DEF Init
  <2>3. QED
    BY <2>1, <2>2, Zenon DEF KeepInv, GoneInv
<1>2. BaseInv /\ RefsInv /\ GoneInv => (ScopedReads => NoReaderOfReclaimed)
  BY GoneUnread, Zenon
<1>3. QED
  BY <1>1, <1>2, KeepNext, GoneNext, CountsAgree, TypeCorrect, PTL DEF Spec
=============================================================================
