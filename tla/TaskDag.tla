------------------------------ MODULE TaskDag ------------------------------
(***************************************************************************)
(* The task graph of one run: submission (Orchestrator), readiness,        *)
(* completion, failure propagation and reference counting (Scheduler).     *)
(*                                                                         *)
(* Two threads touch a slot.  The orch thread runs the graph callback:     *)
(* alloc, submit_*, scope_begin/scope_end, close/fail_run_submission.  The *)
(* sched thread runs on_task_complete, poison_task, try_consume and the    *)
(* dispatch claim.  One action is one critical section of fanout_mu or one *)
(* atomic read-modify-write; what lies between two of them is a thread's   *)
(* program counter (opc/ostep, work/sstep), so every interleaving the two  *)
(* threads can produce is a behaviour.  The run is the FIFO head, already  *)
(* EXECUTING; its admission is modelled in RunAdmission.                   *)
(*                                                                         *)
(* An operator Op_Word stated before Op is a variant of Op with one bug of *)
(* the kind the code guards against; nothing uses it, and the properties   *)
(* are known to fail when it takes Op's place.                             *)
(***************************************************************************)
EXTENDS Integers, FiniteSets

CONSTANTS
    N,           \* task slots the run may allocate (Ring slot ids are never reused within a run)
    MaxDepth,    \* nested scopes the callback opens (MAX_SCOPE_DEPTH in the code)
    MaxThrows,   \* allocation failures injected into submit, alloc and cancellation
    ScopedReads  \* TRUE: a task only names producers whose scope is still open

ASSUME NAssumption == N \in Nat \ {0}
ASSUME DepthAssumption == MaxDepth \in Nat \ {0}
ASSUME ThrowsAssumption == MaxThrows \in Nat
ASSUME ScopedReadsAssumption == ScopedReads \in BOOLEAN

Slots == 1 .. N
None == 0

VARIABLES
    \* TaskSlotState, one entry per slot
    state, faninCount, faninReleased, fanoutTotal, fanoutReleased,
    consumers,    \* fanout_consumers
    retained,     \* fanin_producers
    debt,         \* failure_propagation_pending
    \* queues between the threads
    readyQ,       \* how often a slot sits in its run's ready partition
    done,         \* what the endpoint reported for a RUNNING slot
    accepted,     \* the endpoint's ACCEPTED event was delivered
    \* RunState
    activeTasks, pendingAccepts, submissionClosed, submissionFailed, firstError, phase,
    \* orch thread
    depth, frame, \* Scope::stack_
    opc, ostep, threw, throws,
    used,                              \* slots handed out so far (Ring::next_task_id_)
    cur, deps, keep, live, poisoned,   \* locals of submit_impl
    oself, orefs,                      \* references the orch thread still has to release
    todo, batch,                       \* cancel_unstarted_run: slots to visit, slots it owns
    \* sched thread
    work, sstep

slotVars == <<state, faninCount, faninReleased, fanoutTotal, fanoutReleased, consumers, retained, debt>>
queueVars == <<readyQ, done, accepted>>
runVars == <<activeTasks, pendingAccepts, submissionClosed, submissionFailed, firstError, phase>>
scopeVars == <<depth, frame>>
submitVars == <<used, cur, deps, keep, live, poisoned>>
releaseVars == <<oself, orefs, todo, batch>>
orchVars == <<opc, ostep, threw, throws>>
schedVars == <<work, sstep>>
vars == <<slotVars, queueVars, runVars, scopeVars, submitVars, releaseVars, orchVars, schedVars>>

TaskStates == {"FREE", "BUILDING", "PENDING", "READY", "RUNNING", "COMPLETED", "FAILED", "CONSUMED"}
Claimable == {"BUILDING", "PENDING", "READY"}
Finished == {"COMPLETED", "FAILED"}
StepKinds == {"mark", "enqueue", "snapshot", "claim", "retire"}
Idle == [kind |-> "none", slot |-> None]
Step(k, s) == [kind |-> k, slot |-> s]

NoWork == [cons |-> {}, self |-> FALSE, prods |-> {}, bad |-> FALSE]
Busy(s) == work[s].cons # {} \/ work[s].self \/ work[s].prods # {}
(* poison_task recurses from a producer to its consumers, which have larger  *)
(* ids, so the innermost call is the largest slot with a pending frame.      *)
Innermost(s) == Busy(s) /\ \A t \in Slots : Busy(t) => t <= s
SchedIdle == sstep = Idle /\ \A s \in Slots : ~Busy(s)
OrchIdle == opc = "idle" /\ ostep = Idle

ScopeRef == IF depth > 0 THEN 1 ELSE 0
InScope(s) == \E d \in 1 .. depth : s \in frame[d]

Init ==
    /\ state = [s \in Slots |-> "FREE"]
    /\ faninCount = [s \in Slots |-> 0]
    /\ faninReleased = [s \in Slots |-> 0]
    /\ fanoutTotal = [s \in Slots |-> 0]
    /\ fanoutReleased = [s \in Slots |-> 0]
    /\ consumers = [s \in Slots |-> {}]
    /\ retained = [s \in Slots |-> {}]
    /\ debt = [s \in Slots |-> FALSE]
    /\ readyQ = [s \in Slots |-> 0]
    /\ done = [s \in Slots |-> "none"]
    /\ accepted = [s \in Slots |-> FALSE]
    /\ activeTasks = 0
    /\ pendingAccepts = 0
    /\ submissionClosed = FALSE
    /\ submissionFailed = FALSE
    /\ firstError = FALSE
    /\ phase = "EXECUTING"
    /\ depth = 1   \* worker.py opens the outer scope before it calls the graph callback
    /\ frame = [d \in 1 .. MaxDepth |-> {}]
    /\ opc = "idle"
    /\ ostep = Idle
    /\ threw = FALSE
    /\ throws = 0
    /\ used = 0
    /\ cur = None
    /\ deps = {}
    /\ keep = {}
    /\ live = 0
    /\ poisoned = FALSE
    /\ oself = {}
    /\ orefs = {}
    /\ todo = {}
    /\ batch = {}
    /\ work = [s \in Slots |-> NoWork]
    /\ sstep = Idle

-----------------------------------------------------------------------------
(* Shared steps *)

(* finish_run_if_ready, for the values the caller leaves in the run; turning *)
(* terminal also erases the run's ready partitions (retire_terminal_run).    *)
FenceReached_Open(closed, active) == active = 0 /\ phase = "EXECUTING"
FenceReached(closed, active) == closed /\ active = 0 /\ phase = "EXECUTING"

FinishRunIfReady(closed, active, failed, error) ==
    IF FenceReached(closed, active)
    THEN /\ phase' = IF failed \/ error THEN "FAILED" ELSE "COMPLETED"
         /\ readyQ' = [s \in Slots |-> 0]
    ELSE UNCHANGED <<phase, readyQ>>

(* The threshold of try_consume, evaluated with the release it just made. *)
ThresholdMet_Short(s) == fanoutReleased[s] + 1 >= fanoutTotal[s]
ThresholdMet(s) == fanoutReleased[s] + 1 >= fanoutTotal[s] + 1

(* try_consume: add the release, read fanout_total and the state; the call   *)
(* of on_consumed it decides on is a step of its own.                        *)
TryConsume(s) == fanoutReleased' = [fanoutReleased EXCEPT ![s] = @ + 1]
AfterConsume(s) == IF ThresholdMet(s) /\ state[s] \in Finished THEN Step("retire", s) ELSE Idle

(* on_consumed: the compare-exchange to CONSUMED and decrement_run_tasks. *)
OnConsumed(s) ==
    IF state[s] \in Finished
    THEN LET remaining == activeTasks - 1
             error == firstError \/ remaining < 0
         IN  /\ state' = [state EXCEPT ![s] = "CONSUMED"]
             /\ activeTasks' = IF remaining < 0 THEN 0 ELSE remaining
             /\ firstError' = error
             /\ FinishRunIfReady(submissionClosed, activeTasks', submissionFailed, error)
    ELSE UNCHANGED <<state, activeTasks, firstError, phase, readyQ>>

(* enqueue_ready: a push for a terminal run is dropped. *)
EnqueueReady(s) ==
    readyQ' = IF phase = "EXECUTING" THEN [readyQ EXCEPT ![s] = @ + 1] ELSE readyQ

-----------------------------------------------------------------------------
(* Orch thread: scopes and slot construction *)

CallbackRunning == OrchIdle /\ ~threw /\ ~submissionClosed /\ depth > 0
MayThrow == throws < MaxThrows

ScopeRoom == depth < MaxDepth

ScopeBegin ==
    /\ CallbackRunning /\ ScopeRoom
    /\ depth' = depth + 1
    /\ frame' = [frame EXCEPT ![depth + 1] = {}]
    /\ UNCHANGED <<slotVars, queueVars, runVars, submitVars, releaseVars, orchVars, schedVars>>

(* Every slot of the closed frame gets one release_ref. *)
ScopeEnd ==
    /\ OrchIdle /\ depth > 0
    /\ oself' = frame[depth]
    /\ frame' = [frame EXCEPT ![depth] = {}]
    /\ depth' = depth - 1
    /\ opc' = "release"
    /\ UNCHANGED <<slotVars, queueVars, runVars, submitVars, orefs, todo, batch, ostep, threw, throws, schedVars>>

(* alloc: a slot born COMPLETED, its self release already counted. *)
Alloc ==
    /\ CallbackRunning /\ used < N
    /\ LET s == used + 1 IN
        /\ used' = s
        /\ state' = [state EXCEPT ![s] = "COMPLETED"]
        /\ fanoutTotal' = [fanoutTotal EXCEPT ![s] = ScopeRef]
        /\ fanoutReleased' = [fanoutReleased EXCEPT ![s] = 1]
        /\ frame' = [frame EXCEPT ![depth] = @ \cup {s}]
    /\ activeTasks' = activeTasks + 1
    /\ UNCHANGED <<faninCount, faninReleased, consumers, retained, debt, queueVars, pendingAccepts,
                   submissionClosed, submissionFailed, firstError, phase, depth, cur, deps, keep, live,
                   poisoned, releaseVars, orchVars, schedVars>>

(* What an allocation failure in alloc or submit leaves behind, by how far   *)
(* it came: the slot not registered with the run (returned to the Ring at    *)
(* once), registered but not in a scope, or in a scope and not yet charged.  *)
CountsTask_Early(reached) == TRUE
CountsTask(reached) == reached # "unregistered"

BuildThrow(reached) ==
    /\ CallbackRunning /\ MayThrow /\ used < N
    /\ LET s == used + 1 IN
        /\ used' = s
        /\ state' = [state EXCEPT ![s] = IF reached = "unregistered" THEN "CONSUMED" ELSE "BUILDING"]
        /\ frame' = IF reached = "uncharged" THEN [frame EXCEPT ![depth] = @ \cup {s}] ELSE frame
    /\ activeTasks' = IF CountsTask(reached) THEN activeTasks + 1 ELSE activeTasks
    /\ threw' = TRUE
    /\ throws' = throws + 1
    /\ UNCHANGED <<faninCount, faninReleased, fanoutTotal, fanoutReleased, consumers, retained, debt, queueVars,
                   pendingAccepts, submissionClosed, submissionFailed, firstError, phase, depth, cur, deps,
                   keep, live, poisoned, releaseVars, opc, ostep, schedVars>>

(* submit_impl up to infer_deps: the slot is BUILDING, registered with the   *)
(* run and the scope, and charged.  D is the producer list infer_deps        *)
(* returns, R the producers it retains.  A run with an error refuses it.     *)
SubmitBegin(D, R) ==
    /\ CallbackRunning /\ used < N /\ ~firstError
    /\ D \subseteq 1 .. used /\ R \subseteq D
    /\ ScopedReads => \A p \in R : InScope(p)
    /\ used' = used + 1
    /\ cur' = used + 1
    /\ deps' = D
    /\ keep' = R
    /\ live' = 0
    /\ poisoned' = FALSE
    /\ state' = [state EXCEPT ![used + 1] = "BUILDING"]
    /\ fanoutTotal' = [fanoutTotal EXCEPT ![used + 1] = ScopeRef]
    /\ frame' = [frame EXCEPT ![depth] = @ \cup {used + 1}]
    /\ activeTasks' = activeTasks + 1
    /\ opc' = "wire"
    /\ UNCHANGED <<faninCount, faninReleased, fanoutReleased, consumers, retained, debt, queueVars, pendingAccepts,
                   submissionClosed, submissionFailed, firstError, phase, depth, releaseVars, ostep, threw,
                   throws, schedVars>>

-----------------------------------------------------------------------------
(* Orch thread: wiring, publication and a submit that finds itself failed *)

(* The producer's fanout list takes the edge unless it is gone, or finished  *)
(* and not retained. *)
TakesEdge(p) == state[p] # "CONSUMED" /\ (p \in keep \/ state[p] \notin Finished)
Retains(p) == p \in keep /\ TakesEdge(p)
LiveFanin(p) == state[p] \notin Finished \cup {"CONSUMED"}

(* One iteration of step 5, under the producer's fanout_mu. *)
Wire(p) ==
    /\ opc = "wire" /\ p \in deps
    /\ deps' = deps \ {p}
    /\ consumers' = IF TakesEdge(p) THEN [consumers EXCEPT ![p] = @ \cup {cur}] ELSE consumers
    /\ IF Retains(p)
       THEN /\ fanoutTotal' = [fanoutTotal EXCEPT ![p] = @ + 1]
            /\ retained' = [retained EXCEPT ![cur] = @ \cup {p}]
       ELSE UNCHANGED <<fanoutTotal, retained>>
    /\ live' = IF LiveFanin(p) THEN live + 1 ELSE live
    /\ poisoned' = (poisoned \/ state[p] = "FAILED")
    /\ UNCHANGED <<state, faninCount, faninReleased, fanoutReleased, debt, queueVars, runVars, scopeVars, used, cur,
                   keep, releaseVars, orchVars, schedVars>>

(* An exception while wiring; a half-appended edge is rolled back. *)
SubmitThrow ==
    /\ opc = "wire" /\ MayThrow
    /\ opc' = "idle"
    /\ cur' = None /\ deps' = {} /\ keep' = {} /\ live' = 0 /\ poisoned' = FALSE
    /\ threw' = TRUE
    /\ throws' = throws + 1
    /\ UNCHANGED <<slotVars, queueVars, runVars, scopeVars, used, releaseVars, ostep, schedVars>>

PublishedState_Early == IF faninReleased[cur] + 1 >= live THEN "READY" ELSE "PENDING"
PublishedState == IF faninReleased[cur] >= live THEN "READY" ELSE "PENDING"

(* Step 6, under the slot's own fanout_mu: the count and the transition out  *)
(* of BUILDING are one step; a slot a producer failed meanwhile is poisoned. *)
Publish ==
    /\ opc = "wire" /\ deps = {} /\ ~poisoned
    /\ faninCount' = [faninCount EXCEPT ![cur] = live]
    /\ IF state[cur] = "BUILDING"
       THEN /\ state' = [state EXCEPT ![cur] = PublishedState]
            /\ pendingAccepts' = pendingAccepts + 1
            /\ ostep' = IF PublishedState = "READY" THEN Step("enqueue", cur) ELSE Idle
            /\ opc' = "idle"
            /\ cur' = None /\ keep' = {} /\ live' = 0
            /\ UNCHANGED poisoned
       ELSE /\ poisoned' = TRUE
            /\ UNCHANGED <<state, pendingAccepts, ostep, opc, cur, keep, live>>
    /\ UNCHANGED <<faninReleased, fanoutTotal, fanoutReleased, consumers, retained, debt, queueVars, activeTasks,
                   submissionClosed, submissionFailed, firstError, phase, scopeVars, used, deps, releaseVars,
                   threw, throws, schedVars>>

(* The poisoned exit: claim, record the error and, if the propagation debt   *)
(* could be committed, release the slot itself and then its producers.  With *)
(* raised, an exception left the claimed slot and its debt to cancellation.  *)
PoisonSubmit(raised) ==
    /\ opc = "wire" /\ deps = {} /\ poisoned
    /\ raised => MayThrow
    /\ state' = [state EXCEPT ![cur] = IF @ = "BUILDING" THEN "FAILED" ELSE @]
    /\ firstError' = TRUE
    /\ LET owed == debt[cur] \/ state[cur] = "BUILDING" IN
        /\ debt' = [debt EXCEPT ![cur] = raised /\ owed]
        /\ oself' = IF owed /\ ~raised THEN {cur} ELSE {}
        /\ orefs' = IF owed /\ ~raised THEN {cur} \X retained[cur] ELSE {}
    /\ opc' = IF raised THEN "idle" ELSE "release"
    /\ threw' = (threw \/ raised)
    /\ throws' = IF raised THEN throws + 1 ELSE throws
    /\ cur' = None /\ keep' = {} /\ live' = 0 /\ poisoned' = FALSE
    /\ UNCHANGED <<faninCount, faninReleased, fanoutTotal, fanoutReleased, consumers, retained, queueVars, activeTasks,
                   pendingAccepts, submissionClosed, submissionFailed, phase, scopeVars, used, deps, todo, batch,
                   ostep, schedVars>>

OrchEnqueue ==
    /\ ostep.kind = "enqueue"
    /\ EnqueueReady(ostep.slot)
    /\ ostep' = Idle
    /\ UNCHANGED <<slotVars, done, accepted, runVars, scopeVars, submitVars, releaseVars, opc, threw, throws, schedVars>>

-----------------------------------------------------------------------------
(* Orch thread: releases, closing and cancelling the run *)

OrchRetire ==
    /\ ostep.kind = "retire"
    /\ OnConsumed(ostep.slot)
    /\ ostep' = Idle
    /\ UNCHANGED <<faninCount, faninReleased, fanoutTotal, fanoutReleased, consumers, retained, debt, done, accepted,
                   pendingAccepts, submissionClosed, submissionFailed, scopeVars, submitVars, releaseVars, opc,
                   threw, throws, schedVars>>

(* The scope's references, or the self releases of the slots failed here. *)
OrchReleaseSelf(s) ==
    /\ opc = "release" /\ ostep = Idle /\ s \in oself
    /\ TryConsume(s)
    /\ oself' = oself \ {s}
    /\ ostep' = AfterConsume(s)
    /\ UNCHANGED <<state, faninCount, faninReleased, fanoutTotal, consumers, retained, debt, queueVars, runVars, scopeVars,
                   submitVars, orefs, todo, batch, opc, threw, throws, schedVars>>

(* Then the references those slots held on their producers. *)
OrchReleaseRef(c, p) ==
    /\ opc = "release" /\ ostep = Idle /\ oself = {} /\ <<c, p>> \in orefs
    /\ TryConsume(p)
    /\ orefs' = orefs \ {<<c, p>>}
    /\ ostep' = AfterConsume(p)
    /\ UNCHANGED <<state, faninCount, faninReleased, fanoutTotal, consumers, retained, debt, queueVars, runVars, scopeVars,
                   submitVars, oself, todo, batch, opc, threw, throws, schedVars>>

(* Back to the callback, or the finish_run_if_ready that ends a cancellation. *)
OrchReleased ==
    /\ opc = "release" /\ ostep = Idle /\ oself = {} /\ orefs = {}
    /\ opc' = IF submissionClosed THEN "closed" ELSE "idle"
    /\ FinishRunIfReady(submissionClosed, activeTasks, submissionFailed, firstError)
    /\ UNCHANGED <<slotVars, done, accepted, activeTasks, pendingAccepts, submissionClosed, submissionFailed, firstError,
                   scopeVars, submitVars, releaseVars, ostep, threw, throws, schedVars>>

CloseRunSubmission ==
    /\ OrchIdle /\ ~threw /\ depth = 0
    /\ submissionClosed' = TRUE
    /\ opc' = "closed"
    /\ FinishRunIfReady(TRUE, activeTasks, submissionFailed, firstError)
    /\ UNCHANGED <<slotVars, done, accepted, activeTasks, pendingAccepts, submissionFailed, firstError, scopeVars,
                   submitVars, releaseVars, ostep, threw, throws, schedVars>>

(* fail_run_submission, up to the slot list cancel_unstarted_run copies. *)
FailRunSubmission ==
    /\ OrchIdle /\ depth = 0
    /\ submissionClosed' = TRUE
    /\ submissionFailed' = TRUE
    /\ firstError' = TRUE
    /\ opc' = "cancel"
    /\ todo' = 1 .. used
    /\ batch' = {}
    /\ UNCHANGED <<slotVars, queueVars, activeTasks, pendingAccepts, phase, scopeVars, submitVars, oself, orefs,
                   ostep, threw, throws, schedVars>>

(* Claim one slot, or take over the debt a throwing submit left on it. *)
CancelOwns_Claimed(s) == state[s] \in Claimable
CancelOwns(s) == state[s] \in Claimable \/ debt[s]

CancelClaim(s) ==
    /\ opc = "cancel" /\ s \in todo
    /\ LET claimed == state[s] \in Claimable IN
        /\ state' = [state EXCEPT ![s] = IF claimed THEN "FAILED" ELSE @]
        /\ debt' = [debt EXCEPT ![s] = @ \/ claimed]
        /\ batch' = IF CancelOwns(s) THEN batch \cup {s} ELSE batch
    /\ todo' = todo \ {s}
    /\ UNCHANGED <<faninCount, faninReleased, fanoutTotal, fanoutReleased, consumers, retained, queueVars, runVars,
                   scopeVars, submitVars, oself, orefs, orchVars, schedVars>>

(* An exception before the commit: worker.py calls fail_run_submission again. *)
CancelThrow ==
    /\ opc = "cancel" /\ MayThrow
    /\ throws' = throws + 1
    /\ todo' = 1 .. used
    /\ batch' = {}
    /\ UNCHANGED <<slotVars, queueVars, runVars, scopeVars, submitVars, oself, orefs, opc, ostep, threw, schedVars>>

(* commit_failure_propagation on the whole batch, then the releases. *)
CancelCommit ==
    /\ opc = "cancel" /\ todo = {}
    /\ LET owned == {s \in batch : debt[s]} IN
        /\ debt' = [s \in Slots |-> debt[s] /\ s \notin batch]
        /\ oself' = owned
        /\ orefs' = {e \in owned \X Slots : e[2] \in retained[e[1]]}
    /\ batch' = {}
    /\ opc' = "release"
    /\ UNCHANGED <<state, faninCount, faninReleased, fanoutTotal, fanoutReleased, consumers, retained, queueVars, runVars,
                   scopeVars, submitVars, todo, ostep, threw, throws, schedVars>>

-----------------------------------------------------------------------------
(* Sched thread: dispatch, completion, poisoning, releases *)

(* Between the pop and the claim the slot is still READY and cancellable. *)
PopReady(s) ==
    /\ SchedIdle /\ readyQ[s] > 0
    /\ readyQ' = [readyQ EXCEPT ![s] = @ - 1]
    /\ sstep' = Step("claim", s)
    /\ UNCHANGED <<slotVars, done, accepted, runVars, scopeVars, submitVars, releaseVars, orchVars, work>>

(* claim_for_dispatch is a compare-exchange from READY. *)
ClaimForDispatch_Store(s) == state' = [state EXCEPT ![s] = "RUNNING"]
ClaimForDispatch(s) == state' = IF state[s] = "READY" THEN [state EXCEPT ![s] = "RUNNING"] ELSE state

Dispatch ==
    /\ sstep.kind = "claim"
    /\ ClaimForDispatch(sstep.slot)
    /\ sstep' = Idle
    /\ UNCHANGED <<faninCount, faninReleased, fanoutTotal, fanoutReleased, consumers, retained, debt, queueVars, runVars,
                   scopeVars, submitVars, releaseVars, orchVars, work>>

(* mark_task_accepted, once per dispatch and before its completion. *)
MayAccept(s) == state[s] = "RUNNING" /\ ~accepted[s]

Accept(s) ==
    /\ MayAccept(s)
    /\ accepted' = [accepted EXCEPT ![s] = TRUE]
    /\ pendingAccepts' = IF pendingAccepts = 0 THEN 0 ELSE pendingAccepts - 1
    /\ firstError' = (firstError \/ pendingAccepts = 0)
    /\ UNCHANGED <<slotVars, readyQ, done, activeTasks, submissionClosed, submissionFailed, phase, scopeVars, submitVars,
                   releaseVars, orchVars, schedVars>>

(* worker_done: a failure is attached to the run before it is processed. *)
WorkerDone(s, outcome) ==
    /\ state[s] = "RUNNING" /\ accepted[s] /\ done[s] = "none"
    /\ done' = [done EXCEPT ![s] = outcome]
    /\ firstError' = (firstError \/ outcome = "bad")
    /\ UNCHANGED <<slotVars, readyQ, accepted, activeTasks, pendingAccepts, submissionClosed, submissionFailed, phase,
                   scopeVars, submitVars, releaseVars, orchVars, schedVars>>

(* on_task_complete: the transition and the snapshots under fanout_mu. *)
OnTaskComplete(s) ==
    /\ SchedIdle /\ done[s] \in {"ok", "bad"}
    /\ done' = [done EXCEPT ![s] = "drained"]
    /\ state' = [state EXCEPT ![s] = IF done[s] = "bad" THEN "FAILED" ELSE "COMPLETED"]
    /\ work' = [work EXCEPT ![s] = [cons |-> consumers[s], self |-> TRUE, prods |-> retained[s],
                                    bad |-> done[s] = "bad"]]
    /\ UNCHANGED <<faninCount, faninReleased, fanoutTotal, fanoutReleased, consumers, retained, debt, readyQ, accepted,
                   runVars, scopeVars, submitVars, releaseVars, orchVars, sstep>>

(* A completed producer releases one fanin; readiness is decided next. *)
ReleaseConsumer(s, c) ==
    /\ sstep = Idle /\ Innermost(s) /\ ~work[s].bad /\ c \in work[s].cons
    /\ faninReleased' = [faninReleased EXCEPT ![c] = @ + 1]
    /\ work' = [work EXCEPT ![s].cons = @ \ {c}]
    /\ sstep' = Step("mark", c)
    /\ UNCHANGED <<state, faninCount, fanoutTotal, fanoutReleased, consumers, retained, debt, queueVars, runVars,
                   scopeVars, submitVars, releaseVars, orchVars>>

(* try_mark_ready, under the consumer's fanout_mu. *)
CanMarkReady(c) == state[c] = "PENDING" /\ faninReleased[c] >= faninCount[c]

TryMarkReady ==
    /\ sstep.kind = "mark"
    /\ IF CanMarkReady(sstep.slot)
       THEN /\ state' = [state EXCEPT ![sstep.slot] = "READY"]
            /\ sstep' = Step("enqueue", sstep.slot)
       ELSE /\ sstep' = Idle
            /\ UNCHANGED state
    /\ UNCHANGED <<faninCount, faninReleased, fanoutTotal, fanoutReleased, consumers, retained, debt, queueVars, runVars,
                   scopeVars, submitVars, releaseVars, orchVars, work>>

SchedEnqueue ==
    /\ sstep.kind = "enqueue"
    /\ EnqueueReady(sstep.slot)
    /\ sstep' = Idle
    /\ UNCHANGED <<slotVars, done, accepted, runVars, scopeVars, submitVars, releaseVars, orchVars, work>>

(* poison_task: claim the consumer.  A BUILDING one is left to its submit,   *)
(* which finds the debt; any other claim is propagated by this thread.       *)
OwesPropagation_All(c) == state[c] \in Claimable
OwesPropagation(c) == state[c] = "BUILDING"

PoisonTask(s, c) ==
    /\ sstep = Idle /\ Innermost(s) /\ work[s].bad /\ c \in work[s].cons
    /\ work' = [work EXCEPT ![s].cons = @ \ {c}]
    /\ state' = [state EXCEPT ![c] = IF @ \in Claimable THEN "FAILED" ELSE @]
    /\ debt' = [debt EXCEPT ![c] = @ \/ OwesPropagation(c)]
    /\ sstep' = IF state[c] \in {"PENDING", "READY"} THEN Step("snapshot", c) ELSE Idle
    /\ UNCHANGED <<faninCount, faninReleased, fanoutTotal, fanoutReleased, consumers, retained, queueVars, runVars,
                   scopeVars, submitVars, releaseVars, orchVars>>

PoisonSnapshot ==
    /\ sstep.kind = "snapshot"
    /\ work' = [work EXCEPT ![sstep.slot] = [cons |-> consumers[sstep.slot], self |-> TRUE,
                                             prods |-> retained[sstep.slot], bad |-> TRUE]]
    /\ sstep' = Idle
    /\ UNCHANGED <<slotVars, queueVars, runVars, scopeVars, submitVars, releaseVars, orchVars>>

(* The self release comes after every consumer was released or poisoned. *)
SchedReleaseSelf(s) ==
    /\ sstep = Idle /\ Innermost(s) /\ work[s].cons = {} /\ work[s].self
    /\ TryConsume(s)
    /\ work' = [work EXCEPT ![s].self = FALSE]
    /\ sstep' = AfterConsume(s)
    /\ UNCHANGED <<state, faninCount, faninReleased, fanoutTotal, consumers, retained, debt, queueVars, runVars, scopeVars,
                   submitVars, releaseVars, orchVars>>

SchedReleaseRef(s, p) ==
    /\ sstep = Idle /\ Innermost(s) /\ work[s].cons = {} /\ ~work[s].self /\ p \in work[s].prods
    /\ TryConsume(p)
    /\ work' = [work EXCEPT ![s].prods = @ \ {p}]
    /\ sstep' = AfterConsume(p)
    /\ UNCHANGED <<state, faninCount, faninReleased, fanoutTotal, consumers, retained, debt, queueVars, runVars, scopeVars,
                   submitVars, releaseVars, orchVars>>

SchedRetire ==
    /\ sstep.kind = "retire"
    /\ OnConsumed(sstep.slot)
    /\ sstep' = Idle
    /\ UNCHANGED <<faninCount, faninReleased, fanoutTotal, fanoutReleased, consumers, retained, debt, done, accepted,
                   pendingAccepts, submissionClosed, submissionFailed, scopeVars, submitVars, releaseVars, orchVars,
                   work>>

-----------------------------------------------------------------------------
Callback ==
    \/ ScopeBegin
    \/ Alloc
    \/ \E reached \in {"unregistered", "unscoped", "uncharged"} : BuildThrow(reached)
    \/ \E D \in SUBSET Slots : \E R \in SUBSET D : SubmitBegin(D, R)

Orch ==
    \/ ScopeEnd
    \/ \E p \in Slots : Wire(p)
    \/ SubmitThrow
    \/ Publish
    \/ \E raised \in BOOLEAN : PoisonSubmit(raised)
    \/ OrchEnqueue
    \/ OrchRetire
    \/ \E s \in Slots : OrchReleaseSelf(s)
    \/ \E c, p \in Slots : OrchReleaseRef(c, p)
    \/ OrchReleased
    \/ CloseRunSubmission
    \/ FailRunSubmission
    \/ \E s \in Slots : CancelClaim(s)
    \/ CancelThrow
    \/ CancelCommit

Sched ==
    \/ \E s \in Slots : PopReady(s)
    \/ Dispatch
    \/ \E s \in Slots : OnTaskComplete(s)
    \/ \E s, c \in Slots : ReleaseConsumer(s, c)
    \/ TryMarkReady
    \/ SchedEnqueue
    \/ \E s, c \in Slots : PoisonTask(s, c)
    \/ PoisonSnapshot
    \/ \E s \in Slots : SchedReleaseSelf(s)
    \/ \E s, p \in Slots : SchedReleaseRef(s, p)
    \/ SchedRetire

Endpoint ==
    \/ \E s \in Slots : Accept(s)
    \/ \E s \in Slots, outcome \in {"ok", "bad"} : WorkerDone(s, outcome)

(* The run is over and both threads are done with it; anything else that     *)
(* cannot move is a deadlock.                                                *)
Terminated == phase # "EXECUTING" /\ opc = "closed" /\ SchedIdle /\ UNCHANGED vars

Next == Callback \/ Orch \/ Sched \/ Endpoint \/ Terminated

Spec == Init /\ [][Next]_vars
FairSpec == Spec /\ WF_vars(Orch) /\ WF_vars(Sched) /\ WF_vars(Endpoint)
-----------------------------------------------------------------------------
(* Properties *)

FlagTypes ==
    /\ submissionClosed \in BOOLEAN
    /\ submissionFailed \in BOOLEAN
    /\ firstError \in BOOLEAN
    /\ threw \in BOOLEAN
    /\ poisoned \in BOOLEAN
    /\ debt \in [Slots -> BOOLEAN]
    /\ accepted \in [Slots -> BOOLEAN]
WordTypes ==
    /\ state \in [Slots -> TaskStates]
    /\ done \in [Slots -> {"none", "ok", "bad", "drained"}]
    /\ phase \in {"EXECUTING", "COMPLETED", "FAILED"}
    /\ opc \in {"idle", "wire", "release", "cancel", "closed"}
CounterTypes ==
    /\ faninCount \in [Slots -> Nat]
    /\ faninReleased \in [Slots -> Nat]
    /\ fanoutTotal \in [Slots -> Nat]
    /\ fanoutReleased \in [Slots -> Nat]
    /\ readyQ \in [Slots -> Nat]
    /\ activeTasks \in Nat
    /\ pendingAccepts \in Nat
    /\ live \in Nat
IndexTypes ==
    /\ depth \in 0 .. MaxDepth
    /\ throws \in 0 .. MaxThrows
    /\ used \in 0 .. N
    /\ cur \in 0 .. N
    /\ opc = "wire" => cur \in Slots
SetTypes ==
    /\ consumers \in [Slots -> SUBSET Slots]
    /\ retained \in [Slots -> SUBSET Slots]
    /\ frame \in [1 .. MaxDepth -> SUBSET Slots]
    /\ deps \in SUBSET Slots
    /\ keep \in SUBSET Slots
    /\ oself \in SUBSET Slots
    /\ orefs \in SUBSET (Slots \X Slots)
    /\ todo \in SUBSET Slots
    /\ batch \in SUBSET Slots
ThreadTypes ==
    /\ ostep \in {Idle} \cup [kind : StepKinds, slot : Slots]
    /\ sstep \in {Idle} \cup [kind : StepKinds, slot : Slots]
WorkTypes == work \in [Slots -> [cons : SUBSET Slots, self : BOOLEAN, prods : SUBSET Slots, bad : BOOLEAN]]

(* Every variable keeps its type. *)
TypeOK == FlagTypes /\ WordTypes /\ CounterTypes /\ IndexTypes /\ SetTypes /\ ThreadTypes /\ WorkTypes

(* A task is READY or RUNNING only when every producer it was wired to has   *)
(* completed: no interleaving of wiring, publication and completion releases *)
(* it one producer early, and no failed producer's consumer is dispatched.   *)
NoEarlyReady ==
    \A c, p \in Slots :
        state[c] \in {"READY", "RUNNING"} /\ c \in consumers[p] => state[p] \in {"COMPLETED", "CONSUMED"}

(* A READY task is on its way to dispatch exactly once: queued, about to be  *)
(* pushed by the thread that made it ready, or popped and about to be        *)
(* claimed.  Losing it hangs the run, doubling it dispatches it twice.       *)
Heading(s) ==
    readyQ[s] + (IF ostep = Step("enqueue", s) THEN 1 ELSE 0) + (IF sstep = Step("enqueue", s) THEN 1 ELSE 0)
              + (IF sstep = Step("claim", s) THEN 1 ELSE 0)
ReadyOnce == \A s \in Slots : Heading(s) <= 1 /\ (state[s] = "READY" => Heading(s) = 1)

(* Readiness is exact: a task is queued once, and only when every producer   *)
(* it was wired to has completed (NoEarlyReady, ReadyOnce).                  *)
ReadyExact == NoEarlyReady /\ ReadyOnce

(* A slot takes only the transitions of the task state machine: in           *)
(* particular a claim, completion or consume never overwrites a state        *)
(* another thread has moved on.                                              *)
Transitions ==
    {<<"FREE", "BUILDING">>, <<"FREE", "COMPLETED">>, <<"FREE", "CONSUMED">>, <<"BUILDING", "PENDING">>,
     <<"BUILDING", "READY">>, <<"PENDING", "READY">>, <<"READY", "RUNNING">>, <<"RUNNING", "COMPLETED">>,
     <<"RUNNING", "FAILED">>, <<"BUILDING", "FAILED">>, <<"PENDING", "FAILED">>, <<"READY", "FAILED">>,
     <<"COMPLETED", "CONSUMED">>, <<"FAILED", "CONSUMED">>}
LegalTransitions ==
    [][\A s \in Slots : state'[s] # state[s] => <<state[s], state'[s]>> \in Transitions]_vars

(* References still to be released on p: by its scope, by a retaining        *)
(* consumer, and by itself.                                                  *)
ConsumerPending(c, p) ==
    /\ p \in retained[c]
    /\ \/ state[c] \in Claimable \cup {"RUNNING"}
       \/ debt[c]
       \/ sstep = Step("snapshot", c)
       \/ p \in work[c].prods
       \/ <<c, p>> \in orefs
(* try_consume decides to reclaim a slot only when no retaining consumer can *)
(* still read it and its scope has released it: the counters agree with the  *)
(* references they stand for, whichever thread released them in what order.  *)
Decides(p) == (sstep' = Step("retire", p) /\ sstep # sstep') \/ (ostep' = Step("retire", p) /\ ostep # ostep')
ReclaimOnlyUnreferenced ==
    [][\A p \in Slots : Decides(p) => ~InScope(p) /\ \A c \in Slots : ~ConsumerPending(c, p)']_vars

(* A producer waits for every consumer wired to retain it before it is       *)
(* reclaimed: no published, unfinished task retains a CONSUMED producer.     *)
NoReaderOfReclaimed ==
    \A c, p \in Slots :
        state[p] = "CONSUMED" /\ p \in retained[c] => state[c] \notin {"PENDING", "READY", "RUNNING"}

(* The run's task count is the number of its slots not yet reclaimed: no     *)
(* release is missed or made twice on any failure path.                      *)
ActiveTasksExact == activeTasks = Cardinality({s \in Slots : state[s] \notin {"FREE", "CONSUMED"}})

(* When the fence opens nothing of the run is left: every slot is reclaimed, *)
(* nothing is queued and no debt is owed.                                    *)
FenceFinal ==
    phase # "EXECUTING" =>
        /\ submissionClosed
        /\ \A s \in Slots : state[s] \in {"FREE", "CONSUMED"} /\ readyQ[s] = 0 /\ ~debt[s]

(* A propagation debt always has an owner that will settle it: the submit in *)
(* flight, the cancellation in progress, or the cancellation a throwing      *)
(* submit makes certain.                                                     *)
DebtOwned == \A s \in Slots : debt[s] => state[s] = "FAILED" /\ (s = cur \/ threw \/ opc = "cancel")

(* The acceptance fence never opens early: while a published task has yet to *)
(* be accepted by its endpoint, pending_accepts accounts for it.             *)
Unaccepted == {s \in Slots : state[s] \in {"PENDING", "READY"} \/ (state[s] = "RUNNING" /\ ~accepted[s])}
AcceptanceNotEarly == pendingAccepts >= Cardinality(Unaccepted)

(* Both counters of the run can be trusted by those who wait for them.       *)
RunCountersExact == ActiveTasksExact /\ AcceptanceNotEarly

(* Once submission is closed the run reaches its terminal fence, whatever    *)
(* tasks failed, were poisoned, cancelled or threw while being built.        *)
ClosedRunFinishes == submissionClosed ~> phase # "EXECUTING"
=============================================================================
