---------------------------- MODULE RunAdmission ----------------------------
(***************************************************************************)
(* Whole-run admission: the run FIFO of the Orchestrator, activation,      *)
(* early launch, the terminal fence and the physical retirement that       *)
(* precedes it.  The pipeline-set leases are in RunArena.                  *)
(*                                                                         *)
(* User threads begin, build, close or fail, and release runs; the sched   *)
(* thread runs the Scheduler loop and the endpoint callbacks.  One action  *)
(* is one critical section of runs_mu_ or of a run's completion_mu, or one *)
(* atomic operation.  todo[t] holds the sections thread t still has to run *)
(* before its current call returns, innermost first; a section may push    *)
(* further ones, as close_run_submission reaches activate_fifo_head, which *)
(* reaches retire_terminal_run, which reaches activate_fifo_head again.    *)
(* mu is the owner of runs_mu_ when it is held across two actions.         *)
(*                                                                         *)
(* Run ids grow and enter the FIFO at its back, so the FIFO is a set read  *)
(* in id order.  Task k of a run is a single submitted to worker k; how it *)
(* becomes ready and is referenced is modelled in TaskDag.                 *)
(*                                                                         *)
(* An operator Op_Word stated before Op is Op with one bug of the kind the *)
(* code guards against; nothing uses it.                                   *)
(***************************************************************************)
EXTENDS RunArena, Sequences

CONSTANTS
    Users,         \* threads calling the Orchestrator
    InitialDepth,  \* initial_admission_depth
    PendingLimit,  \* pending_depth; 0: the FIFO bound follows admission_depth_
    LaunchDepth,   \* launch_depth
    Capacities,    \* admissible_run_resource_sets an endpoint may report
    Events,        \* of "fail" (a callback throws), "await" (it does direct control), "error" (a task
                   \* fails), "end" (an endpoint reports the physical end apart from the result),
                   \* "depend" (a task depends on the one before it)
    MaxSubmits     \* tasks of the runs not yet released, together

ASSUME UsersAssumption == "sched" \notin Users
ASSUME DepthAssumption == InitialDepth \in 1 .. Grant
ASSUME PendingAssumption == PendingLimit \in Nat
ASSUME LaunchAssumption == LaunchDepth \in 1 .. Grant
ASSUME CapacitiesAssumption == Capacities \subseteq Nat \ {0}
ASSUME EventsAssumption == Events \subseteq {"fail", "await", "error", "end", "depend"}
ASSUME SubmitsAssumption == MaxSubmits \in Nat

Sched == "sched"
Threads == Users \cup {Sched}
NoRun == 0

VARIABLES
    fifo, building, active, known, nextRun,   \* Orchestrator, under runs_mu_
    depth, limit, capacity, authorized,       \* admission_depth_, pending_run_limit_, endpoint_capacity_, early_launch_authorized_
    phase, closed, failed, error, live, accepts, returned,  \* RunState
    owner, observed,                          \* the user of a run, and that its wait_run returned
    ended, accepted,                          \* per task: ended_members, accept reported
    todo, asleep, mu,                         \* threads: pending sections, waiting on runs_cv_, owner of runs_mu_
    woken, spc, snap, scan, prep              \* the Scheduler loop: wake pending, phase of a pass and its snapshots

orchVars == <<fifo, building, active, known, nextRun>>
depthVars == <<depth, limit, capacity>>
runVars == <<phase, closed, failed, error, live, accepts, returned>>
userVars == <<owner, observed>>
taskVars == <<task, ended, accepted>>
passVars == <<spc, snap, scan, prep>>
vars == <<orchVars, depthVars, authorized, arenaVars, runVars, userVars, taskVars,
          todo, asleep, mu, woken, passVars>>

Init ==
    /\ fifo = {} /\ building = NoRun /\ active = NoRun /\ known = {} /\ nextRun = 1
    /\ depth = InitialDepth
    /\ limit = IF PendingLimit = 0 THEN InitialDepth ELSE PendingLimit
    /\ capacity = [k \in Tasks |-> 0]
    /\ authorized = {}
    /\ gen = [s \in Sets |-> 0] /\ inUse = [s \in Sets |-> FALSE]
    /\ phase = [r \in Runs |-> "RESERVED"]
    /\ closed = [r \in Runs |-> FALSE] /\ failed = [r \in Runs |-> FALSE]
    /\ error = [r \in Runs |-> FALSE]
    /\ live = [r \in Runs |-> 0] /\ accepts = [r \in Runs |-> 0]
    /\ lease = [r \in Runs |-> NoLease] /\ returned = [r \in Runs |-> FALSE]
    /\ owner = [r \in Runs |-> Sched] /\ observed = {}
    /\ task = [r \in Runs |-> [k \in Tasks |-> "none"]]
    /\ stamp = [r \in Runs |-> [k \in Tasks |-> NoLease]]
    /\ ended = [r \in Runs |-> {}] /\ accepted = [r \in Runs |-> {}]
    /\ todo = [t \in Threads |-> <<>>] /\ asleep = {} /\ mu = {}
    /\ woken = FALSE /\ spc = "poll" /\ snap = NoRun /\ scan = FALSE /\ prep = {}

-----------------------------------------------------------------------------
Undispatched == {"pending", "ready"}
InFlight == {"staged", "native", "running"}

(* dispatchable_locked, preparable_run_ids, can_stage_run_on_worker *)
Dispatchable(r) == r # NoRun /\ active = r /\ r \in known /\ phase[r] = "EXECUTING" /\ Owns(r)
HeadDispatchable == Dispatchable(active) /\ active \in fifo /\ active = FirstRun(fifo)
Prepared(r) == phase[r] = "PREPARED" /\ Owns(r)
Preparable ==
    IF HeadDispatchable
    THEN {r \in fifo \ {active} : \A s \in fifo : s <= r /\ s # active => Prepared(s)}
    ELSE {}
CanStage_Ready(r, k) ==
    /\ Prepared(r) /\ r \in fifo
    /\ \A p \in fifo : p < r => closed[p] /\ task[p][k] # "ready"
CanStage(r, k) ==
    /\ Prepared(r) /\ r \in fifo
    /\ \A p \in fifo : p < r => closed[p] /\ task[p][k] \notin Undispatched

(* all_dispatches_accepted and early_launch_prefix_locked *)
AllAccepted_Closed(r) == ~Terminal(phase[r]) /\ ~error[r] /\ closed[r]
AllAccepted(r) == ~Terminal(phase[r]) /\ ~error[r] /\ closed[r] /\ accepts[r] = 0
EarlyRuns ==
    IF LaunchDepth < 2 \/ ~HeadDispatchable THEN {}
    ELSE {r \in fifo \ {active} :
            /\ Rank(fifo, r) < LaunchDepth
            /\ \A p \in fifo : p < r => AllAccepted(p)
            /\ \A s \in fifo : s <= r /\ s # active => Prepared(s)}

(* apply_admissible_depth_locked on the fold of the endpoints' reports. *)
Reported == {capacity[k] : k \in Tasks} \ {0}
Tightest == CHOOSE c \in Reported : \A e \in Reported : c <= e
Folded == IF Reported = {} THEN depth ELSE IF Tightest > Grant THEN Grant ELSE Tightest
FoldedLimit == IF PendingLimit # 0 THEN limit ELSE Folded

-----------------------------------------------------------------------------
(* Threads *)

Frame(op, r) == <<op, r, 0>>
Free(t) == todo[t] = <<>> /\ t \notin asleep
At(t, frame) == t \notin asleep /\ todo[t] # <<>> /\ Head(todo[t]) = frame
Call(t, frames) == todo' = [todo EXCEPT ![t] = frames]
Then(t, frames) == todo' = [todo EXCEPT ![t] = frames \o Tail(@)]
MuFree == mu = {}

-----------------------------------------------------------------------------
(* begin_run *)

Admits == Cardinality(fifo) < limit

Publish(t) ==
    /\ nextRun' = nextRun + 1
    /\ known' = known \cup {nextRun}
    /\ fifo' = fifo \cup {nextRun}
    /\ building' = nextRun
    /\ phase' = [phase EXCEPT ![nextRun] = "BUILDING"]
    /\ owner' = [owner EXCEPT ![nextRun] = t]
    /\ Call(t, <<Frame("activate", NoRun)>>)
    /\ UNCHANGED asleep

BeginRun(t) ==
    /\ Free(t) /\ MuFree /\ building = NoRun /\ nextRun <= MaxRuns
    /\ \/ Admits /\ Publish(t)
       \/ /\ ~Admits
          /\ Call(t, <<Frame("begin", NoRun)>>) /\ asleep' = asleep \cup {t}
          /\ UNCHANGED <<orchVars, phase, owner>>
    /\ UNCHANGED <<active, depthVars, authorized, arenaVars, closed, failed, error, live, accepts, returned,
                   observed, taskVars, mu, woken, passVars>>

(* The wait in begin_run was notified: it waits again, throws because some   *)
(* other caller published a builder meanwhile, or publishes its run.         *)
BeginWoken(t) ==
    /\ At(t, Frame("begin", NoRun)) /\ MuFree
    /\ \/ Admits /\ building = NoRun /\ nextRun <= MaxRuns /\ Publish(t)
       \/ /\ Admits /\ (building # NoRun \/ nextRun > MaxRuns)
          /\ Call(t, <<>>)
          /\ UNCHANGED <<orchVars, phase, owner, asleep>>
       \/ /\ ~Admits
          /\ asleep' = asleep \cup {t}
          /\ UNCHANGED <<orchVars, phase, owner, todo>>
    /\ UNCHANGED <<active, depthVars, authorized, arenaVars, closed, failed, error, live, accepts, returned,
                   observed, taskVars, mu, woken, passVars>>

-----------------------------------------------------------------------------
(* Building a run *)

(* register_run_slot and the acceptance count of one submit, and its         *)
(* enqueue_ready unless it waits for the task before it.                     *)
Unfinished == {"pending", "ready", "staged", "native", "running"}
Submit(t, k, depends) ==
    LET r == building
    IN  /\ Free(t) /\ r # NoRun /\ owner[r] = t /\ task[r][k] = "none"
        /\ Cardinality({x \in Runs \X Tasks : task[x[1]][x[2]] # "none"}) < MaxSubmits
        /\ depends => "depend" \in Events /\ k > 1 /\ task[r][k - 1] \in Unfinished
        /\ task' = [task EXCEPT ![r][k] = IF depends THEN "pending" ELSE "ready"]
        /\ stamp' = [stamp EXCEPT ![r][k] = lease[r]]
        /\ live' = [live EXCEPT ![r] = @ + 1]
        /\ accepts' = [accepts EXCEPT ![r] = @ + 1]
        /\ woken' = (woken \/ ~depends)
        /\ UNCHANGED <<orchVars, depthVars, authorized, gen, inUse, lease, phase, closed, failed, error, returned,
                       userVars, ended, accepted, todo, asleep, mu, passVars>>

(* await_run_admission, before direct device control of the building run. *)
AwaitCall(t) ==
    /\ "await" \in Events /\ Free(t) /\ building # NoRun /\ owner[building] = t
    /\ Call(t, <<Frame("await", building)>>)
    /\ UNCHANGED <<orchVars, depthVars, authorized, arenaVars, runVars, userVars, taskVars, asleep, mu, woken, passVars>>

Await(t, r) ==
    /\ At(t, Frame("await", r)) /\ MuFree
    /\ IF active = r \/ r \notin known \/ Terminal(phase[r])
       THEN Then(t, <<>>) /\ UNCHANGED asleep
       ELSE asleep' = asleep \cup {t} /\ UNCHANGED todo
    /\ UNCHANGED <<orchVars, depthVars, authorized, arenaVars, runVars, userVars, taskVars, mu, woken, passVars>>

CloseRun(t) ==
    LET r == building
    IN  /\ Free(t) /\ MuFree /\ r # NoRun /\ owner[r] = t
        /\ building' = NoRun
        /\ Call(t, <<Frame("close", r)>>)
        /\ UNCHANGED <<fifo, active, known, nextRun, depthVars, authorized, arenaVars, runVars, userVars, taskVars,
                       asleep, mu, woken, passVars>>

Close(t, r) ==
    /\ At(t, Frame("close", r))
    /\ closed' = [closed EXCEPT ![r] = TRUE]
    /\ phase' = [phase EXCEPT ![r] = IF @ = "BUILDING" THEN "PREPARED" ELSE @]
    /\ Then(t, <<Frame("refresh", r), Frame("activate", NoRun), Frame("retireExec", r), Frame("finish", r)>>)
    /\ UNCHANGED <<orchVars, depthVars, authorized, arenaVars, failed, error, live, accepts, returned, userVars,
                   taskVars, asleep, mu, woken, passVars>>

(* The sections of close_run_submission that lease and authorize, and the    *)
(* wake that follows them.                                                   *)
Refresh(t, r) ==
    /\ At(t, Frame("refresh", r)) /\ MuFree
    /\ Lend(Given(fifo, phase, depth, inUse), inUse)
    /\ woken' = TRUE
    /\ Then(t, <<>>)
    /\ UNCHANGED <<orchVars, depthVars, runVars, userVars, taskVars, asleep, mu, passVars>>
    /\ authorized' = EarlyRuns'

(* fail_run_submission of a graph callback that threw. *)
FailRun(t) ==
    LET r == building
    IN  /\ "fail" \in Events /\ Free(t) /\ MuFree /\ r # NoRun /\ owner[r] = t
        /\ error' = [error EXCEPT ![r] = TRUE]
        /\ building' = NoRun
        /\ Call(t, <<Frame("fail", r), Frame("cancel", r), Frame("finish", r)>>)
        /\ UNCHANGED <<fifo, active, known, nextRun, depthVars, authorized, arenaVars, phase, closed, failed, live,
                       accepts, returned, userVars, taskVars, asleep, mu, woken, passVars>>

Fail(t, r) ==
    /\ At(t, Frame("fail", r))
    /\ failed' = [failed EXCEPT ![r] = TRUE]
    /\ closed' = [closed EXCEPT ![r] = TRUE]
    /\ Then(t, <<>>)
    /\ UNCHANGED <<orchVars, depthVars, authorized, arenaVars, phase, error, live, accepts, returned, userVars,
                   taskVars, asleep, mu, woken, passVars>>

(* cancel_unstarted_run claims every slot not yet dispatched, then consumes  *)
(* the claimed ones.                                                         *)
ConsumeFrames(r, K) == [i \in 1 .. Cardinality(K) |-> <<"consume", r, CHOOSE k \in K : Rank(K, k) = i - 1>>]
Cancel(t, r) ==
    LET K == {k \in Tasks : task[r][k] \in Undispatched}
    IN  /\ At(t, Frame("cancel", r))
        /\ task' = [task EXCEPT ![r] = [k \in Tasks |-> IF k \in K THEN "cancelled" ELSE @[k]]]
        /\ Then(t, ConsumeFrames(r, K))
        /\ UNCHANGED <<orchVars, depthVars, authorized, arenaVars, runVars, userVars, ended, accepted, asleep, mu,
                       woken, passVars>>

-----------------------------------------------------------------------------
(* The fences: consumption of a slot, physical retirement, the terminal one *)

(* on_consumed: the CAS to CONSUMED and mark_task_ended of the whole slot.   *)
Consume(t, r, k) ==
    /\ At(t, <<"consume", r, k>>)
    /\ task' = [task EXCEPT ![r][k] = "gone"]
    /\ ended' = [ended EXCEPT ![r] = @ \cup {k}]
    /\ Then(t, <<Frame("retireExec", r), Frame("drop", r)>>)
    /\ UNCHANGED <<orchVars, depthVars, authorized, arenaVars, runVars, userVars, accepted, asleep, mu, woken, passVars>>

(* decrement_run_tasks *)
Drop(t, r) ==
    /\ At(t, Frame("drop", r))
    /\ live' = [live EXCEPT ![r] = @ - 1]
    /\ Then(t, IF live[r] = 1 THEN <<Frame("finish", r)>> ELSE <<>>)
    /\ UNCHANGED <<orchVars, depthVars, authorized, arenaVars, phase, closed, failed, error, accepts, returned,
                   userVars, taskVars, asleep, mu, woken, passVars>>

(* execution_ended_locked and retire_execution_if_ready *)
ExecutionEnded(r) == closed[r] /\ \A k \in Tasks : task[r][k] # "none" => k \in ended[r]
RetireExec(t, r) ==
    /\ At(t, Frame("retireExec", r))
    /\ Then(t, IF ExecutionEnded(r) /\ (phase[r] = "EXECUTING" \/ failed[r])
               THEN <<Frame("retire", r)>> ELSE <<>>)
    /\ UNCHANGED <<orchVars, depthVars, authorized, arenaVars, runVars, userVars, taskVars, asleep, mu, woken, passVars>>

(* finish_run_if_ready *)
Fenced(r) == closed[r] /\ live[r] = 0 /\ ~Terminal(phase[r]) /\ (phase[r] = "EXECUTING" \/ failed[r])
Finish(t, r) ==
    /\ At(t, Frame("finish", r))
    /\ \/ /\ Fenced(r)
          /\ phase' = [phase EXCEPT ![r] = IF failed[r] \/ error[r] THEN "FAILED" ELSE "COMPLETED"]
          /\ Then(t, <<Frame("retire", r)>>)
       \/ ~Fenced(r) /\ Then(t, <<>>) /\ UNCHANGED phase
    /\ UNCHANGED <<orchVars, depthVars, authorized, arenaVars, closed, failed, error, live, accepts, returned,
                   userVars, taskVars, asleep, mu, woken, passVars>>

(* retire_terminal_run: leave the FIFO, return the lease once, apply the     *)
(* reported capacity, lend the freed set on.                                 *)
Returns_Always(r) == lease[r].gen # 0
Returns(r) == ~returned[r] /\ lease[r].gen # 0 /\ gen[lease[r].set] = lease[r].gen
Deactivated(r) == IF active = r THEN NoRun ELSE active
Retire(t, r) ==
    LET used == [s \in Sets |-> inUse[s] /\ ~(Returns(r) /\ s = lease[r].set)]
        rest == fifo \ {r}
    IN  /\ At(t, Frame("retire", r)) /\ MuFree
        /\ active' = Deactivated(r)
        /\ fifo' = rest
        /\ returned' = [returned EXCEPT ![r] = TRUE]
        /\ depth' = Folded /\ limit' = FoldedLimit
        /\ Lend(Given(rest, phase, Folded, used), used)
        /\ UNCHANGED <<building, known, nextRun, capacity, phase, closed, failed, error, live, accepts, userVars,
                       taskVars, asleep, mu, woken, passVars>>
        /\ authorized' = EarlyRuns'
        /\ Then(t, <<Frame(IF lease' # lease \/ EarlyRuns' \ authorized # {} THEN "announce" ELSE "notify", NoRun),
                     Frame("activate", NoRun)>>)

(* runs_cv_.notify_all(), with ready_notify_cb_ or without. *)
StillAsleep_Lazy(op) == IF op = "announce" THEN {} ELSE asleep
StillAsleep(op) == {}
Announce(t, op) ==
    /\ At(t, Frame(op, NoRun)) /\ op \in {"announce", "notify"}
    /\ asleep' = StillAsleep(op)
    /\ woken' = (woken \/ op = "announce")
    /\ Then(t, <<>>)
    /\ UNCHANGED <<orchVars, depthVars, authorized, arenaVars, runVars, userVars, taskVars, mu, passVars>>

(* activate_fifo_head reads the head's phase, leases it, and then publishes  *)
(* EXECUTING; runs_mu_ is held throughout, completion_mu is not.             *)
Promotable ==
    /\ active = NoRun /\ fifo # {} /\ FirstRun(fifo) \in known
    /\ phase[FirstRun(fifo)] \in {"BUILDING", "PREPARED"}
    /\ Owns(FirstRun(fifo)) \/ FreeSets(depth, inUse) # {}
Holding_Nobody(t) == {}
Holding(t) == {t}
Activate(t) ==
    /\ At(t, Frame("activate", NoRun)) /\ MuFree
    /\ \/ LET r == FirstRun(fifo)
          IN  /\ Promotable
              /\ Lend(Given({r}, phase, depth, inUse), inUse)
              /\ mu' = Holding(t)
              /\ Then(t, <<Frame("publish", r)>>)
       \/ ~Promotable /\ Then(t, <<>>) /\ UNCHANGED <<arenaVars, mu>>
    /\ UNCHANGED <<orchVars, depthVars, authorized, runVars, userVars, taskVars, asleep, woken, passVars>>

Promoted_NoFinish(r) == <<Frame("announce", NoRun), Frame("retireExec", r)>>
Promoted(r) == <<Frame("announce", NoRun), Frame("retireExec", r), Frame("finish", r)>>
PublishExecuting(t, r) ==
    /\ At(t, Frame("publish", r))
    /\ active' = r
    /\ phase' = [phase EXCEPT ![r] = "EXECUTING"]
    /\ Lend(Given(fifo, phase', depth, inUse), inUse)
    /\ mu' = {}
    /\ Then(t, Promoted(r))
    /\ UNCHANGED <<fifo, building, known, nextRun, depthVars, closed, failed, error, live, accepts, returned, userVars,
                   taskVars, asleep, woken, passVars>>
    /\ authorized' = EarlyRuns'

(* refresh_early_launch_locked on its own, and the wake a new run owes. *)
Early(t) ==
    /\ At(t, Frame("early", NoRun)) /\ MuFree
    /\ authorized' = EarlyRuns
    /\ woken' = (woken \/ EarlyRuns \ authorized # {})
    /\ Then(t, <<>>)
    /\ UNCHANGED <<orchVars, depthVars, arenaVars, runVars, userVars, taskVars, asleep, mu, passVars>>

(* wait_run by the run's user; release_run, which throws on a run that is    *)
(* not terminal.  The RunState goes with the last call that holds it.        *)
WaitRun(t, r) ==
    /\ Free(t) /\ owner[r] = t /\ r \in known /\ building # r /\ Terminal(phase[r]) /\ r \notin observed
    /\ observed' = observed \cup {r}
    /\ UNCHANGED <<orchVars, depthVars, authorized, arenaVars, runVars, owner, taskVars, todo, asleep, mu, woken, passVars>>

Held(r) == \E t \in Threads : \E i \in 1 .. Len(todo[t]) : todo[t][i][2] = r
Forget(r) ==
    /\ phase' = [phase EXCEPT ![r] = "RESERVED"]
    /\ closed' = [closed EXCEPT ![r] = FALSE] /\ failed' = [failed EXCEPT ![r] = FALSE]
    /\ error' = [error EXCEPT ![r] = FALSE] /\ returned' = [returned EXCEPT ![r] = FALSE]
    /\ lease' = [lease EXCEPT ![r] = NoLease] /\ accepts' = [accepts EXCEPT ![r] = 0]
    /\ task' = [task EXCEPT ![r] = [k \in Tasks |-> "none"]]
    /\ stamp' = [stamp EXCEPT ![r] = [k \in Tasks |-> NoLease]]
    /\ ended' = [ended EXCEPT ![r] = {}] /\ accepted' = [accepted EXCEPT ![r] = {}]
    /\ UNCHANGED <<gen, inUse, live>>

ReleaseRun(t, r) ==
    /\ Free(t) /\ MuFree /\ r \in observed /\ owner[r] = t /\ r \in known /\ Terminal(phase[r])
    /\ known' = known \ {r}
    /\ observed' = observed \ {r}
    /\ IF Held(r) THEN UNCHANGED <<arenaVars, runVars, taskVars>> ELSE Forget(r)
    /\ UNCHANGED <<fifo, building, active, nextRun, depthVars, authorized, owner, todo, asleep, mu, woken, passVars>>

-----------------------------------------------------------------------------
(* Endpoint progress, reported on the sched thread between two passes *)

Polling == Free(Sched) /\ spc = "poll"
AcceptFrames(r) == IF accepts[r] <= 1 THEN <<Frame("early", NoRun)>> ELSE <<>>

(* ACCEPTED of a launched task: mark_task_accepted. *)
TaskAccepted(r, k) ==
    /\ Polling /\ task[r][k] = "running" /\ k \notin accepted[r]
    /\ accepted' = [accepted EXCEPT ![r] = @ \cup {k}]
    /\ accepts' = [accepts EXCEPT ![r] = @ - 1]
    /\ Call(Sched, AcceptFrames(r))
    /\ UNCHANGED <<orchVars, depthVars, authorized, arenaVars, phase, closed, failed, error, live, returned, userVars,
                   task, ended, asleep, mu, woken, passVars>>

(* FRAME_STAGED of a natively prepared frame: notify_run_staged. *)
FrameStaged(r, k) ==
    /\ Polling /\ task[r][k] = "staged"
    /\ task' = [task EXCEPT ![r][k] = "native"]
    /\ Call(Sched, <<Frame("early", NoRun)>>)
    /\ UNCHANGED <<orchVars, depthVars, authorized, arenaVars, runVars, userVars, ended, accepted, asleep, mu, woken,
                   passVars>>

(* TASK_ENDED: note_endpoint_capacity and mark_task_ended of the member. *)
TaskEnded(r, k, sets) ==
    /\ "end" \in Events /\ Polling /\ MuFree /\ task[r][k] = "running" /\ k \notin ended[r]
    /\ capacity' = [capacity EXCEPT ![k] = sets]
    /\ ended' = [ended EXCEPT ![r] = @ \cup {k}]
    /\ Call(Sched, <<Frame("retireExec", r)>>)
    /\ UNCHANGED <<orchVars, depth, limit, authorized, arenaVars, runVars, userVars, task, accepted, asleep, mu, woken,
                   passVars>>

(* TASK_DONE or TASK_FAILED: the accept still owed; then the capacity and    *)
(* the end of the member; then worker_done, which records a failure, and     *)
(* on_task_complete, which readies the task that depends on it or        *)
(* poisons all that do.                                                      *)
TaskCompleted(r, k) ==
    /\ Polling /\ task[r][k] = "running"
    /\ accepted' = [accepted EXCEPT ![r] = @ \cup {k}]
    /\ accepts' = [accepts EXCEPT ![r] = IF k \in accepted[r] THEN @ ELSE @ - 1]
    /\ Call(Sched, (IF k \in accepted[r] THEN <<>> ELSE AcceptFrames(r)) \o <<<<"over", r, k>>, <<"outcome", r, k>>>>)
    /\ UNCHANGED <<orchVars, depthVars, authorized, arenaVars, phase, closed, failed, error, live, returned, userVars,
                   task, ended, asleep, mu, woken, passVars>>

Over(r, k) ==
    /\ At(Sched, <<"over", r, k>>) /\ MuFree
    /\ \E sets \in Capacities : capacity' = [capacity EXCEPT ![k] = sets]
    /\ ended' = [ended EXCEPT ![r] = @ \cup {k}]
    /\ Then(Sched, <<Frame("retireExec", r)>>)
    /\ UNCHANGED <<orchVars, depth, limit, authorized, arenaVars, runVars, userVars, task, accepted, asleep, mu, woken,
                   passVars>>

Outcome(r, k) ==
    /\ At(Sched, <<"outcome", r, k>>)
    /\ \E ok \in IF "error" \in Events THEN BOOLEAN ELSE {TRUE} :
        LET chain == {j \in Tasks : j > k /\ \A i \in k + 1 .. j : task[r][i] = "pending"}
        IN  /\ error' = [error EXCEPT ![r] = @ \/ ~ok]
            /\ task' = [task EXCEPT ![r] = [j \in Tasks |->
                    IF j = k \/ (j \in chain /\ ~ok) THEN "done"
                    ELSE IF j \in chain /\ j = k + 1 THEN "ready" ELSE @[j]]]
    /\ woken' = TRUE
    /\ Then(Sched, <<>>)
    /\ UNCHANGED <<orchVars, depthVars, authorized, arenaVars, phase, closed, failed, live, accepts, returned, userVars,
                   ended, accepted, asleep, mu, passVars>>

(* The last reference of a completed task is released, by the sched thread   *)
(* or by the builder's scope_end.                                            *)
LastRelease(t, r, k) ==
    /\ task[r][k] = "done" /\ \A u \in Threads : \A i \in 1 .. Len(todo[u]) : todo[u][i] # <<"consume", r, k>>
    /\ IF t = Sched THEN Polling ELSE Free(t) /\ building = r /\ owner[r] = t
    /\ Call(t, <<<<"consume", r, k>>>>)
    /\ UNCHANGED <<orchVars, depthVars, authorized, arenaVars, runVars, userVars, taskVars, asleep, mu, woken, passVars>>

-----------------------------------------------------------------------------
(* Scheduler::run and dispatch_ready *)

Launch(r, k) == IF task[r][k] \in {"staged", "native"} THEN "running" ELSE task[r][k]
Busy == \E r \in Runs, k \in Tasks : task[r][k] \in InFlight

(* The loop runs while a wake is pending or an endpoint is busy.  It reads   *)
(* the dispatchable run once, and hands over that run's staged frames.       *)
PassStart(scanning) ==
    /\ Polling /\ MuFree /\ (woken \/ Busy)
    /\ woken' = FALSE
    /\ IF Dispatchable(active)
       THEN /\ spc' = "claim" /\ snap' = active /\ scan' = scanning
            /\ task' = [task EXCEPT ![active] = [k \in Tasks |-> Launch(active, k)]]
       ELSE UNCHANGED <<spc, snap, scan, task>>
    /\ UNCHANGED <<orchVars, depthVars, authorized, arenaVars, runVars, userVars, ended, accepted, todo, asleep, mu, prep>>

(* claim_for_dispatch of the snapshot's ready singles. *)
Claim(k) ==
    /\ Free(Sched) /\ spc = "claim" /\ task[snap][k] = "ready"
    /\ task' = [task EXCEPT ![snap][k] = "running"]
    /\ UNCHANGED <<orchVars, depthVars, authorized, arenaVars, runVars, userVars, ended, accepted, todo, asleep, mu,
                   woken, passVars>>

ClaimsDone ==
    /\ Free(Sched) /\ MuFree /\ spc = "claim" /\ \A k \in Tasks : task[snap][k] # "ready"
    /\ spc' = "stage" /\ snap' = NoRun
    /\ prep' = IF scan THEN Preparable ELSE {}
    /\ UNCHANGED <<orchVars, depthVars, authorized, arenaVars, runVars, userVars, taskVars, todo, asleep, mu, woken, scan>>

(* stage_preparable_run *)
Stageable(r, k) == r \in prep /\ task[r][k] = "ready" /\ CanStage(r, k)
Stage(r, k) ==
    /\ Free(Sched) /\ MuFree /\ spc = "stage" /\ Stageable(r, k)
    /\ task' = [task EXCEPT ![r][k] = "staged"]
    /\ UNCHANGED <<orchVars, depthVars, authorized, arenaVars, runVars, userVars, ended, accepted, todo, asleep, mu,
                   woken, passVars>>

(* The loop reads the wake generation before the work it announces: a wake    *)
(* that arrives during the pass is still pending after it.                   *)
WakeLeft_Consumed == FALSE
WakeLeft == woken

(* authorize_staged_launch of every early-launch run ends the pass. *)
PassEnd ==
    /\ Free(Sched) /\ MuFree /\ spc = "stage" /\ \A r \in Runs, k \in Tasks : ~Stageable(r, k)
    /\ task' = [r \in Runs |-> [k \in Tasks |->
            IF r \in EarlyRuns /\ task[r][k] = "native" THEN "running" ELSE task[r][k]]]
    /\ woken' = WakeLeft
    /\ spc' = "poll" /\ scan' = FALSE /\ prep' = {}
    /\ UNCHANGED <<orchVars, depthVars, authorized, arenaVars, runVars, userVars, ended, accepted, todo, asleep, mu, snap>>

-----------------------------------------------------------------------------
Sections(t) ==
    \/ BeginWoken(t)
    \/ Activate(t)
    \/ Early(t)
    \/ \E op \in {"announce", "notify"} : Announce(t, op)
    \/ \E r \in Runs :
        \/ Await(t, r) \/ Close(t, r) \/ Refresh(t, r) \/ Fail(t, r) \/ Cancel(t, r)
        \/ Drop(t, r) \/ RetireExec(t, r) \/ Finish(t, r) \/ Retire(t, r) \/ PublishExecuting(t, r)
        \/ \E k \in Tasks : Consume(t, r, k)

Report(r, k) == Over(r, k) \/ Outcome(r, k)

Loop == PassStart(woken) \/ ClaimsDone \/ PassEnd \/ \E k \in Tasks : Claim(k) \/ \E r \in Runs : Stage(r, k)

Endpoint(r, k) ==
    \/ TaskAccepted(r, k)
    \/ FrameStaged(r, k)
    \/ \E sets \in Capacities : TaskEnded(r, k, sets)
    \/ TaskCompleted(r, k)

User(t) ==
    \/ BeginRun(t) \/ AwaitCall(t) \/ CloseRun(t) \/ FailRun(t)
    \/ \E k \in Tasks, depends \in BOOLEAN : Submit(t, k, depends)
    \/ \E r \in Runs : WaitRun(t, r) \/ ReleaseRun(t, r)

Next ==
    \/ \E t \in Threads : Sections(t)
    \/ \E t \in Users : User(t)
    \/ Loop
    \/ \E r \in Runs, k \in Tasks : Endpoint(r, k) \/ Report(r, k) \/ \E t \in Threads : LastRelease(t, r, k)

Spec == Init /\ [][Next]_vars

(* Threads keep running the calls they are in, the loop polls every busy     *)
(* endpoint on each iteration, children finish the work they launched,       *)
(* references are released, and a callback that is building returns.         *)
FairSpec ==
    /\ Spec
    /\ \A t \in Threads : WF_vars(Sections(t))
    /\ WF_vars(Loop)
    /\ SF_vars(\E r \in Runs, k \in Tasks : TaskCompleted(r, k))
    /\ WF_vars(\E r \in Runs, k \in Tasks : Report(r, k))
    /\ SF_vars(\E r \in Runs, k \in Tasks : LastRelease(Sched, r, k))
    /\ \A t \in Users : WF_vars(CloseRun(t))

-----------------------------------------------------------------------------
(* Properties *)

Frames ==
    {"begin", "await", "close", "refresh", "fail", "cancel", "consume", "drop", "retireExec", "finish", "retire",
     "announce", "notify", "activate", "publish", "early", "over", "outcome"} \X (0 .. MaxRuns) \X (0 .. MaxTasks)

(* Every variable keeps its type; in particular no counter goes negative. *)
TypeOK ==
    /\ fifo \subseteq Runs /\ known \subseteq Runs /\ observed \subseteq Runs /\ authorized \subseteq Runs
    /\ prep \subseteq Runs /\ asleep \subseteq Users /\ mu \subseteq Threads
    /\ building \in 0 .. MaxRuns /\ active \in 0 .. MaxRuns /\ snap \in 0 .. MaxRuns /\ nextRun \in 1 .. MaxRuns + 1
    /\ depth \in 1 .. Grant /\ limit \in Nat /\ capacity \in [Tasks -> Capacities \cup {0}]
    /\ gen \in [Sets -> Nat] /\ inUse \in [Sets -> BOOLEAN]
    /\ phase \in [Runs -> {"RESERVED", "BUILDING", "PREPARED", "EXECUTING", "COMPLETED", "FAILED"}]
    /\ closed \in [Runs -> BOOLEAN] /\ failed \in [Runs -> BOOLEAN] /\ error \in [Runs -> BOOLEAN]
    /\ live \in [Runs -> Nat] /\ accepts \in [Runs -> Nat]
    /\ lease \in [Runs -> Lease] /\ returned \in [Runs -> BOOLEAN] /\ owner \in [Runs -> Threads]
    /\ task \in [Runs -> [Tasks -> {"none", "pending", "ready", "staged", "native", "running", "done", "cancelled", "gone"}]]
    /\ stamp \in [Runs -> [Tasks -> Lease]]
    /\ ended \in [Runs -> SUBSET Tasks] /\ accepted \in [Runs -> SUBSET Tasks]
    /\ todo \in [Threads -> Seq(Frames)]
    /\ woken \in BOOLEAN /\ spc \in {"poll", "claim", "stage"} /\ scan \in BOOLEAN

(* A set in use is leased to exactly one run, which is still in the FIFO,    *)
(* and a run keeps its lease while it is there: a lease is neither shared,   *)
(* nor lost, nor taken back by the second retirement of an earlier holder.   *)
LeaseExclusive ==
    /\ \A r \in fifo : lease[r] # NoLease => Owns(r)
    /\ \A s \in Sets : inUse[s] <=> \E r \in fifo : {q \in Runs : Owns(q) /\ lease[q].set = s} = {r}

(* A task that an endpoint holds and has not ended carries the lease of its  *)
(* run, and the run still owns it: a set never changes hands under work the  *)
(* device may be running, whatever order slots and leases came in.           *)
InFlightOwnsLease ==
    \A r \in Runs, k \in Tasks :
        task[r][k] \in InFlight /\ k \notin ended[r] => Owns(r) /\ stamp[r][k] = lease[r]

(* Leases are handed out along the FIFO, never past a run that has none, so  *)
(* a lease-less head can always be given one.                                *)
LeasesArePrefix == \A p, r \in fifo : p < r /\ Owns(r) => Owns(p)

(* Work of a run reaches the device before its predecessors have retired     *)
(* only when nothing of theirs is left to dispatch or to launch.             *)
EarlyBehindWhole ==
    \A p, r \in fifo, k \in Tasks : p < r /\ task[r][k] = "running" =>
        closed[p] /\ \A j \in Tasks : task[p][j] \notin Undispatched \cup {"staged", "native"}

(* A worker receives the tasks of the runs in FIFO order: when a task is     *)
(* dispatched or staged, no later run has one on the same worker.            *)
WorkerFifo ==
    [][\A r \in Runs, k \in Tasks :
        task[r][k] = "ready" /\ task'[r][k] \in InFlight =>
            \A q \in fifo : q > r => task[q][k] \notin InFlight \cup {"done"}]_vars

(* The Scheduler never sleeps over work: with no wake pending, no endpoint   *)
(* busy and every call returned, the dispatchable run has no ready task.     *)
Quiet == MuFree /\ \A t \in Threads : todo[t] = <<>> \/ t \in asleep
WakeNotLost ==
    Quiet /\ spc = "poll" /\ ~woken /\ ~Busy /\ Dispatchable(active) => \A k \in Tasks : task[active][k] # "ready"

(* A begin_run or await_run_admission waiter whose condition holds has a     *)
(* notification on its way.                                                  *)
NotifyPending == \E t \in Threads : \E i \in 1 .. Len(todo[t]) : todo[t][i][1] \in {"announce", "notify", "publish"}
Satisfied(t) ==
    \/ Head(todo[t]) = Frame("begin", NoRun) /\ Admits
    \/ \E r \in Runs : Head(todo[t]) = Frame("await", r) /\ (active = r \/ Terminal(phase[r]))
NoStrandedWaiter == \A t \in asleep : Satisfied(t) => NotifyPending \/ \E u \in Threads, r \in Runs : At(u, Frame("retire", r))

(* Once the run's user has seen it terminal, release_run cannot find it in   *)
(* another phase, although activation stores EXECUTING without the run's     *)
(* mutex and may overwrite a FAILED.                                         *)
StaysTerminal == \A r \in observed \cap known : Terminal(phase[r])

(* A run is terminal only when its submission is closed and none of its      *)
(* slots is live, whichever of the four callers of finish_run_if_ready got   *)
(* there first.                                                              *)
TerminalIsFenced == \A r \in Runs : Terminal(phase[r]) => closed[r] /\ live[r] = 0

(* Terminal is final: reached only behind the fence, and once the run's user *)
(* has seen it, never left.                                                  *)
TerminalIsFinal == TerminalIsFenced /\ StaysTerminal

(* Closing or failing a run makes it terminal: some later event always       *)
(* finishes it.                                                              *)
RunsFinish == \A r \in Runs : closed[r] ~> Terminal(phase[r])

(* A caller waiting in begin_run or await_run_admission returns. *)
WaitersReturn == \A t \in Users : t \in asleep ~> todo[t] = <<>>

(* Closed runs finish and callers waiting for admission return.              *)
AdmissionProgress == RunsFinish /\ WaitersReturn

(* "it cannot execute until every prior run is terminal"                     *)
PriorTerminal == active # NoRun => \A q \in known : q < active => Terminal(phase[q])
=============================================================================
