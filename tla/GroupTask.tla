----------------------------- MODULE GroupTask -----------------------------
(***************************************************************************)
(* The scheduler's side of a group task: one slot dispatched to several    *)
(* workers, whose completions are aggregated into one.  A SUB group is     *)
(* dispatched member by member and stops at the first failure; the members *)
(* of a NEXT_LEVEL group are all running from the claim on.  Worker i of a *)
(* task is its group member i.                                             *)
(*                                                                         *)
(* The scheduler thread claims, dispatches, polls and drains; cancellation *)
(* runs on another thread and competes for READY slots only.               *)
(***************************************************************************)
EXTENDS Naturals, Sequences, FiniteSets, FiniteSetsExt

CONSTANT Scenarios   \* tasks (kind, slot, members), world, events: see MpiGroup

VARIABLES
    task,       \* TaskSlotState: state, group vectors, count, first failure
    queue,      \* completion_queue_
    loop,       \* the dispatch loop's slot and the members still to do
    sub,        \* members at local SUB workers
    runFailed,  \* on_task_failed_cb was called: the run cancels what has not started
    sc

NoMember == 99
NoLoop == [t |-> 0, todo |-> {}]
Tasks == DOMAIN sc.tasks
Members(t) == sc.tasks[t].members
IsSub(t) == sc.tasks[t].kind = "sub"
IsGroup(t) == sc.tasks[t].kind # "single"

IsTerminal(m) == m \in {"SUCCESS", "FAILED", "SKIPPED"}
IsFailure(o) == o \in {"TASK_FAILURE", "ENDPOINT_FAILURE"}
InScheduler == loop = NoLoop

GroupInit ==
    /\ sc \in Scenarios
    /\ task = [t \in Tasks |->
                 [state |-> "READY", terminal |-> 0, failed |-> FALSE, first |-> NoMember,
                  member |-> [i \in Members(t) |-> "NOT_DISPATCHED"],
                  outcome |-> [i \in Members(t) |-> "SKIPPED"]]]
    /\ queue = <<>> /\ loop = NoLoop /\ runFailed = FALSE /\ sub = {}

(* claim_for_dispatch and reset_group_state_locked, in one hold of group_mu. *)
Claim(t) ==
    /\ InScheduler /\ task[t].state = "READY"
    /\ task' = [task EXCEPT ![t] =
                  [state |-> "RUNNING", terminal |-> 0, failed |-> FALSE, first |-> NoMember,
                   member |-> [i \in Members(t) |->
                                 IF IsSub(t) THEN "NOT_DISPATCHED" ELSE "RUNNING"],
                   outcome |-> [i \in Members(t) |-> "SKIPPED"]]]
    /\ loop' = [t |-> t, todo |-> Members(t)]
    /\ UNCHANGED <<queue, runFailed, sub, sc>>

-----------------------------------------------------------------------------
(* worker_done.  s is the slot, i the member that ended with o.  A failed    *)
(* group skips the members it has not dispatched.                            *)
MemberEnded(s, i, o) ==
    [s EXCEPT !.member[i] = IF o = "SUCCESS" THEN "SUCCESS" ELSE "FAILED",
              !.outcome[i] = o,
              !.terminal = @ + 1,
              !.failed = @ \/ o # "SUCCESS",
              !.first = IF o # "SUCCESS" /\ ~s.failed THEN i ELSE @]
Undispatched(s) == {j \in DOMAIN s.member : s.member[j] = "NOT_DISPATCHED"}
UnspentMembersSkipped_All(s) ==
    LET unspent == {j \in DOMAIN s.member : ~IsTerminal(s.member[j])}
    IN  IF ~s.failed THEN s
        ELSE [s EXCEPT !.member = [j \in DOMAIN @ |-> IF j \in unspent THEN "SKIPPED" ELSE @[j]],
                       !.terminal = @ + Cardinality(unspent)]
UnspentMembersSkipped(s) ==
    IF ~s.failed THEN s
    ELSE [s EXCEPT !.member = [j \in DOMAIN @ |-> IF j \in Undispatched(s) THEN "SKIPPED" ELSE @[j]],
                   !.terminal = @ + Cardinality(Undispatched(s))]
Aggregated(s, i, o) == IF IsTerminal(s.member[i]) THEN s ELSE UnspentMembersSkipped(MemberEnded(s, i, o))
(* first is the member whose failure was the first to arrive.                *)
GroupOutcome(s, o) ==
    IF ~s.failed THEN "SUCCESS"
    ELSE IF s.first \in DOMAIN s.outcome THEN s.outcome[s.first] ELSE "TASK_FAILURE"

WorkerDone(t, i, o) ==
    LET s == Aggregated(task[t], i, o)
        ignored == IsGroup(t) /\ IsTerminal(task[t].member[i])
        last == ~IsGroup(t) \/ (~ignored /\ s.terminal >= Cardinality(Members(t)))
        final == IF IsGroup(t) THEN GroupOutcome(s, o) ELSE o
    IN  /\ task' = IF IsGroup(t) THEN [task EXCEPT ![t] = s] ELSE task
        /\ queue' = IF last THEN Append(queue, [t |-> t, outcome |-> final, first |-> s.first]) ELSE queue
        /\ runFailed' = (runFailed \/ IsFailure(o) \/ (last /\ IsFailure(final)))

NextMember ==
    loop' = IF loop.todo = {Min(loop.todo)} THEN NoLoop ELSE [loop EXCEPT !.todo = @ \ {Min(@)}]

(* dispatch_sub_ready: a member is handed to a local worker unless the group *)
(* has failed meanwhile; the worker takes it, or refuses it on the spot.     *)
StillWanted(t, i) == task[t].member[i] = "NOT_DISPATCHED" /\ ~task[t].failed
DispatchSub ==
    LET t == loop.t  i == Min(loop.todo)
    IN  /\ ~InScheduler /\ IsSub(t) /\ NextMember
        /\ IF StillWanted(t, i)
           THEN task' = [task EXCEPT ![t].member[i] = "RUNNING"] /\ sub' = sub \cup {<<t, i>>}
           ELSE UNCHANGED <<task, sub>>
        /\ UNCHANGED <<queue, runFailed, sc>>
SubRejected ==
    LET t == loop.t  i == Min(loop.todo)
    IN  /\ ~InScheduler /\ IsSub(t) /\ NextMember /\ StillWanted(t, i)
        /\ WorkerDone(t, i, "ENDPOINT_FAILURE")
        /\ UNCHANGED <<sub, sc>>
(* A local worker's completion.                                              *)
Outcomes == {"SUCCESS", "TASK_FAILURE", "ENDPOINT_FAILURE"}
SubEnds(m, o) ==
    /\ InScheduler /\ sub' = sub \ {m}
    /\ WorkerDone(m[1], m[2], o)
    /\ UNCHANGED <<loop, sc>>

(* on_task_complete: the slot's state follows its completion. *)
Drain ==
    /\ InScheduler /\ queue # <<>>
    /\ task' = [task EXCEPT ![Head(queue).t].state =
                  IF IsFailure(Head(queue).outcome) THEN "FAILED" ELSE "COMPLETED"]
    /\ queue' = Tail(queue)
    /\ UNCHANGED <<loop, runFailed, sub, sc>>

(* Cancellation of what has not started: claim_task_failure, then            *)
(* mark_group_members_skipped under its own lock.                            *)
CancelClaim(t) ==
    /\ runFailed /\ task[t].state = "READY"
    /\ task' = [task EXCEPT ![t].state = "CANCELLED"]
    /\ UNCHANGED <<queue, loop, runFailed, sub, sc>>
CancelMark(t) ==
    /\ task[t].state = "CANCELLED"
    /\ LET unspent == {i \in Members(t) : ~IsTerminal(task[t].member[i])}
       IN  task' = [task EXCEPT ![t] =
                      [@ EXCEPT !.state = "FAILED",
                                !.failed = IsGroup(t) \/ @,
                                !.member = [i \in DOMAIN @ |-> IF IsGroup(t) /\ i \in unspent THEN "SKIPPED" ELSE @[i]],
                                !.terminal = IF IsGroup(t) THEN @ + Cardinality(unspent) ELSE @]]
    /\ UNCHANGED <<queue, loop, runFailed, sub, sc>>

Ended(t) == task[t].state \in {"COMPLETED", "FAILED"}
Queued(t) == {k \in DOMAIN queue : queue[k].t = t}
=============================================================================
