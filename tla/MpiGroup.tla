------------------------------ MODULE MpiGroup ------------------------------
(***************************************************************************)
(* Group tasks over direct MPI: the scheduler (GroupTask), one             *)
(* RemoteL3Endpoint with its transport's progress thread per rank, the     *)
(* channel they share (the rendezvous that batches a whole group into one  *)
(* PER_RANK request, and lane_mu_), the group mailbox in shared memory,    *)
(* and rank 0 of the MPI job behind it.  A control caller and the closing  *)
(* thread use the same lane.  A frame is named by the task it carries; 0   *)
(* stands for a frame that carries none, and for an error where a reply    *)
(* is expected.                                                            *)
(***************************************************************************)
EXTENDS GroupTask, TLC

VARIABLES
    ep,       \* per rank: pending_task_, progress_stop_requested_, the WorkerThread's shutdown_
    tr,       \* per rank: the transport's progress request and what its thread is doing
    ch,       \* MpiGroupMailboxChannel's group_* members
    lane,     \* holder of lane_mu_ inside run_exchange
    box,      \* the mailbox words
    srv,      \* rank 0's command loop
    control,  \* a caller of run_control on the rank sc.control
    closing,  \* Worker::close: "no", "stop", "draining", "stopped", "lane", "closed"
    toShut,   \* endpoints shutdown_child has still to visit
    sent,     \* shutdown_sent_
    ran       \* how often rank r has executed task t

sched == <<task, queue, loop, runFailed, sub, sc>>
host == <<ep, control, closing, toShut, sent>>
batch == <<tr, ch>>
mail == <<lane, box, srv, ran>>
vars == <<sched, host, batch, mail>>

World == sc.world
WorldSize == Cardinality(World)
Whole(t) == IsGroup(t) /\ Members(t) = World
(* Users of the lane besides the ranks.                                      *)
Caller == 100
Closer == 101
NoLane == [who |-> 102, step |-> "free"]
NoBatch == [active |-> FALSE, done |-> FALSE, leading |-> FALSE, slot |-> 0, arrived |-> 0,
            departed |-> 0, open |-> FALSE, frames |-> <<>>, replies |-> <<>>]
NoRequest == [pc |-> "none", t |-> 0, asleep |-> FALSE, reply |-> 0, frames |-> <<>>,
              quit |-> FALSE]

Init ==
    /\ GroupInit
    /\ ep = [r \in World |-> [pend |-> 0, stop |-> FALSE, down |-> FALSE]]
    /\ tr = [r \in World |-> NoRequest]
    /\ ch = NoBatch /\ lane = NoLane
    /\ box = [group |-> "READY", req |-> "IDLE", seq |-> 0, op |-> "none", frames |-> <<>>, resp |-> <<>>]
    /\ srv = [pc |-> "idle", seq |-> 0, op |-> "none", frames |-> <<>>]
    /\ control = (IF sc.control \in World THEN "want" ELSE "off")
    /\ closing = "no" /\ toShut = World /\ sent = FALSE
    /\ ran = [t \in Tasks |-> [r \in World |-> 0]]

-----------------------------------------------------------------------------
(* The scheduler thread. command_mu_ of a rank is held by its control caller *)
(* through the whole exchange; can_dispatch asks for a free lane only.       *)
CommandFree(r) == ~(control = "lane" /\ r = sc.control)
Busy(r) == ep[r].pend # 0

(* A slot is reused once the run that held it has ended.                     *)
Queueable(t) == \A u \in Tasks : u < t /\ sc.tasks[u].slot = sc.tasks[t].slot => Ended(u)
(* dispatch_next_level_group takes the head of the group queue, and only when*)
(* every target is idle; its targets are reserved against singles meanwhile. *)
Waiting(t) == task[t].state = "READY" /\ Queueable(t)
AllIdle(t) == ~IsSub(t) => \A r \in Members(t) : ~Busy(r)
Dispatch(t) ==
    /\ closing = "no" /\ Waiting(t) /\ AllIdle(t)
    /\ \A u \in Tasks : Waiting(u) /\ IsGroup(u) /\ ~IsSub(u) /\ ~IsSub(t) =>
         IF IsGroup(t) THEN t <= u ELSE Members(u) \cap Members(t) = {}
    /\ Claim(t)
    /\ UNCHANGED <<host, batch, mail>>

(* submit_progress: the frame is handed to the transport's thread.           *)
Submitted(t, r) ==
    /\ ep' = [ep EXCEPT ![r].pend = t]
    /\ tr' = [tr EXCEPT ![r] = [NoRequest EXCEPT !.pc = "ready", !.t = t]]
    /\ UNCHANGED <<task, queue, runFailed>>
(* fail_submission: the task cannot be encoded for this rank.  The worker is *)
(* stopped with its transport, and the member ends here.                     *)
Unencodable(t, r) == <<t, r>> \in sc.rejects
FailSubmission(t, r) ==
    /\ ep' = [ep EXCEPT ![r].stop = TRUE, ![r].down = TRUE]
    /\ tr' = [tr EXCEPT ![r].quit = TRUE]
    /\ WorkerDone(t, r, "ENDPOINT_FAILURE")
(* complete_unpublished: the worker is stopping.                             *)
DispatchMember ==
    LET t == loop.t  r == Min(loop.todo)
    IN  /\ ~InScheduler /\ ~IsSub(t) /\ CommandFree(r) /\ NextMember
        /\ IF ep[r].down THEN WorkerDone(t, r, "ENDPOINT_FAILURE") /\ UNCHANGED <<ep, tr>>
           ELSE IF Unencodable(t, r) THEN FailSubmission(t, r)
           ELSE Submitted(t, r)
        /\ UNCHANGED <<mail, sub, sc, ch, control, closing, toShut, sent>>

(* WorkerThread::progress on a stopping worker: request_progress_stop, then  *)
(* poll_progress ends the pending member without waiting for its reply.      *)
PollStopping(r) ==
    /\ InScheduler /\ CommandFree(r) /\ ep[r].down /\ (Busy(r) \/ ~ep[r].stop)
    /\ ep' = [ep EXCEPT ![r].stop = TRUE, ![r].pend = 0]
    /\ tr' = [tr EXCEPT ![r].quit = @ \/ Busy(r)]
    /\ IF Busy(r) THEN WorkerDone(ep[r].pend, r, "ENDPOINT_FAILURE")
       ELSE UNCHANGED <<task, queue, runFailed>>
    /\ UNCHANGED <<mail, sub, loop, sc, ch, control, closing, toShut, sent>>
(* The reply has to be the one to the pending command.                       *)
ReplyOutcome_Any(r) == "SUCCESS"
ReplyOutcome(r) == IF tr[r].reply = ep[r].pend THEN "SUCCESS" ELSE "ENDPOINT_FAILURE"
(* poll_progress: a reply to the pending command, or an error.               *)
Poll(r) ==
    /\ InScheduler /\ CommandFree(r) /\ ~ep[r].down /\ Busy(r) /\ tr[r].pc = "fin"
    /\ ep' = [ep EXCEPT ![r].pend = 0]
    /\ tr' = [tr EXCEPT ![r] = NoRequest]
    /\ WorkerDone(ep[r].pend, r, ReplyOutcome(r))
    /\ UNCHANGED <<mail, sub, loop, sc, ch, control, closing, toShut, sent>>

-----------------------------------------------------------------------------
(* The progress thread of a rank.  A thread whose transport is shut down     *)
(* leaves without looking at its request; one already in an exchange goes on.*)
Quit(r) ==
    /\ tr[r].pc = "ready" /\ tr[r].quit
    /\ tr' = [tr EXCEPT ![r] = [NoRequest EXCEPT !.quit = TRUE]]
    /\ UNCHANGED <<sched, host, mail, ch>>

(* exchange: a single task, or a member of a group that is not the world.    *)
PickSolo(r) ==
    /\ tr[r].pc = "ready" /\ ~tr[r].quit /\ ~Whole(tr[r].t)
    /\ tr' = [tr EXCEPT ![r].pc = "solo", ![r].frames = (r :> tr[r].t)]
    /\ UNCHANGED <<sched, host, mail, ch>>

(* exchange_group_task, first hold of group_mu_.  The step is taken when the *)
(* slot's batch can be joined, or when the deadline passed over another one. *)
Opened(slot) == [NoBatch EXCEPT !.active = TRUE, !.slot = slot, !.open = TRUE,
                                !.frames = [q \in World |-> 0]]
Joined(b, r, t) == [b EXCEPT !.frames[r] = t, !.arrived = @ + 1]
Full(b) == b.arrived = WorldSize
Join(r) ==
    LET t == tr[r].t
        slot == sc.tasks[t].slot
        b == IF ch.active THEN ch ELSE Opened(slot)
        joined == Joined(b, r, t)
    IN  /\ tr[r].pc = "ready" /\ ~tr[r].quit /\ Whole(t)
        /\ IF b.slot # slot \/ ~b.open \/ b.frames[r] # 0
           THEN tr' = [tr EXCEPT ![r].pc = "fin", ![r].reply = 0] /\ UNCHANGED ch
           ELSE IF Full(joined)
           THEN /\ tr' = [tr EXCEPT ![r].pc = "lead", ![r].frames = joined.frames]
                /\ ch' = [joined EXCEPT !.leading = TRUE, !.open = FALSE, !.frames = <<>>]
           ELSE /\ tr' = [tr EXCEPT ![r].pc = "batch", ![r].asleep = TRUE]
                /\ ch' = joined
        /\ UNCHANGED <<sched, host, mail>>

(* A follower's deadline: it withdraws its frame while nobody leads, or      *)
(* departs from a batch that goes on without it; then it notifies and throws.*)
Withdrawn(b, r) ==
    IF b.arrived = 1 THEN NoBatch ELSE [b EXCEPT !.frames[r] = 0, !.arrived = @ - 1]
Departed(b) == IF b.departed + 1 = WorldSize THEN NoBatch ELSE [b EXCEPT !.departed = @ + 1]
LeaveAtDeadline_Uncounted(b, r) == IF b.leading THEN b ELSE Withdrawn(b, r)
LeaveAtDeadline(b, r) == IF b.leading THEN Departed(b) ELSE Withdrawn(b, r)
BatchDeadline(r) ==
    /\ tr[r].pc = "batch" /\ ~ch.done
    /\ ch' = LeaveAtDeadline(ch, r)
    /\ tr' = [tr EXCEPT ![r].pc = "gone", ![r].asleep = FALSE, ![r].reply = 0]
    /\ UNCHANGED <<sched, host, mail>>
(* notify_all, outside the lock: by a leader that has published the replies, *)
(* by a rank that gave up.                                                   *)
Notify(r) ==
    /\ tr[r].pc \in {"led", "gone"}
    /\ tr' = [q \in World |->
                IF q = r THEN [tr[q] EXCEPT !.pc = IF @ = "led" THEN "batch" ELSE "fin"]
                ELSE [tr[q] EXCEPT !.asleep = FALSE]]
    /\ UNCHANGED <<sched, host, mail, ch>>
(* A woken rank takes its own reply and departs, the last one closing the    *)
(* batch; or waits again.                                                    *)
Depart(r) ==
    /\ tr[r].pc = "batch" /\ ~tr[r].asleep
    /\ IF ch.done
       THEN /\ tr' = [tr EXCEPT ![r].pc = "fin", ![r].reply = IF ch.replies = <<>> THEN 0 ELSE ch.replies[r]]
            /\ ch' = Departed(ch)
       ELSE tr' = [tr EXCEPT ![r].asleep = TRUE] /\ UNCHANGED ch
    /\ UNCHANGED <<sched, host, mail>>

-----------------------------------------------------------------------------
(* run_exchange under lane_mu_.                                              *)
LaneUsers == World \cup {Caller, Closer}
Wants(u) ==
    CASE u = Caller -> control = "lane"
      [] u = Closer -> closing = "lane"
      [] OTHER -> tr[u].pc \in {"lead", "solo"}
Opcode(u) == CASE u = Caller -> "CONTROL" [] u = Closer -> "SHUTDOWN" [] OTHER -> "TASK"
RequestFrames(u) ==
    CASE u = Caller -> (sc.control :> 0)
      [] u = Closer -> [r \in World |-> 0]
      [] OTHER -> tr[u].frames

(* What the exchange returns to its caller: replies, or <<>> for an error.   *)
Returned(u, replies) ==
    \/ u = Caller /\ control' = "done" /\ UNCHANGED <<batch, closing>>
    \/ u = Closer /\ closing' = "stopped" /\ UNCHANGED <<batch, control>>
    \/ /\ u \in World
       /\ IF tr[u].pc = "lead"
          THEN /\ tr' = [tr EXCEPT ![u].pc = "led"]
               /\ ch' = [ch EXCEPT !.done = TRUE, !.leading = FALSE, !.replies = replies]
          ELSE /\ tr' = [tr EXCEPT ![u].pc = "fin", ![u].reply = IF replies = <<>> THEN 0 ELSE replies[u]]
               /\ UNCHANGED ch
       /\ UNCHANGED <<control, closing>>

(* The request is refused, or written and published.                         *)
ExchangeStart(u) ==
    /\ lane = NoLane /\ Wants(u)
    /\ sent' = (sent \/ (u = Closer /\ box.group # "TERMINAL"))
    /\ IF box.group # "READY" \/ box.req # "IDLE" \/ (u = Closer /\ sent)
       THEN Returned(u, <<>>) /\ UNCHANGED <<lane, box>>
       ELSE /\ lane' = [who |-> u, step |-> "poll"]
            /\ box' = [box EXCEPT !.req = IF Opcode(u) = "SHUTDOWN" THEN "SHUTDOWN_READY" ELSE "REQUEST_READY",
                                  !.seq = @ + 1, !.op = Opcode(u), !.frames = RequestFrames(u), !.resp = <<>>]
            /\ UNCHANGED <<batch, control, closing>>
    /\ UNCHANGED <<sched, ep, srv, toShut, ran>>
ExchangeDone(u) ==
    /\ lane = [who |-> u, step |-> "poll"] /\ box.req \in {"TASK_DONE", "SHUTDOWN_DONE"}
    /\ box' = [box EXCEPT !.req = "IDLE"]
    /\ Returned(u, box.resp) /\ lane' = NoLane
    /\ UNCHANGED <<sched, ep, srv, toShut, sent, ran>>
ExchangeFailed(u) ==
    /\ lane = [who |-> u, step |-> "poll"]
    /\ box.req = "TASK_FAILED" \/ (box.group = "TERMINAL" /\ box.req \notin {"TASK_DONE", "SHUTDOWN_DONE"})
    /\ box' = IF box.group = "TERMINAL" THEN box ELSE [box EXCEPT !.req = "IDLE"]
    /\ Returned(u, <<>>) /\ lane' = NoLane
    /\ UNCHANGED <<sched, ep, srv, toShut, sent, ran>>
(* The deadline is looked at after the request word, so an answer may arrive *)
(* between the two: mark_terminal, then kill_mpirun_group.                   *)
ExchangeDeadline(u) ==
    /\ lane = [who |-> u, step |-> "poll"] /\ box.req \notin {"TASK_DONE", "SHUTDOWN_DONE", "TASK_FAILED"}
    /\ box.group # "TERMINAL"
    /\ lane' = [lane EXCEPT !.step = "expired"]
    /\ UNCHANGED <<sched, host, batch, box, srv, ran>>
ExchangeTerminal(u) ==
    /\ lane = [who |-> u, step |-> "expired"]
    /\ lane' = [lane EXCEPT !.step = "kill"]
    /\ box' = [box EXCEPT !.group = "TERMINAL", !.req = "TASK_FAILED"]
    /\ UNCHANGED <<sched, host, batch, srv, ran>>
ExchangeKill(u) ==
    /\ lane = [who |-> u, step |-> "kill"]
    /\ srv' = [srv EXCEPT !.pc = "exit"]
    /\ Returned(u, <<>>) /\ lane' = NoLane
    /\ UNCHANGED <<sched, ep, box, toShut, sent, ran>>
ExchangeExpire(u) == ExchangeDeadline(u) \/ ExchangeTerminal(u) \/ ExchangeKill(u)

-----------------------------------------------------------------------------
(* run_control: waits for the endpoint's pending task, then holds command_mu_. *)
Control ==
    LET r == sc.control
    IN  /\ control = "want"
        /\ ~Busy(r) \/ ep[r].stop
        /\ control' = IF ep[r].stop THEN "done" ELSE "lane"
        /\ UNCHANGED <<sched, batch, mail, ep, closing, toShut, sent>>

(* Worker::close: request_stop, stop_workers, the scheduler's exit once no   *)
(* worker is busy, then shutdown_child on every endpoint.                    *)
RequestStop ==
    /\ sc.stop /\ closing = "no" /\ closing' = "stop"
    /\ UNCHANGED <<sched, batch, mail, ep, control, toShut, sent>>
StopWorkers ==
    /\ closing = "stop" /\ closing' = "draining"
    /\ ep' = [r \in World |-> [ep[r] EXCEPT !.down = TRUE]]
    /\ UNCHANGED <<sched, batch, mail, control, toShut, sent>>
SchedulerExit ==
    /\ closing = "draining" /\ InScheduler /\ queue = <<>> /\ sub = {} /\ \A r \in World : ~Busy(r)
    /\ closing' = "stopped"
    /\ UNCHANGED <<sched, batch, mail, ep, control, toShut, sent>>
(* shutdown_child.  The channel sends one SHUTDOWN for the whole group, and  *)
(* none to a terminal group.                                                 *)
ShutdownChild_Live ==
    LET r == Min(toShut)
    IN  /\ closing = "stopped" /\ toShut # {} /\ CommandFree(r)
        /\ toShut' = toShut \ {r} /\ closing' = IF tr[r].quit THEN closing ELSE "lane"
        /\ tr' = [tr EXCEPT ![r].quit = TRUE]
        /\ UNCHANGED <<sched, mail, ep, ch, control, sent>>
ShutdownChild ==
    LET r == Min(toShut)
    IN  /\ closing = "stopped" /\ toShut # {} /\ CommandFree(r)
        /\ toShut' = toShut \ {r} /\ closing' = "lane"
        /\ tr' = [tr EXCEPT ![r].quit = TRUE]
        /\ UNCHANGED <<sched, mail, ep, ch, control, sent>>
(* The transports' destructors join their threads.                           *)
JoinThreads ==
    /\ closing = "stopped" /\ toShut = {} /\ \A r \in World : tr[r].pc \in {"none", "fin"}
    /\ closing' = "closed"
    /\ UNCHANGED <<sched, batch, mail, ep, control, toShut, sent>>

-----------------------------------------------------------------------------
(* Rank 0: accept, execute on the targeted ranks, gather, answer.  It looks  *)
(* at the request word before it writes the answer.                          *)
SrvAccept ==
    /\ srv.pc = "idle" /\ box.req \in {"REQUEST_READY", "SHUTDOWN_READY"} /\ box.group # "TERMINAL"
    /\ IF box.seq <= srv.seq
       THEN srv' = [srv EXCEPT !.pc = "broken"] /\ UNCHANGED <<box, ran>>
       ELSE /\ box' = [box EXCEPT !.req = "TASK_ACCEPTED"]
            /\ srv' = [pc |-> "run", seq |-> box.seq, op |-> box.op, frames |-> box.frames]
            /\ ran' = [t \in Tasks |-> [r \in World |->
                         IF box.op = "TASK" /\ r \in DOMAIN box.frames /\ box.frames[r] = t
                         THEN ran[t][r] + 1 ELSE ran[t][r]]]
    /\ UNCHANGED <<sched, host, batch, lane>>
(* The gathered result: replies, an application error, a transport error.    *)
(* _validate_active_sequence raises, ending the session, when the request is *)
(* no longer the one accepted.                                               *)
SrvGather(result) ==
    /\ srv.pc = "run" /\ result \in {"done"} \cup (sc.faults \ (IF srv.op = "SHUTDOWN" THEN {"failed"} ELSE {}))
    /\ srv' = [srv EXCEPT !.pc = IF box.req = "TASK_ACCEPTED" /\ box.seq = srv.seq THEN result ELSE "exit"]
    /\ UNCHANGED <<sched, host, batch, lane, box, ran>>
SrvComplete ==
    /\ srv.pc = "done"
    /\ IF srv.op = "SHUTDOWN"
       THEN /\ box' = [box EXCEPT !.req = "SHUTDOWN_DONE"]
            /\ srv' = [srv EXCEPT !.pc = "close"]
       ELSE /\ box' = [box EXCEPT !.req = "TASK_DONE", !.resp = srv.frames]
            /\ srv' = [srv EXCEPT !.pc = "idle"]
    /\ UNCHANGED <<sched, host, batch, lane, ran>>
SrvFail ==
    /\ srv.pc = "failed"
    /\ box' = [box EXCEPT !.req = "TASK_FAILED"]
    /\ srv' = [srv EXCEPT !.pc = "idle"]
    /\ UNCHANGED <<sched, host, batch, lane, ran>>
(* Two stores: the group state, then the request word; after them the        *)
(* session ends.                                                             *)
SrvTerminal ==
    /\ srv.pc \in {"broken", "broken2"}
    /\ IF srv.pc = "broken"
       THEN box' = [box EXCEPT !.group = "TERMINAL"] /\ srv' = [srv EXCEPT !.pc = "broken2"]
       ELSE box' = [box EXCEPT !.req = "TASK_FAILED"] /\ srv' = [srv EXCEPT !.pc = "exit"]
    /\ UNCHANGED <<sched, host, batch, lane, ran>>
SrvClosed ==
    /\ srv.pc = "close"
    /\ box' = IF box.group = "TERMINAL" THEN box ELSE [box EXCEPT !.group = "CLOSED"]
    /\ srv' = [srv EXCEPT !.pc = "exit"]
    /\ UNCHANGED <<sched, host, batch, lane, ran>>
(* The loop leaves a terminal group, and gives up on an answer that nobody   *)
(* collects.                                                                 *)
SrvLeave ==
    /\ srv.pc = "idle" /\ box.group = "TERMINAL" /\ srv' = [srv EXCEPT !.pc = "exit"]
    /\ UNCHANGED <<sched, host, batch, lane, box, ran>>
SrvStalled ==
    /\ "stall" \in sc.events /\ srv.pc = "idle" /\ box.req \in {"TASK_DONE", "TASK_FAILED"} /\ box.group = "READY"
    /\ srv' = [srv EXCEPT !.pc = "broken"]
    /\ UNCHANGED <<sched, host, batch, lane, box, ran>>
(* The MPI job dies at any point; L4 learns of it at the deadline only.      *)
SrvDies ==
    /\ "die" \in sc.events /\ srv.pc # "exit" /\ srv' = [srv EXCEPT !.pc = "exit"]
    /\ UNCHANGED <<sched, host, batch, lane, box, ran>>
-----------------------------------------------------------------------------
SchedulerNext ==
    \/ \E t \in Tasks : Dispatch(t)
    \/ DispatchMember
    \/ \E r \in World : PollStopping(r) \/ Poll(r)
    \/ Drain /\ UNCHANGED <<host, batch, mail>>
    \/ DispatchSub /\ UNCHANGED <<host, batch, mail>>
    \/ SubRejected /\ UNCHANGED <<host, batch, mail>>
    \/ \E m \in sub, o \in Outcomes : SubEnds(m, o) /\ UNCHANGED <<host, batch, mail>>
CancelNext ==
    \E t \in Tasks : (CancelClaim(t) \/ CancelMark(t)) /\ UNCHANGED <<host, batch, mail>>
RankNext(r) == Quit(r) \/ PickSolo(r) \/ Join(r) \/ BatchDeadline(r) \/ Notify(r) \/ Depart(r)
LaneNext(u) == ExchangeStart(u) \/ ExchangeDone(u) \/ ExchangeFailed(u) \/ ExchangeExpire(u)
CloseNext == StopWorkers \/ SchedulerExit \/ ShutdownChild \/ JoinThreads
SrvNext ==
    \/ SrvAccept
    \/ \E result \in {"done", "failed", "broken"} : SrvGather(result)
    \/ SrvComplete \/ SrvFail \/ SrvTerminal \/ SrvClosed \/ SrvLeave

Next ==
    \/ SchedulerNext
    \/ CancelNext
    \/ \E r \in World : RankNext(r)
    \/ \E u \in LaneUsers : LaneNext(u)
    \/ Control
    \/ RequestStop
    \/ CloseNext
    \/ SrvNext
    \/ SrvStalled \/ SrvDies

(* The scheduler loops while anything is busy; every thread that holds or    *)
(* waits for a lock goes on; deadlines pass.  Nobody has to close, to stall  *)
(* or to die.                                                                *)
Spec ==
    /\ Init /\ [][Next]_vars
    /\ WF_vars(SchedulerNext) /\ WF_vars(CancelNext) /\ WF_vars(Control) /\ WF_vars(CloseNext) /\ WF_vars(SrvNext)
    /\ \A r \in {0, 1, 2} : WF_vars(r \in World /\ RankNext(r))
    /\ \A u \in {0, 1, 2, Caller, Closer} : WF_vars(u \in LaneUsers /\ LaneNext(u))

-----------------------------------------------------------------------------
(* A task's completion leaves worker_done only when no member of it is at a  *)
(* worker any more, and once: nobody writes into a slot that has completed.  *)
AtWorker(t) == (\E r \in World : ep[r].pend = t) \/ (\E m \in sub : m[1] = t)
NoWorkBehindCompletion ==
    \A t \in Tasks :
      /\ Cardinality(Queued(t)) <= 1
      /\ Queued(t) # {} => task[t].state = "RUNNING" /\ ~AtWorker(t)
      /\ Ended(t) => Queued(t) = {} /\ ~AtWorker(t)
(* The aggregated outcome is honest: success exactly when every member       *)
(* succeeded, and otherwise the outcome of the member named as the failing   *)
(* one, with every member accounted for in the terminal count.               *)
GroupOutcomeHonest ==
    \A k \in DOMAIN queue : IsGroup(queue[k].t) =>
      LET q == queue[k]  s == task[q.t]
      IN  /\ \A i \in Members(q.t) : IsTerminal(s.member[i])
          /\ s.terminal = Cardinality(Members(q.t))
          /\ q.outcome = "SUCCESS" <=> \A i \in Members(q.t) : s.member[i] = "SUCCESS"
          /\ q.outcome # "SUCCESS" =>
               q.first \in Members(q.t) /\ s.member[q.first] = "FAILED" /\ s.outcome[q.first] = q.outcome

(* A group task ends once, with nothing of it left at a worker, and with the *)
(* outcome its members had.                                                  *)
GroupEndsOnce == NoWorkBehindCompletion /\ GroupOutcomeHonest

(* A member reported as successful was executed by its own rank, and no rank *)
(* ever executes a member twice: through timeouts, withdrawn frames, slots   *)
(* used again and late answers.                                              *)
Succeeded(t, r) ==
    IF IsGroup(t) THEN task[t].member[r] = "SUCCESS" ELSE task[t].state = "COMPLETED"
SuccessIsExecuted ==
    \A t \in Tasks : ~IsSub(t) => \A r \in Members(t) :
      ran[t][r] <= 1 /\ (Succeeded(t, r) => ran[t][r] = 1)

(* The rendezvous never mixes tasks and never leaks: a leader carries one    *)
(* frame of the same task for every rank, and the batch is active exactly    *)
(* while some rank is inside it.                                             *)
Inside == {r \in World : tr[r].pc \in {"batch", "lead", "led"}}
BatchClean ==
    /\ ch.active <=> Inside # {}
    /\ \A r \in Inside : tr[r].pc = "lead" => tr[r].frames = [q \in World |-> tr[r].t]
    /\ \A r, q \in Inside : tr[r].t = tr[q].t

(* No rank sleeps over a finished batch unless the leader has still to       *)
(* notify: the notification is sent outside group_mu_.                       *)
NoMissedNotify ==
    ch.done => \A r \in World : tr[r].asleep => \E q \in World : tr[q].pc = "led"

(* A request that failed without ending the group leaves the lane idle for   *)
(* the next one.                                                             *)
LaneLeftIdle == lane = NoLane /\ box.group = "READY" => box.req = "IDLE"

(* The rendezvous is sound: the batch that is open consists of the ranks     *)
(* inside it, all for one task, its leader carries every rank's frame, no    *)
(* rank sleeps over a finished batch, and a request leaves the lane idle.    *)
RendezvousSound == BatchClean /\ NoMissedNotify /\ LaneLeftIdle

(* Whatever fails, everything comes to rest: every task ends or is left      *)
(* READY by a close, every exchange, rendezvous and control call returns,    *)
(* close returns, and the MPI job it closed has exited.                      *)
Settled ==
    /\ \A t \in Tasks : Ended(t) \/ (task[t].state = "READY" /\ closing = "closed")
    /\ \A r \in World : tr[r].pc \in {"none", "fin"} /\ ~Busy(r)
    /\ control \in {"off", "done"} /\ lane = NoLane
    /\ closing = "no" \/ (closing = "closed" /\ srv.pc = "exit")
EverythingSettles == <>[]Settled
=============================================================================
