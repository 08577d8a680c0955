--------------------------- MODULE MailboxEndpoint ---------------------------
(***************************************************************************)
(* One next-level worker: WorkerThread and LocalMailboxEndpoint in the     *)
(* parent, the staged frame loop in the forked child, and the shared       *)
(* mailbox between them.  A dispatch is handed over in a request frame and *)
(* lives in a run-state entry until its terminal result is reported; the   *)
(* frame comes back as soon as the child copied it.                        *)
(*                                                                         *)
(* A dispatch id stands for the identity of its run and for the            *)
(* generations of its frame and entry: all three are fresh on every        *)
(* submission, and an even entry generation is 0.  What the parent's       *)
(* EntryRecord and LaneState remember of a dispatch are sets of ids.       *)
(*                                                                         *)
(* An operator Op_Word stated before Op is Op with one bug of the kind the *)
(* code guards against; nothing uses it.                                   *)
(***************************************************************************)
EXTENDS Integers, FiniteSets, FiniteSetsExt, Sequences

CONSTANTS
    Sets,            \* granted_sets
    RequestFrames,   \* MAILBOX_REQUEST_FRAMES
    MaxDispatches,   \* dispatches to this worker
    Dependents,      \* dispatches whose result another worker's task of their run needs
    Scenarios        \* sets of what may happen, any number of times, besides the plain path

ASSUME SetsAssumption == Sets \in Nat \ {0} /\ RequestFrames \in Nat \ {0}
ASSUME DispatchesAssumption == MaxDispatches \in Nat /\ Dependents \subseteq 1 .. MaxDispatches
ASSUME ScenariosAssumption ==
    Scenarios \subseteq SUBSET {"stop", "crash", "control", "reject", "bad", "halt", "fast", "observe"}

Dispatches == 1 .. MaxDispatches
Entries == 1 .. Sets + RequestFrames
Frames == 1 .. RequestFrames
None == 0
NoFrame == [step |-> 0, frame |-> 1, run |-> None, ok |-> TRUE]

VARIABLES
    sent, prep,                                   \* next_dispatch_id_ - 1; dispatches with prepare_only
    lane, laneReq, laneHanded, laneNative,        \* LaneState of every dispatch
    exec, ledger, acceptedIds, shutdown,          \* WorkerThread: execution_inflight_, execution_ended_dispatch_ids_
    rec, pub,                                     \* entries_: occupant; request_frames_: generation published
    repAccepted, repStaged, repNative, repEnded,  \* EntryRecord: what was reported upward
    actReq, actPub,                               \* EntryRecord: activation requested, published
    poisoned, preserve,                           \* endpoint_poisoned_, preserve_terminal_results_on_exit_
    fstate, header,                               \* shared: request frames
    gen, estate, eaccepted, eack, edisp, eobs,    \* shared: run-state entries
    stopWord,                                     \* shared: MAILBOX_OFF_SHUTDOWN
    child, taking, watching, swept,               \* the child's loop: where it is
    crun, centry, activated, lpub, epub,          \* the child's staged runs
    events,                                       \* the scenario of this behaviour
    demand,                                       \* runs somebody waits for
    verdict, accepts, dones, outcome              \* what the child published; callbacks to the Scheduler

laneVars == <<lane, laneReq, laneHanded, laneNative>>
threadVars == <<exec, ledger, acceptedIds>>
reportVars == <<repAccepted, repStaged, repNative, repEnded, actReq, actPub>>
poisonVars == <<poisoned, preserve>>
entryVars == <<gen, estate, eaccepted, eack, edisp, eobs>>
frameVars == <<fstate, header>>
runVars == <<crun, centry, activated, lpub, epub>>
loopVars == <<child, taking, watching, swept>>
childVars == <<loopVars, runVars, verdict, events>>
callbackVars == <<accepts, dones, outcome>>
parentVars == <<sent, prep, laneVars, threadVars, shutdown, rec, pub, reportVars, poisonVars, demand, callbackVars, events>>
sharedVars == <<frameVars, entryVars, stopWord>>
vars == <<parentVars, sharedVars, childVars>>

Init ==
    /\ sent = 0 /\ prep = {} /\ exec = 0 /\ ledger = {} /\ acceptedIds = {} /\ shutdown = FALSE
    /\ lane = [d \in Dispatches |-> "none"] /\ laneReq = {} /\ laneHanded = {} /\ laneNative = {}
    /\ rec = [e \in Entries |-> None] /\ pub = [f \in Frames |-> None]
    /\ repAccepted = {} /\ repStaged = {} /\ repNative = {} /\ repEnded = {} /\ actReq = {} /\ actPub = {}
    /\ poisoned = FALSE /\ preserve = FALSE /\ demand = {} /\ events \in Scenarios
    /\ fstate = [f \in Frames |-> "IDLE"] /\ header = [f \in Frames |-> [entry |-> 1, gen |-> None]]
    /\ gen = [e \in Entries |-> None] /\ estate = [e \in Entries |-> "IDLE"]
    /\ eaccepted = [e \in Entries |-> FALSE] /\ eack = [e \in Entries |-> None]
    /\ edisp = [e \in Entries |-> "NONE"] /\ eobs = [e \in Entries |-> FALSE] /\ stopWord = FALSE
    /\ child = "loop" /\ taking = NoFrame /\ watching = None /\ swept = 0
    /\ crun = [d \in Dispatches |-> "none"] /\ centry = [d \in Dispatches |-> 1]
    /\ activated = {} /\ lpub = {} /\ epub = {}
    /\ verdict = [d \in Dispatches |-> "none"]
    /\ accepts = [d \in Dispatches |-> 0] /\ dones = [d \in Dispatches |-> 0]
    /\ outcome = [d \in Dispatches |-> "none"]

-----------------------------------------------------------------------------
(* Parent: lanes, frames and entries *)

Occupied == {e \in Entries : rec[e] # None}
Active == {d \in Dispatches : lane[d] = "active"}
Staged == {d \in Dispatches : lane[d] = "staged"}

(* reclaim_consumed_request_frames_locked: a frame is the parent's again     *)
(* when its entry was released, or when the child echoed its generation.     *)
Consumed(f) == \A e \in Entries : rec[e] = pub[f] => eack[e] = pub[f]
Reclaimed == [f \in Frames |-> IF pub[f] # None /\ Consumed(f) THEN None ELSE pub[f]]
FreeFrames == {f \in Frames : Reclaimed[f] = None}
FreeEntries == Entries \ Occupied

(* available_request_transport > 0 *)
HasTransport == ~poisoned /\ FreeFrames # {} /\ FreeEntries # {}
CanDispatch == Active = {} /\ HasTransport
CanStage ==
    /\ Sets > 1 /\ exec < Cardinality(Entries)
    /\ Cardinality(Staged) < Cardinality(Entries) - 1
    /\ HasTransport

(* The run FIFO around this worker (module RunAdmission): dispatch ids on a  *)
(* worker follow the FIFO, so a run is the active one once every earlier     *)
(* dispatch ended, and may launch early once every earlier one was accepted. *)
(* Work of an earlier run that waits elsewhere for a result holds both back. *)
Settled(d) == \A q \in Dependents : q < d => dones[q] > 0
IsActiveRun(d) == Settled(d) /\ \A q \in 1 .. d - 1 : lane[q] = "none"
MayLaunchEarly(d) == Settled(d) /\ \A q \in 1 .. d - 1 : accepts[q] > 0
Authorized(d) == IsActiveRun(d) \/ MayLaunchEarly(d)

(* finish_progress_dispatch(COMPLETED): the acceptance fence first, when no  *)
(* ACCEPTED event came, then the completion, the lane and the credit.        *)
AcceptsAtEnd_Always(d) == TRUE
AcceptsAtEnd(d) == d \notin acceptedIds
OwesCredit_Always(d) == TRUE
OwesCredit(d) == d \notin ledger
Completed(d, result) ==
    /\ accepts' = [accepts EXCEPT ![d] = IF AcceptsAtEnd(d) THEN @ + 1 ELSE @]
    /\ acceptedIds' = acceptedIds \ {d}
    /\ dones' = [dones EXCEPT ![d] = @ + 1]
    /\ outcome' = [outcome EXCEPT ![d] = result]
    /\ lane' = [lane EXCEPT ![d] = "none"]
    /\ laneReq' = laneReq \ {d} /\ laneHanded' = laneHanded \ {d} /\ laneNative' = laneNative \ {d}
    /\ exec' = IF OwesCredit(d) THEN exec - 1 ELSE exec
    /\ ledger' = ledger \ {d}

(* complete_unpublished, after the lane was released *)
Unpublished(d) ==
    /\ accepts' = [accepts EXCEPT ![d] = @ + 1]
    /\ dones' = [dones EXCEPT ![d] = @ + 1]
    /\ outcome' = [outcome EXCEPT ![d] = "endpoint"]

(* The acceptance word of an entry taken for a new occupant. *)
ClearedAccepted(e) == [eaccepted EXCEPT ![e] = FALSE]

(* submit_progress: the lowest free entry and frame; the frame's state word  *)
(* is the last store and releases the others.                                *)
Publish(d, kind) ==
    LET e == Min(FreeEntries)
        f == Min(FreeFrames)
    IN  /\ rec' = [rec EXCEPT ![e] = d]
        /\ pub' = [Reclaimed EXCEPT ![f] = d]
        /\ gen' = [gen EXCEPT ![e] = d]
        /\ estate' = [estate EXCEPT ![e] = "IDLE"]
        /\ eaccepted' = ClearedAccepted(e)
        /\ eack' = [eack EXCEPT ![e] = None]
        /\ edisp' = [edisp EXCEPT ![e] = "NONE"]
        /\ eobs' = [eobs EXCEPT ![e] = FALSE]
        /\ header' = [header EXCEPT ![f] = [entry |-> e, gen |-> d]]
        /\ fstate' = [fstate EXCEPT ![f] = kind]

(* dispatch and dispatch_prepared, behind can_dispatch and can_stage.  A     *)
(* worker that is stopping completes the dispatch at once.                   *)
Gate(staging) == IF staging THEN CanStage ELSE CanDispatch /\ Staged = {} /\ Settled(sent + 1)
Submit(staging) ==
    LET d == sent + 1
    IN  /\ sent < MaxDispatches /\ Gate(staging)
        /\ sent' = d
        /\ IF shutdown
           THEN /\ Unpublished(d) /\ pub' = Reclaimed
                /\ UNCHANGED <<prep, laneVars, exec, rec, frameVars, entryVars>>
           ELSE /\ Publish(d, IF staging THEN "PREPARE_READY" ELSE "TASK_READY")
                /\ prep' = IF staging THEN prep \cup {d} ELSE prep
                /\ lane' = [lane EXCEPT ![d] = IF staging THEN "staged" ELSE "active"]
                /\ exec' = exec + 1
                /\ UNCHANGED <<laneReq, laneHanded, laneNative, callbackVars>>
        /\ UNCHANGED <<ledger, acceptedIds, shutdown, reportVars, poisonVars, demand, stopWord, childVars>>

(* submit_progress throws before it publishes (an argument blob too large):  *)
(* fail_submission stops the worker, poisons the endpoint and completes the  *)
(* dispatch itself.                                                          *)
SubmitRejected(staging) ==
    LET d == sent + 1
    IN  /\ "reject" \in events /\ sent < MaxDispatches /\ Gate(staging) /\ ~shutdown
        /\ sent' = d /\ shutdown' = TRUE /\ poisoned' = TRUE /\ pub' = Reclaimed
        /\ Unpublished(d)
        /\ UNCHANGED <<prep, laneVars, threadVars, rec, reportVars, preserve, demand, sharedVars, childVars>>

(* activate_prepared: the run became the active one. *)
ActivatePrepared(d) ==
    /\ ~shutdown /\ lane[d] = "staged" /\ Active = {} /\ IsActiveRun(d)
    /\ lane' = [lane EXCEPT ![d] = "active"]
    /\ laneReq' = laneReq \cup {d}
    /\ UNCHANGED <<sent, prep, laneHanded, laneNative, threadVars, shutdown, rec, pub, reportVars, poisonVars, demand,
                   callbackVars, sharedVars, childVars>>

AuthorizeStagedLaunch(d) ==
    /\ ~shutdown /\ lane[d] = "staged" /\ d \in laneNative \ laneReq /\ MayLaunchEarly(d)
    /\ laneReq' = laneReq \cup {d}
    /\ UNCHANGED <<sent, prep, lane, laneHanded, laneNative, threadVars, shutdown, rec, pub, reportVars, poisonVars,
                   demand, callbackVars, sharedVars, childVars>>

(* try_publish_activation: the parent's only transition of the state word.   *)
Activates(e) == estate[e] = "FRAME_STAGED"
PublishActivation(e) ==
    /\ estate' = IF Activates(e) THEN [estate EXCEPT ![e] = "ACTIVATE"] ELSE estate
    /\ actPub' = IF Activates(e) THEN actPub \cup {rec[e]} ELSE actPub

(* progress: hand a lane's request to the endpoint, which keeps it. *)
ActivateProgress(e) ==
    /\ ~shutdown /\ ~poisoned /\ rec[e] \in (prep \cap laneReq) \ laneHanded
    /\ actReq' = actReq \cup {rec[e]}
    /\ laneHanded' = laneHanded \cup {rec[e]}
    /\ PublishActivation(e)
    /\ UNCHANGED <<sent, prep, lane, laneReq, laneNative, threadVars, shutdown, rec, pub, repAccepted, repStaged,
                   repNative, repEnded, poisonVars, demand, callbackVars, frameVars, gen, eaccepted, eack, edisp, eobs,
                   stopWord, childVars>>

-----------------------------------------------------------------------------
(* Parent: poll_progress and finish_progress_dispatch *)

Terminals == {"TASK_DONE", "TASK_FAILED"}
Result(e) == IF estate[e] = "TASK_DONE" THEN "ok" ELSE "task"

(* release_entry_locked: the generation turns even, the state word is reset, *)
(* and a frame nobody will echo any more comes back.                         *)
Release(e) ==
    LET d == rec[e]
    IN  /\ gen' = [gen EXCEPT ![e] = None]
        /\ estate' = [estate EXCEPT ![e] = "IDLE"]
        /\ rec' = [rec EXCEPT ![e] = None]
        /\ pub' = [f \in Frames |-> IF pub[f] = d THEN None ELSE pub[f]]
        /\ repAccepted' = repAccepted \ {d} /\ repStaged' = repStaged \ {d}
        /\ repNative' = repNative \ {d} /\ repEnded' = repEnded \ {d}
        /\ actReq' = actReq \ {d} /\ actPub' = actPub \ {d}

(* An entry whose acceptance has not been reported reports that first. *)
Polls(e) == ~poisoned /\ rec[e] # None /\ (eaccepted[e] => rec[e] \in repAccepted)

PollAccepted(e) ==
    LET d == rec[e]
    IN  /\ ~poisoned /\ d # None /\ eaccepted[e] /\ d \notin repAccepted
        /\ repAccepted' = repAccepted \cup {d}
        /\ acceptedIds' = acceptedIds \cup {d}
        /\ accepts' = [accepts EXCEPT ![d] = IF d \in acceptedIds THEN @ ELSE @ + 1]
        /\ UNCHANGED <<sent, prep, laneVars, exec, ledger, shutdown, rec, pub, repStaged, repNative, repEnded, actReq,
                       actPub, poisonVars, demand, dones, outcome, sharedVars, childVars>>

(* FRAME_STAGED: an activation handed over before the entry was staged is    *)
(* published now; a first report, or a promotion to native, goes up to the   *)
(* staged lane.                                                              *)
Retries_Never(d) == FALSE
Retries(d) == d \in actReq
PollStaged(e) ==
    LET d == rec[e]
        native == edisp[e] = "NATIVE_PREPARED"
        reports == d \notin repStaged \/ (d \notin repNative /\ native)
    IN  /\ Polls(e) /\ estate[e] = "FRAME_STAGED" /\ (reports \/ Retries(d))
        /\ IF Retries(d) THEN PublishActivation(e) ELSE UNCHANGED <<estate, actPub>>
        /\ repStaged' = repStaged \cup {d}
        /\ repNative' = IF native THEN repNative \cup {d} ELSE repNative
        /\ laneNative' = IF reports /\ native /\ lane[d] = "staged" THEN laneNative \cup {d} ELSE laneNative
        /\ UNCHANGED <<sent, prep, lane, laneReq, laneHanded, threadVars, shutdown, rec, pub, repAccepted, repEnded, actReq,
                       poisonVars, demand, callbackVars, frameVars, gen, eaccepted, eack, edisp, eobs, stopWord, childVars>>

(* TASK_ENDED: the lane and the execution credit come back, the entry stays. *)
PollEnded(e) ==
    LET d == rec[e]
    IN  /\ Polls(e) /\ estate[e] = "TASK_ENDED" /\ d \notin repEnded
        /\ repEnded' = repEnded \cup {d}
        /\ ledger' = ledger \cup {d}
        /\ exec' = exec - 1
        /\ lane' = [lane EXCEPT ![d] = "none"]
        /\ laneReq' = laneReq \ {d} /\ laneHanded' = laneHanded \ {d} /\ laneNative' = laneNative \ {d}
        /\ UNCHANGED <<sent, prep, acceptedIds, shutdown, rec, pub, repAccepted, repStaged, repNative, actReq, actPub,
                       poisonVars, demand, callbackVars, sharedVars, childVars>>

PollTerminal(e) ==
    /\ Polls(e) /\ estate[e] \in Terminals
    /\ Completed(rec[e], Result(e))
    /\ Release(e)
    /\ UNCHANGED <<sent, prep, shutdown, poisonVars, demand, frameVars, eaccepted, eack, edisp, eobs, stopWord, childVars>>

(* poll_progress poisons the endpoint for a child found dead, whose terminal *)
(* results are kept, or for an unresolved timed-out control command.         *)
DetectDeath ==
    /\ ~poisoned /\ Occupied # {} /\ child = "exited"
    /\ poisoned' = TRUE /\ preserve' = TRUE
    /\ UNCHANGED <<sent, prep, laneVars, threadVars, shutdown, rec, pub, reportVars, demand, callbackVars, sharedVars, childVars>>

ControlTimedOut ==
    /\ "control" \in events /\ ~poisoned /\ Occupied # {}
    /\ poisoned' = TRUE
    /\ UNCHANGED <<sent, prep, laneVars, threadVars, shutdown, rec, pub, reportVars, preserve, demand, callbackVars,
                   sharedVars, childVars>>

(* A poisoned endpoint completes nothing before the child is gone: only then *)
(* can no native run write the entry or the caller's memory.                 *)
Quiesced == child = "exited"
PoisonedResult(e) == IF preserve /\ estate[e] \in Terminals /\ gen[e] = rec[e] THEN Result(e) ELSE "endpoint"
PollPoisoned(e) ==
    /\ poisoned /\ rec[e] # None /\ Quiesced
    /\ Completed(rec[e], PoisonedResult(e))
    /\ Release(e)
    /\ UNCHANGED <<sent, prep, shutdown, poisonVars, demand, frameVars, eaccepted, eack, edisp, eobs, stopWord, childVars>>

(* request_progress_stop and poisoned_progress_quiesced, repeated on every   *)
(* round; the sticky word cannot be overwritten by a control handler.        *)
RequestStop ==
    /\ ~stopWord /\ (shutdown \/ (poisoned /\ Occupied # {}))
    /\ stopWord' = TRUE
    /\ UNCHANGED <<parentVars, frameVars, entryVars, childVars>>

Stop ==
    /\ "stop" \in events /\ ~shutdown
    /\ shutdown' = TRUE
    /\ UNCHANGED <<sent, prep, laneVars, threadVars, rec, pub, reportVars, poisonVars, demand, callbackVars, sharedVars, childVars>>

(* wait_run makes the demand persistent; request_observation puts it on the  *)
(* entry, unless an authorised successor has still to be activated: the      *)
(* child would block in the observer before it saw the activation.  It is    *)
(* revisited on every progress.                                              *)
Wait(d) ==
    /\ "observe" \in events /\ d <= sent /\ dones[d] = 0 /\ d \notin demand
    /\ demand' = demand \cup {d}
    /\ UNCHANGED <<sent, prep, laneVars, threadVars, shutdown, rec, pub, reportVars, poisonVars, callbackVars, sharedVars, childVars>>

Deferred(d) ==
    \E e \in Occupied : /\ rec[e] \in prep \ actPub /\ rec[e] > d
                        /\ estate[e] \notin Terminals /\ edisp[e] # "VALIDATED_ONLY"
                        /\ Authorized(rec[e])
RequestObservation(e) ==
    /\ rec[e] \in demand /\ estate[e] \notin Terminals /\ ~eobs[e] /\ ~Deferred(rec[e])
    /\ eobs' = [eobs EXCEPT ![e] = TRUE]
    /\ UNCHANGED <<parentVars, frameVars, gen, estate, eaccepted, eack, edisp, stopWord, childVars>>

-----------------------------------------------------------------------------
(* Child: the staged frame loop and the chip run lane behind it *)

StagedRuns == {d \in Dispatches : crun[d] \in {"queued", "prepared", "launched", "ended", "broken"}}
Queue == {d \in Dispatches : crun[d] \in {"queued", "prepared", "launched"}}
AtFront(d) == d \in Queue /\ \A q \in Queue : d <= q
Crossed(d) == d \in StagedRuns /\ eaccepted[centry[d]]
Free == child = "loop" /\ taking = NoFrame /\ watching = None
SetState(d, s) == estate' = [estate EXCEPT ![centry[d]] = s]

(* Only an ordinary hand-off may launch without the parent's activation. *)
ActiveOnArrival_Any(kind) == TRUE
ActiveOnArrival(kind) == kind = "TASK_READY"

(* stage_request: a header whose generation moved on is dropped; otherwise   *)
(* the payload is copied, or found invalid, and the frame is handed back in  *)
(* two stores before the failure is published.                               *)
TakeFrame(f, ok) ==
    LET h == header[f]
    IN  /\ Free /\ fstate[f] \in {"TASK_READY", "PREPARE_READY"} /\ (ok \/ "bad" \in events)
        /\ IF gen[h.entry] # h.gen
           THEN fstate' = [fstate EXCEPT ![f] = "IDLE"] /\ UNCHANGED <<taking, crun, centry, activated>>
           ELSE /\ taking' = [step |-> 1, frame |-> f, run |-> h.gen, ok |-> ok]
                /\ crun' = [crun EXCEPT ![h.gen] = "taken"]
                /\ centry' = [centry EXCEPT ![h.gen] = h.entry]
                /\ activated' = IF ActiveOnArrival(fstate[f]) THEN activated \cup {h.gen} ELSE activated
                /\ UNCHANGED fstate
        /\ UNCHANGED <<parentVars, header, entryVars, stopWord, child, watching, swept, lpub, epub, verdict>>

(* _return_request_frame: the frame's state word, then the acknowledgement. *)
HandBack_AckFirst == <<"ack", "idle">>
HandBack == <<"idle", "ack">>
ReturnFrame ==
    LET store == HandBack[taking.step]
    IN  /\ child = "loop" /\ taking.step \in 1 .. 2
        /\ fstate' = IF store = "idle" THEN [fstate EXCEPT ![taking.frame] = "IDLE"] ELSE fstate
        /\ eack' = IF store = "ack" THEN [eack EXCEPT ![centry[taking.run]] = taking.run] ELSE eack
        /\ taking' = IF taking.step = 2 /\ taking.ok THEN NoFrame ELSE [taking EXCEPT !.step = @ + 1]
        /\ UNCHANGED <<parentVars, header, gen, estate, eaccepted, edisp, eobs, stopWord, child, watching, swept, runVars, verdict>>

(* The child is finished with a run: one terminal store, its last access. *)
Publishes(d, result) ==
    /\ SetState(d, IF result = "ok" THEN "TASK_DONE" ELSE "TASK_FAILED")
    /\ verdict' = [verdict EXCEPT ![d] = result]
    /\ crun' = [crun EXCEPT ![d] = "over"]
    /\ activated' = activated \ {d} /\ lpub' = lpub \ {d} /\ epub' = epub \ {d}
    /\ UNCHANGED centry

RefuseRequest ==
    /\ child = "loop" /\ taking.step = 3
    /\ Publishes(taking.run, "bad")
    /\ taking' = NoFrame
    /\ UNCHANGED <<parentVars, frameVars, gen, eaccepted, eack, edisp, eobs, stopWord, child, watching, swept>>

(* submit_run, lowest dispatch first: the lane queues the run and may        *)
(* prepare it beside a launched predecessor; staging is published, unless    *)
(* the submission fails.                                                     *)
Predecessor(d) == {q \in Queue : q < d}
MayPrepare(d) == Predecessor(d) # {} /\ crun[Max(Predecessor(d))] = "launched"
NextTaken == Min({d \in Dispatches : crun[d] = "taken"})
SubmitRun(disposition) ==
    LET d == NextTaken
    IN  /\ Free /\ \E q \in Dispatches : crun[q] = "taken"
        /\ disposition = "NATIVE_PREPARED" => MayPrepare(d)
        /\ crun' = [crun EXCEPT ![d] = IF disposition = "NATIVE_PREPARED" THEN "prepared" ELSE "queued"]
        /\ edisp' = [edisp EXCEPT ![centry[d]] = disposition]
        /\ SetState(d, "FRAME_STAGED")
        /\ UNCHANGED <<parentVars, frameVars, gen, eaccepted, eack, eobs, stopWord, loopVars, centry, activated, lpub, epub,
                       verdict>>

SubmitRunFails ==
    /\ "bad" \in events /\ Free /\ \E q \in Dispatches : crun[q] = "taken"
    /\ Publishes(NextTaken, "bad")
    /\ UNCHANGED <<parentVars, frameVars, gen, eaccepted, eack, edisp, eobs, stopWord, loopVars>>

(* activate_pending_runs *)
Activate(d) ==
    /\ Free /\ d \in StagedRuns \ activated /\ estate[centry[d]] = "ACTIVATE" /\ gen[centry[d]] = d
    /\ activated' = activated \cup {d}
    /\ UNCHANGED <<parentVars, sharedVars, loopVars, crun, centry, lpub, epub, verdict>>

(* The lane: a queued run behind a launched one may be prepared; an          *)
(* activated run launches at the front, or joined behind launched runs when  *)
(* it is prepared.  The launch stores the acceptance word.                   *)
LanePrepare(d) ==
    /\ child \in {"loop", "close"} /\ crun[d] = "queued" /\ MayPrepare(d)
    /\ crun' = [crun EXCEPT ![d] = "prepared"]
    /\ UNCHANGED <<parentVars, sharedVars, loopVars, centry, activated, lpub, epub, verdict>>

Launchable(d) == AtFront(d) \/ (crun[d] = "prepared" /\ \A q \in Predecessor(d) : crun[q] = "launched")
LaneLaunch(d) ==
    /\ child \in {"loop", "close"} /\ crun[d] \in {"queued", "prepared"} /\ d \in activated /\ Launchable(d)
    /\ crun' = [crun EXCEPT ![d] = "launched"]
    /\ eaccepted' = [eaccepted EXCEPT ![centry[d]] = TRUE]
    /\ UNCHANGED <<parentVars, frameVars, gen, estate, eack, edisp, eobs, stopWord, loopVars, centry, activated, lpub, epub,
                   verdict>>

(* The device retires launched runs in order; a failed one ends in the lane. *)
LaneEnd(d) ==
    /\ child \in {"loop", "close"} /\ AtFront(d) /\ crun[d] = "launched"
    /\ crun' = [crun EXCEPT ![d] = "ended"]
    /\ UNCHANGED <<parentVars, sharedVars, loopVars, centry, activated, lpub, epub, verdict>>

LaneBreak(d) ==
    /\ "bad" \in events /\ child \in {"loop", "close"} /\ AtFront(d)
    /\ crun' = [crun EXCEPT ![d] = "broken"]
    /\ UNCHANGED <<parentVars, sharedVars, loopVars, centry, activated, lpub, epub, verdict>>

(* The progress pass over the staged runs. *)
PublishPromotion(d) ==
    /\ Free /\ crun[d] \in {"prepared", "launched"} /\ edisp[centry[d]] = "VALIDATED_ONLY" /\ gen[centry[d]] = d
    /\ edisp' = [edisp EXCEPT ![centry[d]] = "NATIVE_PREPARED"]
    /\ UNCHANGED <<parentVars, frameVars, gen, estate, eaccepted, eack, eobs, stopWord, childVars>>

PublishLaunched(d) ==
    /\ Free /\ Crossed(d) /\ d \notin lpub
    /\ SetState(d, "TASK_LAUNCHED")
    /\ lpub' = lpub \cup {d}
    /\ UNCHANGED <<parentVars, frameVars, gen, eaccepted, eack, edisp, eobs, stopWord, loopVars, crun, centry, activated, epub,
                   verdict>>

PublishEnded(d) ==
    /\ Free /\ crun[d] = "ended" /\ d \in lpub \ epub
    /\ SetState(d, "TASK_ENDED")
    /\ epub' = epub \cup {d}
    /\ UNCHANGED <<parentVars, frameVars, gen, eaccepted, eack, edisp, eobs, stopWord, loopVars, crun, centry, activated, lpub,
                   verdict>>

(* One done() call launches the run and finds it finished: the end is        *)
(* published before the launch is.                                           *)
PublishEndedAtOnce(d) ==
    /\ "fast" \in events /\ Free /\ AtFront(d) /\ crun[d] \in {"queued", "prepared"} /\ d \in activated
    /\ crun' = [crun EXCEPT ![d] = "ended"]
    /\ eaccepted' = [eaccepted EXCEPT ![centry[d]] = TRUE]
    /\ SetState(d, "TASK_ENDED")
    /\ epub' = epub \cup {d}
    /\ UNCHANGED <<parentVars, frameVars, gen, eack, edisp, eobs, stopWord, loopVars, centry, activated, lpub, verdict>>

PublishBroken(d) ==
    /\ Free /\ crun[d] = "broken"
    /\ Publishes(d, "bad")
    /\ UNCHANGED <<parentVars, frameVars, gen, eaccepted, eack, edisp, eobs, stopWord, loopVars>>

(* The delivery pass, after every new run was submitted: a requested result, *)
(* or a retained one when nothing executes or every entry is occupied, and   *)
(* no staged run still waits for its activation.                             *)
PendingActivation == \E q \in StagedRuns : q \notin activated
LiveExecution == \E q \in StagedRuns : Crossed(q) /\ q \notin epub
Pressure == \A e \in Entries : gen[e] # None
Requested(d) == eobs[centry[d]]
ActivationsConsumed == \A q \in StagedRuns \ activated : estate[centry[q]] # "ACTIVATE"
Delivers(d) ==
    /\ Free /\ Crossed(d) /\ gen[centry[d]] = d /\ \A q \in Dispatches : crun[q] # "taken"
    /\ \/ Requested(d) /\ ActivationsConsumed
       \/ ~Requested(d) /\ d \in epub /\ ~PendingActivation /\ (~LiveExecution \/ Pressure)
Verdicts(d) == IF crun[d] = "broken" THEN {"bad"} ELSE IF "bad" \in events THEN {"ok", "bad"} ELSE {"ok"}

Deliver(d) ==
    /\ Delivers(d) /\ d \in epub
    /\ \E result \in Verdicts(d) : Publishes(d, result)
    /\ UNCHANGED <<parentVars, frameVars, gen, eaccepted, eack, edisp, eobs, stopWord, loopVars>>

(* A requested run that has not ended: the child blocks in its wait. *)
Observe(d) ==
    /\ Delivers(d) /\ d \notin epub
    /\ watching' = d
    /\ UNCHANGED <<parentVars, sharedVars, child, taking, swept, runVars, verdict>>

Observed ==
    /\ child = "loop" /\ watching # None /\ crun[watching] \in {"ended", "broken"}
    /\ \E result \in Verdicts(watching) : Publishes(watching, result)
    /\ watching' = None
    /\ UNCHANGED <<parentVars, frameVars, gen, eaccepted, eack, edisp, eobs, stopWord, child, taking, swept>>

(* The loop is left for the stop word, for the child's own reasons, or by a  *)
(* crash, which runs no cleanup.                                             *)
Leave ==
    /\ Free /\ (stopWord \/ "halt" \in events)
    /\ child' = "close"
    /\ UNCHANGED <<parentVars, sharedVars, taking, watching, swept, runVars, verdict>>

Crash ==
    /\ "crash" \in events /\ child # "exited"
    /\ child' = "exited" /\ taking' = NoFrame /\ watching' = None
    /\ UNCHANGED <<parentVars, sharedVars, swept, runVars, verdict>>

(* finally: the lane is closed, which waits for the activated runs and drops *)
(* the others; each staged run then gets its own terminal state.             *)
Drained == Queue \cap activated = {}
CloseRun(d) ==
    /\ child = "close" /\ Drained /\ d \in StagedRuns
    /\ \E result \in IF crun[d] \in {"ended", "broken"} THEN Verdicts(d) ELSE {"bad"} : Publishes(d, result)
    /\ UNCHANGED <<parentVars, frameVars, gen, eaccepted, eack, edisp, eobs, stopWord, loopVars>>

(* Then every occupied entry without one, told by its generation: a request  *)
(* published and never staged still reads IDLE.                              *)
Unserved(e) == gen[e] # None /\ estate[e] \notin Terminals
Sweep ==
    LET e == swept + 1
    IN  /\ child = "close" /\ StagedRuns = {} /\ swept < Cardinality(Entries)
        /\ swept' = e
        /\ estate' = IF Unserved(e) THEN [estate EXCEPT ![e] = "TASK_FAILED"] ELSE estate
        /\ verdict' = IF Unserved(e) THEN [verdict EXCEPT ![gen[e]] = "bad"] ELSE verdict
        /\ UNCHANGED <<parentVars, frameVars, gen, eaccepted, eack, edisp, eobs, stopWord, child, taking, watching, runVars>>

Exit ==
    /\ child = "close" /\ swept = Cardinality(Entries)
    /\ child' = "exited"
    /\ UNCHANGED <<parentVars, sharedVars, taking, watching, swept, runVars, verdict>>

-----------------------------------------------------------------------------
Parent ==
    \/ \E e \in Entries : \/ ActivateProgress(e) \/ PollAccepted(e) \/ PollStaged(e) \/ PollEnded(e)
                          \/ PollTerminal(e) \/ PollPoisoned(e) \/ RequestObservation(e)
    \/ \E d \in Dispatches : ActivatePrepared(d) \/ AuthorizeStagedLaunch(d)
    \/ DetectDeath \/ RequestStop
Child ==
    \/ \E f \in Frames : TakeFrame(f, TRUE)
    \/ ReturnFrame \/ RefuseRequest \/ Observed \/ Sweep \/ Exit \/ (stopWord /\ Leave)
    \/ \E disposition \in {"VALIDATED_ONLY", "NATIVE_PREPARED"} : SubmitRun(disposition)
    \/ \E d \in Dispatches :
          \/ Activate(d) \/ LanePrepare(d) \/ LaneLaunch(d) \/ LaneEnd(d)
          \/ PublishPromotion(d) \/ PublishLaunched(d) \/ PublishEnded(d) \/ PublishBroken(d)
          \/ Deliver(d) \/ Observe(d) \/ CloseRun(d)
Environment ==
    \/ \E staging \in BOOLEAN : Submit(staging) \/ SubmitRejected(staging)
    \/ \E d \in Dispatches : Wait(d) \/ LaneBreak(d) \/ PublishEndedAtOnce(d)
    \/ \E f \in Frames : TakeFrame(f, FALSE)
    \/ ControlTimedOut \/ Stop \/ SubmitRunFails \/ Crash \/ Leave
Next == Parent \/ Child \/ Environment

Spec == Init /\ [][Next]_vars

-----------------------------------------------------------------------------
(* Properties *)

LaneStates == {"none", "active", "staged"}
EntryStates == {"IDLE", "FRAME_STAGED", "ACTIVATE", "TASK_LAUNCHED", "TASK_ENDED"} \cup Terminals
RunStates == {"none", "taken", "queued", "prepared", "launched", "ended", "broken", "over"}

(* Every variable has its type, at most one dispatch holds the active lane,  *)
(* and what is remembered of a dispatch belongs to a lane or an entry.       *)
TypeOK ==
    /\ sent \in 0 .. MaxDispatches /\ prep \subseteq Dispatches
    /\ lane \in [Dispatches -> LaneStates] /\ Cardinality(Active) <= 1
    /\ UNION {laneReq, laneHanded, laneNative} \subseteq Active \cup Staged
    /\ exec \in Int /\ ledger \subseteq Dispatches /\ acceptedIds \subseteq Dispatches
    /\ rec \in [Entries -> 0 .. MaxDispatches] /\ pub \in [Frames -> 0 .. MaxDispatches]
    /\ UNION {repAccepted, repStaged, repEnded, actReq} \subseteq {rec[e] : e \in Occupied}
    /\ repNative \subseteq repStaged /\ actPub \subseteq actReq /\ demand \subseteq Dispatches /\ events \in Scenarios
    /\ {shutdown, poisoned, preserve, stopWord} \subseteq BOOLEAN /\ (preserve => poisoned)
    /\ fstate \in [Frames -> {"IDLE", "TASK_READY", "PREPARE_READY"}]
    /\ header \in [Frames -> [entry : Entries, gen : 0 .. MaxDispatches]]
    /\ gen \in [Entries -> 0 .. MaxDispatches] /\ estate \in [Entries -> EntryStates]
    /\ eaccepted \in [Entries -> BOOLEAN] /\ eack \in [Entries -> 0 .. MaxDispatches]
    /\ edisp \in [Entries -> {"NONE", "VALIDATED_ONLY", "NATIVE_PREPARED"}] /\ eobs \in [Entries -> BOOLEAN]
    /\ child \in {"loop", "close", "exited"} /\ watching \in 0 .. MaxDispatches /\ swept \in 0 .. Cardinality(Entries)
    /\ taking \in [step : 0 .. 3, frame : Frames, run : 0 .. MaxDispatches, ok : BOOLEAN]
    /\ crun \in [Dispatches -> RunStates] /\ centry \in [Dispatches -> Entries]
    /\ UNION {activated, lpub, epub} \subseteq Dispatches
    /\ verdict \in [Dispatches -> {"none", "ok", "bad"}]
    /\ accepts \in [Dispatches -> Nat] /\ dones \in [Dispatches -> Nat]
    /\ outcome \in [Dispatches -> {"none", "ok", "task", "endpoint"}]

(* The Scheduler hears of a dispatch's acceptance once, before or with its   *)
(* completion, and of its completion once, whichever of the ACCEPTED event,  *)
(* the terminal result, a poisoned endpoint, a rejected or an unpublished    *)
(* submission got there (finish_progress_dispatch, complete_unpublished).    *)
ReportedOnce == \A d \in Dispatches : accepts[d] <= 1 /\ dones[d] <= accepts[d]

(* Acceptance is the launch of this dispatch, never the word left by an      *)
(* earlier occupant of the entry (submit_progress clears it).                *)
AcceptedIsLaunched ==
    \A d \in Dispatches : accepts[d] > dones[d] => crun[d] \in {"launched", "ended", "broken", "over"}

(* A run the child still holds keeps its entry: its dispatch is not reported *)
(* complete, also when the endpoint is poisoned, so neither the entry nor    *)
(* the caller's memory is given away under a native run.                     *)
HeldRunOwnsEntry ==
    child # "exited" => \A d \in StagedRuns : dones[d] = 0 /\ rec[centry[d]] = d /\ gen[centry[d]] = d

(* A dispatch completes with success or a task failure only as the child's   *)
(* own result for it, and never with a result of another occupant.           *)
ResultIsTheChilds ==
    \A d \in Dispatches : /\ outcome[d] = "ok" => verdict[d] = "ok"
                          /\ outcome[d] = "task" => verdict[d] = "bad"

(* What the Scheduler is told is true: acceptance and completion once each,  *)
(* the launch of this dispatch, and the child's own result for it.           *)
ReportsTrue == ReportedOnce /\ AcceptedIsLaunched /\ ResultIsTheChilds

(* A published request stays readable until the child takes it, although the *)
(* child stores into frames it hands back and the parent refills them.       *)
RequestIntact ==
    child = "loop" => \A e \in Occupied : crun[rec[e]] = "none" =>
        \E f \in Frames : pub[f] = rec[e] /\ fstate[f] # "IDLE" /\ header[f] = [entry |-> e, gen |-> rec[e]]

(* Frames and entries have one owner at a time: a run the child holds keeps  *)
(* its entry, and a request stays in its frame until the child took it.      *)
SharedWordsOwned == HeldRunOwnsEntry /\ RequestIntact

(* Runs reach the device in dispatch order: whatever order the child scanned *)
(* the frames in, a launched run has no earlier dispatch left to launch.     *)
DeviceOrder ==
    \A d \in Dispatches : crun[d] \in {"launched", "ended"} =>
        \A q \in 1 .. d - 1 : dones[q] > 0 \/ crun[q] \in {"launched", "ended", "broken", "over"}

(* The execution credit counts the occupied entries whose end was not        *)
(* reported, however END and the terminal result are separated; so a free    *)
(* entry always goes with a free credit.                                     *)
CreditExact ==
    /\ ledger = repEnded
    /\ exec = Cardinality({e \in Occupied : rec[e] \notin ledger})

(* Nobody waits for everybody: when neither the Scheduler's progress loop    *)
(* nor the child nor the device can take a step, every dispatch was reported *)
(* complete, whatever failed, stopped or died on the way.  An activation     *)
(* asked for before its entry was staged is not lost, a request behind the   *)
(* closing sweep is found, a retained result is delivered.  (Behind an end   *)
(* the parent missed, see EndReturnsCredit, only once that run is waited     *)
(* for.)  Steps never undo one another, so loops that keep turning get there.*)
Quiescent == ~ENABLED (Child \/ Parent)
Missed == {q \in epub : estate[centry[q]] = "TASK_LAUNCHED"}
EveryDispatchCompletes ==
    Quiescent => \A d \in 1 .. sent : dones[d] > 0 \/ \E q \in Missed \ demand : q <= d

(* "Each member's physical END returns its endpoint lane credit": an end the *)
(* child published does not stay unseen by the parent.                       *)
EndReturnsCredit == Quiescent => \A d \in epub : lane[d] = "none"
=============================================================================
