---------------------------- MODULE CreditGate -----------------------------
(***************************************************************************)
(* Waiting for diagnostic credit, and closing while somebody waits.        *)
(*                                                                         *)
(* A chip run at the front of its lane that a collector has no capacity    *)
(* for is parked on the runtime's credit signal (DiagnosticCreditSignal),  *)
(* by threads that drop the lane's mutex for it.  The signal is code and   *)
(* data of the runtime library, which finalize unloads; the right to be    *)
(* inside it is leased by the gate (CreditCallGate), which outlives it.    *)
(*                                                                         *)
(* One step is one critical section or one notify.  A thread asleep on a   *)
(* condition variable is in asleep until a notify takes it out, and then   *)
(* evaluates its predicate again.                                          *)
(***************************************************************************)
EXTENDS Naturals, FiniteSets

CONSTANTS
    Waiters,      \* threads in ChipRun::wait_until or drain
    Closers,      \* threads in ChipRunLane::close
    Finalizer,    \* the one of them that is ChipWorker::finalize
    MaxReleases   \* times a collector gives capacity back

ASSUME ThreadsAssumption ==
    /\ IsFiniteSet(Waiters) /\ IsFiniteSet(Closers)
    /\ Waiters \cap Closers = {} /\ Finalizer \in Closers
ASSUME ReleasesAssumption == MaxReleases \in Nat

Threads == Waiters \cup Closers

VARIABLES
    pc, asleep,    \* where every thread is, and who sleeps on a condition variable
    seen,          \* the generation a waiter took for its attempt or its wait
    mu,            \* holder of the lane's mutex, or Nobody
    gate,          \* [state, calls]; the entries are attached until Detached
    signal,        \* [gen, cancelled]
    room, owed,    \* a collector has capacity; released, but not yet advanced
    run, closed,   \* the front run [phase, gen, late]; the lane is closed
    loaded, releases

laneVars == <<mu, run, closed>>
signalVars == <<signal, room, owed, releases>>
vars == <<pc, asleep, seen, laneVars, gate, signalVars, loaded>>

Nobody == "nobody"

Init ==
    /\ pc = [t \in Threads |-> "start"] /\ asleep = {}
    /\ seen = [w \in Waiters |-> 0]
    /\ mu = Nobody
    /\ gate = [state |-> "Open", calls |-> 0]
    /\ signal = [gen |-> 1, cancelled |-> FALSE]
    /\ room = FALSE /\ owed = FALSE
    /\ run = [phase |-> "PREPARED", gen |-> 0, late |-> FALSE]
    /\ closed = FALSE /\ loaded = TRUE /\ releases = 0

Go(t, to) == pc' = [pc EXCEPT ![t] = to]

-----------------------------------------------------------------------------
(* CreditCall: its constructor admits or refuses, its destructor gives the   *)
(* lease back and then, outside the gate's mutex, notifies a drain.          *)
Admit_Always(t, in, refused) ==
    IF gate.state # "Detached"
    THEN Go(t, in) /\ gate' = [gate EXCEPT !.calls = @ + 1]
    ELSE Go(t, refused) /\ gate' = gate
Admit(t, in, refused) ==
    IF gate.state = "Open"
    THEN Go(t, in) /\ gate' = [gate EXCEPT !.calls = @ + 1]
    ELSE Go(t, refused) /\ gate' = gate

GiveBack(t, notify, next) ==
    /\ gate' = [gate EXCEPT !.calls = @ - 1]
    /\ Go(t, IF gate.calls = 1 THEN notify ELSE next)

NotifyIdle(t, next) ==
    /\ asleep' = {c \in asleep : pc[c] # "draining"}
    /\ Go(t, next)

-----------------------------------------------------------------------------
(* A waiter: progress() under the lane's mutex.  The generation is read      *)
(* before the launch is attempted.                                           *)
Begin(w) ==
    /\ pc[w] = "start" /\ mu = Nobody
    /\ IF run.phase = "PREPARED"
       THEN mu' = w /\ Go(w, "read")
       ELSE mu' = mu /\ Go(w, "done")
    /\ UNCHANGED <<asleep, seen, run, closed, gate, signalVars, loaded>>

ReadAdmit(w) ==
    /\ pc[w] = "read"
    /\ Admit(w, "in_generation", "attempt")
    /\ seen' = [seen EXCEPT ![w] = 0]
    /\ UNCHANGED <<asleep, laneVars, signalVars, loaded>>

ReadGeneration(w) ==
    /\ pc[w] = "in_generation"
    /\ seen' = [seen EXCEPT ![w] = signal.gen]
    /\ Go(w, "generation_read")
    /\ UNCHANGED <<asleep, laneVars, gate, signalVars, loaded>>

ReadReturn(w) ==
    /\ pc[w] = "generation_read"
    /\ GiveBack(w, "notify_read", "attempt")
    /\ UNCHANGED <<asleep, seen, laneVars, signalVars, loaded>>

ReadNotify(w) ==
    /\ pc[w] = "notify_read"
    /\ NotifyIdle(w, "attempt")
    /\ UNCHANGED <<seen, laneVars, gate, signalVars, loaded>>

(* launch_front, note_credit_blocked, fail_if_credit_deadline_passed.        *)
Attempt(w) ==
    /\ pc[w] = "attempt"
    /\ mu' = Nobody
    /\ IF room
       THEN run' = [run EXCEPT !.phase = "LAUNCHED"] /\ room' = FALSE /\ Go(w, "done")
       ELSE /\ run' = [run EXCEPT !.gen = seen[w], !.phase = IF run.late THEN "TERMINAL" ELSE @]
            /\ room' = room
            /\ Go(w, IF run.late THEN "done" ELSE "park")
    /\ UNCHANGED <<asleep, seen, closed, gate, signal, owed, releases, loaded>>

(* park_for_credit: the generation is the run's, read again under the mutex. *)
Park_Fresh(w) ==
    /\ pc[w] = "park" /\ mu = Nobody
    /\ seen' = [seen EXCEPT ![w] = signal.gen]
    /\ Go(w, "admit")
    /\ UNCHANGED <<asleep, laneVars, gate, signalVars, loaded>>
Park(w) ==
    /\ pc[w] = "park" /\ mu = Nobody
    /\ seen' = [seen EXCEPT ![w] = run.gen]
    /\ Go(w, "admit")
    /\ UNCHANGED <<asleep, laneVars, gate, signalVars, loaded>>

WaitAdmit(w) ==
    /\ pc[w] = "admit"
    /\ Admit(w, "in_wait", "refused")
    /\ UNCHANGED <<asleep, seen, laneVars, signalVars, loaded>>

(* wait_for: evaluated on entry and at every wake-up. *)
Wait(w) ==
    /\ pc[w] = "in_wait" \/ (pc[w] = "sleeping" /\ w \notin asleep)
    /\ IF signal.cancelled \/ signal.gen # seen[w]
       THEN Go(w, "wait_over") /\ asleep' = asleep
       ELSE Go(w, "sleeping") /\ asleep' = asleep \cup {w}
    /\ UNCHANGED <<seen, laneVars, gate, signalVars, loaded>>

(* The budget elapses: the caller's, or the run's own. *)
WaitTimeout(w) ==
    /\ pc[w] = "sleeping"
    /\ Go(w, "wait_over") /\ asleep' = asleep \ {w}
    /\ UNCHANGED <<seen, laneVars, gate, signalVars, loaded>>

WaitReturn(w) ==
    /\ pc[w] = "wait_over"
    /\ GiveBack(w, "notify_wait", "relock")
    /\ UNCHANGED <<asleep, seen, laneVars, signalVars, loaded>>

WaitNotify(w) ==
    /\ pc[w] = "notify_wait"
    /\ NotifyIdle(w, "relock")
    /\ UNCHANGED <<seen, laneVars, gate, signalVars, loaded>>

(* A refused wait brings the run's deadline to now. *)
Relock(w) ==
    /\ pc[w] \in {"relock", "refused"} /\ mu = Nobody
    /\ run' = [run EXCEPT !.late = @ \/ pc[w] = "refused"]
    /\ Go(w, "start")
    /\ UNCHANGED <<asleep, seen, mu, closed, gate, signalVars, loaded>>

(* The run's own deadline passes. *)
DeadlinePasses ==
    /\ run.phase = "PREPARED" /\ run.gen # 0 /\ ~run.late
    /\ run' = [run EXCEPT !.late = TRUE]
    /\ UNCHANGED <<pc, asleep, seen, mu, closed, gate, signalVars, loaded>>

-----------------------------------------------------------------------------
(* Collectors: a writer releases capacity under its own lock and advances    *)
(* the generation afterwards; another run may take the capacity first.       *)
Release ==
    /\ releases < MaxReleases /\ ~room /\ ~owed
    /\ room' = TRUE /\ owed' = TRUE /\ releases' = releases + 1
    /\ UNCHANGED <<pc, asleep, seen, laneVars, gate, signal, loaded>>

Advance ==
    /\ owed /\ owed' = FALSE
    /\ signal' = [signal EXCEPT !.gen = @ + 1]
    /\ asleep' = asleep \ Waiters
    /\ UNCHANGED <<pc, seen, laneVars, gate, room, releases, loaded>>

TakenByOther ==
    /\ room /\ room' = FALSE
    /\ UNCHANGED <<pc, asleep, seen, laneVars, gate, signal, owed, releases, loaded>>

-----------------------------------------------------------------------------
(* close_credit_gate.  The finalizer has stopped the lane's admission, which *)
(* abandons a run that is not launched.                                      *)
StopAdmission ==
    /\ pc[Finalizer] = "start" /\ mu = Nobody
    /\ run' = [run EXCEPT !.phase = IF @ = "PREPARED" THEN "TERMINAL" ELSE @]
    /\ Go(Finalizer, "claim")
    /\ UNCHANGED <<asleep, seen, mu, closed, gate, signalVars, loaded>>

(* close validates the execution context under the mutex, and lets it go. *)
Validate(c) ==
    /\ c # Finalizer /\ pc[c] = "start" /\ mu = Nobody
    /\ Go(c, "claim")
    /\ UNCHANGED <<asleep, seen, laneVars, gate, signalVars, loaded>>

Claim_NoJoin(c) ==
    /\ pc[c] = "claim" /\ asleep' = asleep
    /\ IF gate.state # "Open"
       THEN Go(c, "drain_lane") /\ gate' = gate
       ELSE Go(c, "cancel") /\ gate' = [state |-> "Closing", calls |-> gate.calls + 1]
    /\ UNCHANGED <<seen, laneVars, signalVars, loaded>>
Claim(c) ==
    /\ pc[c] = "claim"
    /\ CASE gate.state = "Detached" -> Go(c, "drain_lane") /\ UNCHANGED <<asleep, gate>>
         [] gate.state = "Closing" -> Go(c, "following") /\ asleep' = asleep \cup {c} /\ gate' = gate
         [] OTHER -> /\ Go(c, "cancel") /\ asleep' = asleep
                     /\ gate' = [state |-> "Closing", calls |-> gate.calls + 1]
    /\ UNCHANGED <<seen, laneVars, signalVars, loaded>>

(* cancel: the latch and the generation under the signal's mutex, then the   *)
(* notify.                                                                   *)
Cancel(c) ==
    /\ pc[c] = "cancel"
    /\ signal' = [gen |-> signal.gen + 1, cancelled |-> TRUE]
    /\ Go(c, "cancel_notify")
    /\ UNCHANGED <<asleep, seen, laneVars, gate, room, owed, releases, loaded>>

CancelNotify_None(c) ==
    /\ pc[c] = "cancel_notify"
    /\ Go(c, "drain") /\ asleep' = asleep
    /\ UNCHANGED <<seen, laneVars, gate, signalVars, loaded>>
CancelNotify(c) ==
    /\ pc[c] = "cancel_notify"
    /\ asleep' = asleep \ Waiters
    /\ Go(c, "drain")
    /\ UNCHANGED <<seen, laneVars, gate, signalVars, loaded>>

(* The drain: with no call in flight, detach and wake the followers.         *)
Drain(c) ==
    /\ pc[c] = "drain" \/ (pc[c] = "draining" /\ c \notin asleep)
    /\ LET left == IF pc[c] = "drain" THEN gate.calls - 1 ELSE gate.calls
       IN  IF left = 0
           THEN /\ gate' = [state |-> "Detached", calls |-> 0]
                /\ asleep' = {t \in asleep : pc[t] # "following"}
                /\ Go(c, "drain_lane")
           ELSE /\ gate' = [gate EXCEPT !.calls = left]
                /\ asleep' = asleep \cup {c}
                /\ Go(c, "draining")
    /\ UNCHANGED <<seen, laneVars, signalVars, loaded>>

Follow(c) ==
    /\ pc[c] = "following" /\ c \notin asleep /\ gate.state = "Detached"
    /\ Go(c, "drain_lane")
    /\ UNCHANGED <<asleep, seen, laneVars, gate, signalVars, loaded>>

(* close under the mutex: the first one drains the lane.  A blocked front    *)
(* gets one more attempt, then its deadline is now.                          *)
DrainLane(c) ==
    /\ pc[c] = "drain_lane" /\ mu = Nobody
    /\ closed' = TRUE
    /\ run' = [run EXCEPT !.phase = IF @ # "PREPARED" THEN @
                                    ELSE IF room THEN "LAUNCHED" ELSE "TERMINAL"]
    /\ room' = (room /\ run.phase # "PREPARED")
    /\ Go(c, IF c = Finalizer THEN "unload" ELSE "done")
    /\ UNCHANGED <<asleep, seen, mu, gate, signal, owed, releases, loaded>>

(* finalize destroys the device context and unloads the runtime. *)
Unload ==
    /\ pc[Finalizer] = "unload"
    /\ loaded' = FALSE
    /\ Go(Finalizer, "done")
    /\ UNCHANGED <<asleep, seen, laneVars, gate, signalVars>>

-----------------------------------------------------------------------------
WaiterNext(w) ==
    \/ Begin(w) \/ ReadAdmit(w) \/ ReadGeneration(w) \/ ReadReturn(w) \/ ReadNotify(w)
    \/ Attempt(w) \/ Park(w) \/ WaitAdmit(w) \/ Wait(w) \/ WaitReturn(w) \/ WaitNotify(w)
    \/ Relock(w)
CloserNext(c) ==
    \/ Validate(c) \/ Claim(c) \/ Cancel(c) \/ CancelNotify(c) \/ Drain(c) \/ Follow(c)
    \/ DrainLane(c)

Next ==
    \/ \E w \in Waiters : WaiterNext(w) \/ WaitTimeout(w)
    \/ \E c \in Closers : CloserNext(c)
    \/ StopAdmission \/ Unload \/ Release \/ Advance \/ TakenByOther \/ DeadlinePasses

Spec == Init /\ [][Next]_vars

(* Threads run, and a writer that released advances.  No wait has to time    *)
(* out, and no thread has to win a contended mutex.                          *)
Fairness ==
    /\ \A w \in Waiters : WF_vars(WaiterNext(w))
    /\ \A c \in Closers : WF_vars(CloserNext(c))
    /\ WF_vars(Unload) /\ WF_vars(Advance)

FairSpec == Spec /\ Fairness

-----------------------------------------------------------------------------
(* A lease is out from the constructor of a CreditCall, or the claim of the  *)
(* gate, to the destructor, or the owner's own decrement.                    *)
LeasePcs == {"in_generation", "generation_read", "in_wait", "sleeping", "wait_over",
             "cancel", "cancel_notify", "drain"}
Leased(t) == pc[t] \in LeasePcs
Holders == {t \in Threads : Leased(t)}

Entries == INSTANCE LeasedEntries WITH state <- gate.state, leased <- Holders

(* The gate is what its callers take it for: entries are leased while it is  *)
(* open and detached once, with no lease out, whatever the interleaving of   *)
(* CreditCall's constructor and destructor with close_credit_gate.           *)
GateLeasesEntries == Entries!Spec

(* No thread is inside the runtime's credit code once finalize has unloaded  *)
(* it: not before its first instruction, not asleep in it, and not in its    *)
(* return path.                                                              *)
NobodyInUnloadedCode == \A t \in Threads : Leased(t) => loaded

(* A waiter never sleeps through capacity: asleep on the current generation, *)
(* it saw no capacity free, unless a release is about to advance.            *)
NoSleepOverCredit ==
    \A w \in Waiters : (w \in asleep /\ signal.gen = seen[w]) => ~room \/ owed

(* Once a close has claimed the gate everybody gets out, although no parked  *)
(* waiter's budget ever runs out: the owner, the closes that join it, and    *)
(* every thread waiting for the run.                                         *)
CloseReturns ==
    gate.state # "Open"
        ~> \A t \in Threads : pc[t] = "done" \/ (t \in Closers /\ pc[t] = "start")
=============================================================================
