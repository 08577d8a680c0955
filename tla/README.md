# Verification of the hierarchical runtime

TLA+ models of the host side of simpler: the Orchestrator, Scheduler, Ring, tensor map, worker
threads, mailbox and MPI group endpoints under `src/src/common/hierarchical`, the child loop in
`src/python/simpler/worker.py`, the message queue between a worker and a chip, and the diagnostic
credit gate under `src/src/common/worker`. TLC checks small instances; TLAPS proves central
invariants of six components for every value of their constants. `PROJECT.json` maps every
definition to the lines it models.

## The system

A user thread opens a *run*, builds a graph of tasks in a callback, closes the run and waits for
it. Runs queue in a FIFO; a run executes once it is the FIFO's head and owns a *set* of device
resources (a lease), and a successor may be staged, and launched early, behind it. One Scheduler
thread moves tasks from ready to dispatched and applies completions. A next-level worker is a
forked child behind a shared-memory mailbox, or one rank of an MPI job behind a group mailbox.

| Component | Source | Module | Operations | What makes it hard |
|---|---|---|---|---|
| Task graph | `orchestrator.cpp`, `scheduler.cpp`, `types.cpp`, `scope.cpp` | TaskDag | alloc, submit, scopes, close, fail, cancel, claim, complete, poison, consume | two threads on every slot, exceptions half way, counters that must meet exactly |
| Dependency inference | `orchestrator.cpp`, `tensormap.cpp`, `buffer.h` | TensorMap, TensorOverlap | walk, lookup, insert, erase; overlap of two views | entries superseded and erased while a task is being built |
| Ring | `ring.cpp` | HeapRing | alloc (waits), release, shutdown, compaction | wrap-around, out-of-order release, two mutexes, wake-ups |
| Run admission | `orchestrator.cpp`, `run_resource_arena.h`, `scheduler.cpp` | RunAdmission, RunArena | begin, submit, close, fail, activate, retire (twice), early launch, wait, release | nested calls across mutexes, leases that move under staged work |
| Local endpoint and child | `worker_manager.cpp`, `worker.py`, `chip_run_lane.cpp` | MailboxEndpoint | dispatch, stage, activate, poll, observe, poison, stop; take, submit, launch, end, deliver, sweep | two processes on shared words, reuse, crashes |
| Group tasks | `scheduler.cpp`, `types.cpp`, `worker_manager.cpp` | GroupTask | claim, dispatch by member, aggregate completion, cancel | partial failure, late and refused members |
| MPI group mailbox | `remote_endpoint.cpp`, `worker_manager.cpp`, `mpi_group_mailbox.py`, `mpi_l3_session.py` | MpiGroup | rendezvous, exchange, command loop, control, shutdown | one lane, many ranks, deadlines, a job that dies |
| Message queue to a chip | `comm_region_template.py`, `region_template.h` | SpscQueue, FifoChannel | enqueue, peek, reserve, publish, release, stop, abort, free | wrapping counters and arenas, four stores for each message |
| Diagnostic credit gate | `credit_call_gate.h`, `diagnostic_credit_signal.h`, `chip_run_lane.cpp`, `chip_worker.cpp` | CreditGate, LeasedEntries | admit, wait, release, cancel, close, unload | code unloaded under its callers, lost wake-ups |
| Device runtimes, platform, loader, tooling | `src/src/a2a3`, `src/src/a5`, `src/src/common/platform`, ... | | | not modelled, see the end |

They interact along the life of a task. Ring hands out its slot (HeapRing). The tensor map says
which tasks it must wait for (TensorMap), and the task graph makes it ready when they have ended
(TaskDag). The run's lease and activation let the Scheduler claim it (RunAdmission). An endpoint
carries it to the device, or the whole group to the ranks of a job, and reports acceptance, END and
completion (MailboxEndpoint, GroupTask with MpiGroup). While it runs, the task may exchange messages
with its worker (SpscQueue), and its launch may wait for diagnostic credit (CreditGate). Completion
returns to the task graph, whose last release erases its map entries, returns the slot to Ring and
the lease to the FIFO. Each module takes its neighbours' behaviour as nondeterminism, as listed
below.

## Modules

Before an operator `Op` a module may state variants `Op_Word`: `Op` with one bug of the kind the
code guards against. Nothing uses them; each property is known to fail when its variant takes the
place of `Op`.

### TaskDag

One executing run and its slots. The orch thread runs the callback (`Alloc`, `SubmitBegin`,
`Wire`, `Publish`, `PoisonSubmit`, `ScopeBegin`, `ScopeEnd`, `CloseRunSubmission`,
`FailRunSubmission`, `CancelClaim`, `CancelCommit`); the sched thread runs `PopReady`, `Dispatch`,
`OnTaskComplete`, `ReleaseConsumer`, `PoisonTask`, `SchedRelease*`, `SchedRetire`. One action is
one critical section of `fanout_mu` or one atomic read-modify-write, and what lies between two of
them is a program counter (`opc`, `ostep`, `work`, `sstep`), so the two threads interleave wherever
the code lets them. Producers of a task are any set of earlier slots: the inferred dependencies are
an input. The endpoint accepts and completes RUNNING slots in any order. `MaxThrows` injects
`bad_alloc` into submission and cancellation. `ScopedReads` restricts a task to producers whose
scope is open.

### TensorMap and TensorOverlap (MCTensorMap)

`TensorMap` is `infer_deps` with the map under it: `Begin` starts a task, `TakeProducers`, `Insert`
and `SkipArg` walk its arguments, `Publish` wires it and drops the producers that have ended, while
`End`, `Consume` and `Erase` run on the Scheduler's thread between any two of these. Lookup, insert
and erase each hold the map's mutex once and are one action. `Touched` (the bytes of a view) and
`OverlapOf` (what the test answers) are constants; all that is assumed of them is that NONE and
COVERED can be relied on.

`TensorOverlap` is the test itself, byte ranges first and then boxes on a common row-major layout.
Its reference is `BytesTouched`, the set of bytes a view addresses, written without reference to the
test. `MCTensorMap` puts the two together, with the bytes and the answers of each pair of views in
tables so that TLC computes them once.

`ReadsFirst` is an assumption about programs: no argument reads bytes that an earlier argument of
the same task only writes. The code does not enforce it; see the observations.

### HeapRing

`Ring`: the slabs, one for each scope depth, and the slot table. `AllocCall`, `Reserve`,
`HeapFull`, `Sleep`, `Park`, `Timeout`, `AllocShutdown` are the stretches of `Ring::alloc` between
mutexes and waits; `Release`, `Shutdown` and `Compact` run on other threads. Sizes are aligned
bytes, time is a tick counter per call.

### RunAdmission and RunArena (MCRunAdmission)

The run FIFO and everything that moves it. Calls nest deeply in the code (`close_run_submission`
reaches `activate_fifo_head`, which reaches `retire_terminal_run`, which reaches
`activate_fifo_head`), each under its own critical section; `todo[t]` is the stack of the sections
thread `t` still has to run, so the other threads' sections fall between any two. Task k of a run
goes to worker k. `Events` switches on throwing callbacks, direct control, failing tasks, separate
END reports and dependences. `RunArena` is the part that owns the resource sets: whom
`refresh_leases_locked` lends them to (`Given`) and what a retired run gives back. `MCRunAdmission` adds
the symmetry of the user threads.

### MailboxEndpoint

One worker: `WorkerThread` and `LocalMailboxEndpoint` in the parent, the staged frame loop in the
child, the shared request frames and run-state entries. A dispatch id stands for a run identity and
for the frame and entry generations, all fresh on every submission. The parent's actions are the
branches of `poll_progress` with the part of `finish_progress_dispatch` they lead to. The child's
actions are the steps of its loop; steps between which the parent can observe nothing are one
action, and the passes of an iteration may interleave (the order the loop enforces, submissions
before deliveries and activations before an observer, is in the guards). The chip run lane is
abstracted to the state of each run: queued, prepared, launched, ended or broken. `Scenarios` names
what may go wrong in a behaviour: `stop`, `crash`, `control` (a control command timed out),
`reject` (a request the parent refuses to encode), `bad` (invalid requests, failing runs), `halt`
(the child leaves its loop), `fast` (launched and finished in one `done()`), `observe` (somebody
waits). The run FIFO around the worker is `IsActiveRun` and `MayLaunchEarly`; `Dependents` are
dispatches whose result a task of their run on another worker needs.

### GroupTask and MpiGroup (MCMpiGroup)

`GroupTask` is the Scheduler's side of a group: `Claim`, dispatch member by member, `WorkerDone`
with the aggregation under `group_mu`, `Drain`, and cancellation from another thread in its two
steps. A SUB group stops at the first failed member and skips those it has not dispatched; the
members of a NEXT_LEVEL group all run from the claim on.

`MpiGroup` extends it with everything down to rank 0 of the MPI job. Each rank has an endpoint and a
transport thread; the threads of a whole group meet in a rendezvous, the last to arrive leads one
exchange for all, and everybody leaves with its own reply or at its deadline. A group that is not the whole world, a
single task, a control call and the closing thread use the same lane one by one. The mailbox words
and rank 0's loop are stepped store by store as far as the other side can see them. A frame is named
by the task it carries. `MCMpiGroup` lists the scenarios: two batches and a single with application
errors; the same slot again over a job that breaks or dies; close with a batch and a control call in
flight; a rendezvous of three that one rank never reaches; control and close over a broken or dead
job; a partial group beside a single with answers collected too late; a SUB group and a single its
failure cancels; a batch of three.

### SpscQueue and FifoChannel (MCSpscQueue)

The message queue at both ends: the initiator is `comm_region_template.py`, the peer the C++ class
of `region_template.h` that the device's orchestration task uses. The region is two descriptor rings, two payload arenas and six
counters; one store to it is one step, so a message is seen half written. Counters carry a cursor
modulo `Modulus` (2^32 in the code) and the other side reconstructs the cursor. Arena space is
recovered by replaying released descriptors. The initiator's calls block with a deadline; the peer
polls, releases its handles in any order and publishes in order. `MaxFaults` lets a primitive of the
region raise; scenarios add STOP, misuse of a handle and free.

`FifoChannel` is the promise of one direction: a bounded FIFO that keeps each payload until its
release and carries nothing behind a STOP. `ChannelsAreFifo` says that each direction implements it;
the mapping reads the queue out of the region, through descriptors and arena bytes, never out of the
ends' own variables.

### CreditGate and LeasedEntries

Threads that wait for a run's diagnostic credit (`Begin` to `Relock`, the calls of
`park_for_credit` and of the launch attempt around it), collectors that release capacity and then
advance the signal's generation, threads that close the lane and one of them, the finalizer, that
goes on to unload the runtime. The gate counts calls into the runtime's code; the claim of its
teardown, the cancellation, the drain and the closes that join it are separate steps.
`LeasedEntries` is what callers rely on: entries are leased while the gate is open and detached once,
with no lease out. `GateLeasesEntries` is the refinement.

## Runs

| Run | Instance | Shows |
|---|---|---|
| `taskdag_safety` | 3 slots, one scope at a time, 1 exception | readiness, counters, fence, failure debt and reclamation decisions stay exact |
| `taskdag_live` | 2 slots, 2 scopes, 1 exception, scoped reads, fair | a producer outlives its readers, slots follow their state machine, a closed run finishes |
| `taskdag_reader` | 2 slots, unscoped reads | **violated**, see Findings |
| `heap_alloc` | 2 threads, 2 slabs of 5 bytes aligned to 2, sizes 0, 1, 3, 2 allocations, fair | slabs sound (regions disjoint, fully reclaimed), one owner for each region, no lost wake-up, every call returns |
| `admission_users` | 2 users, 3 runs, no tasks | leases along the FIFO, no stranded waiter, terminal runs stay terminal |
| `admission_pipeline` | 2 runs of 2 tasks (3 together), launch depth 2 | staging and early launch respect predecessors, leases and worker order; no lost wake |
| `admission_live` | 2 runs of 1 task, failures, shrinking capacity, fair | leases exclusive, runs finish, waiters return |
| `endpoint_dispatch` | 2 sets, 2 frames (4 entries), 2 dispatches, 7 scenarios | reports true and made once, entries and frames never confused, device order, exact credit, every dispatch completes |
| `spsc_duplex` | depth 2, arenas of 3 bytes, counters modulo 6, 1 fault, 8 scenarios, fair | both ends agree, nobody poisons itself, both directions are FIFOs, STOP and abort arrive |
| `credit_close` | 2 waiters, 2 closers, 1 release, fair | nobody in unloaded code, no sleep over credit, the gate is a lease, close returns |
| `mpi_group` | 2 or 3 ranks, up to 3 tasks, 8 scenarios, fair | a group ends once with its members' outcome, a success ran exactly once, the rendezvous mixes and leaks nothing, everything comes to rest |
| `tensor_deps` | programs of 3 tasks from a pool of 7, two backings; 3 x 4 array views | every reader waits for the last writer of each byte; the overlap test against the bytes on every pair of views |

Bounds. Three slots give every graph with a chain, a fork, a join and a producer shared by a failed
and a live consumer; a scope opened after another closed gives a producer whose scope ended before
its consumer is built, `taskdag_live` nests two, and the theorems hold for any depth. A slab of 5 bytes with alignment 2 has a remainder, an exact fit, a wrap and a gap. Two runs give a
predecessor and a staged successor; the third run of `admission_users` makes a lease skip a run and
a waiter queue behind another. Three submissions over two runs leave out only the case of both runs
with both tasks, which adds a second successor task behind the same conditions. Two dispatches reuse
frame 1 and entry 1 after a release and overlap otherwise; a third would reuse them again. Seven
messages carry a counter of range 6 over its wrap, and payloads of two bytes straddle the end of a
three-byte arena. Three ranks give a rendezvous somebody misses while two are waiting. Three tasks
give a writer, a superseding writer and a reader; the views contain rows, halves, a block across
both, stepped cells and the whole backing. `Unbounded` stands for `UINT64_MAX` in a byte range and
is past every byte of the instance.

Fairness. `TaskDag`: both threads and the endpoint are weakly fair (the loops poll without
condition). `HeapRing`: strong fairness of an allocating thread says that a mutex released again
and again is obtained; `std::mutex` promises no such thing formally, and without it a thread could
lose every race for the lock. `RunAdmission`: threads continue calls they are in; the strong
fairness on `TaskCompleted` and `LastRelease` stands for children that finish what they launched and
for references that are released although the calls around them come and go; callbacks that build
return. `MailboxEndpoint` has no fairness: `EveryDispatchCompletes` says that a state in which
neither side can step has completed every dispatch. Apart from stuttering no step can be undone
(dispatches, polls and the child's run states only advance), so every behaviour in which the two
loops keep running reaches such a state. `SpscQueue`: a call the initiator is in takes its steps and
meets its deadline, the orchestration task polls its input and finishes what it acquires; nobody has
to send anything. `MpiGroup`: the Scheduler loops, threads that hold or wait for a lock go on,
deadlines pass; nobody has to close, stall, break or die. `CreditGate`: threads run and a writer
that released advances; no wait has to time out, no thread has to win a contended mutex, so
`CloseReturns` rests on cancellation and not on budgets.

CHECK_DEADLOCK is off where the instance ends with its bound of runs, allocations, dispatches,
messages or tasks.

## Proofs

`TaskDagProofs`, `TaskDagRunProofs` (for any number of slots, scopes,
exceptions). None of the properties of `taskdag_safety` is inductive, and they rest on each other;
the order below is that of the modules.
- `TypeCorrect`: `Spec => []TypeOK`, one lemma for each of the four groups of actions.
- `LegalTransitionsHold`: slots only follow the task state machine. The stores of the code are
  plain in places; what makes them safe is `LifeInv`: a slot not handed out is FREE, and a
  completion not yet drained belongs to a RUNNING slot. It is inductive with `TypeOK`.
- `BaseInv` adds what every later argument uses: which locals of the orch thread are in use at which
  program counter (`OrchInv`), when a slot may be BUILDING (`SlotInv`), that a slot is in one open
  scope at most (`ScopeInv`), and that edges run from earlier to later slots (`EdgeInv`).
- `CountsAgree`: `fanoutReleased[p] + Refs(p) = fanoutTotal[p] + 1`, where `Refs` counts the
  references there are to a slot: its scope's, its own, and one for each consumer that retains it and
  has not released it. A consumer's reference changes hands (from its state, to a debt, to a thread's
  pending releases), so the invariant needs `DebtInv`: at most one of these holders has it at a time.
  The exception is `Bare`: a slot that an exception leaves in its scope before it was charged. Nobody
  can name it, and its scope releases it before cancellation fails it.
- `ReclaimsUnreferenced` follows, since the release that meets the threshold was of the last
  reference. `DebtsOwned` needs `OwnerInv`: in cancellation a debt is among the slots still to be
  visited or already taken over.
- `RunCountersHold` (`active_tasks`, `pending_accepts`) and `FenceIsFinal`: the run becomes terminal
  only at zero active tasks, the ready queue is emptied in that step, and nothing is queued after it.
- `ReadinessExact` has two halves. A task heads for dispatch once: `HeadInv` adds that a task not yet
  READY does not, and uses the fence, because `enqueue_ready` drops what it is given for a terminal
  run. A task is not READY early: `FaninInv` says that `fanin_released` plus the producers still to
  be counted (`Undone`) never exceeds `fanin_count`, nor, while the task is being wired, the number
  of live producers found so far.
- `ReadersKeepProducers`: `ScopedReads => NoReaderOfReclaimed`. A slot being retired has left its
  scope and has had its references released (`GoneInv`), and under `ScopedReads` no new one is added
  then (`KeepInv`). Without `ScopedReads` the property is false, see Findings.

`HeapRingProofs` (for any slab size, alignment, number of rings, threads, requests):
- `HeapTypeCorrect`, `LiveRegionsDisjoint`, `SlabFullyReclaimed`, and the last two together as
  `SlabsAlwaysSound`. Disjointness is not inductive: it does not say where the regions lie relative
  to the cursors. `RingShape` does: the unreclaimed regions lie between tail and top or, after a
  wrap, first above tail and then below top, each group in allocation order. `BumpKeepsShape` and
  `AdvanceKeepsShape` are the two lemmas about a single slab; the steps of the component reduce to
  them. `QuietInv` covers compaction, which only runs on a quiescent Ring.
- `NoWakeupMissed`: nobody sleeps over room. It has to hold from the moment the slab was found full
  (`FullInv`): `BumpMakesNoRoom` says that another thread's bump never makes room, and a release needs
  the mutex of the thread falling asleep and wakes the sleepers.
- `PositionsOwnedOnce`: a reserved position belongs to one task id, or to the one call about to take
  an id, although the two mutexes are taken one after the other.

`RunAdmissionProofs` (for any number of users, runs, tasks, sets and any grant):
- `LeasesExclusive`: two runs never own the same set, and a set in use has an owner in the FIFO. It
  breaks if a run returns its lease twice, loses it while it is in the FIFO, or is forgotten there, so
  `LeaseInv` follows the sections pending on the threads: a terminal run still in the FIFO has a
  retirement pending (`RetirePending`), and a run that returned its lease is not in the FIFO. Most
  sections leave the leases alone and reduce to one lemma (`MovesOn`); lending and returning are
  lemmas about the arena alone (`LendKeeps`, `ReturnKeeps`).
- `LeasesInOrder`: leases are held by a prefix of the FIFO, because `Given` pairs runs without a lease
  and free sets by rank (`GivenInOrder`).

`RunFrameProofs` (on top of `LeaseInv`, with the same constants) describes a step once, in three
lemmas that later arguments use in place of the actions: how the tasks move (`TaskStep`), which
sections a thread pops and pushes and that their nesting is kept (`TodoStep`), and what else may
change and when (`VarStep`). `FrameInv` is the invariant about calls: how the sections of a call nest,
that a sleeping thread is at its wait, and that a pending section names a run that has begun.
- `WakeIsNotLost`: the Scheduler does not sleep over a ready task of the dispatchable run. `WakeInv`
  names the three ways in which the task is still to be seen: a wake is pending, a pass over this run
  is on, or some thread has an announcement to make. A run that becomes dispatchable is announced
  (`DispatchStep`), and a pass that ends has left none of its run's tasks ready.
- `NoWaiterIsStranded`: a caller asleep in `begin_run` or `await_run_admission` whose condition holds
  is about to be notified. `WaitInv` is the property with the notification's origin: it is pending
  somewhere, or a thread retires a run next and will push it.

`TensorMapProofs` (for any program within `ProgramsAssumption`, any keys and views, and any overlap
test within `OverlapAssumption`):
- `NoDependencyLost`: `Spec => []ReadsWaitForWriters`. The property does not mention the map, so it
  is carried by `MapKeepsLast` (the last task to register a byte is still in the map with an entry
  that has the byte, or is consumed) and `DepsTaken` (the last writer of every byte looked up so far
  is among the producers, or has ended). `tensor_deps` checks `OverlapAssumption` for the code's own
  test on its views.

`SpscQueueProofs` (for any depth, counter range, arena sizes, windows, messages and faults):
- `CursorsAgree`, `DescriptorsIntact`, and both together as `EndsAlwaysAgree`. The arithmetic is
  `Reconstruction`: a counter modulo `Modulus` names a cursor at most `Depth` ahead uniquely when
  `2 * Depth < Modulus`, from division with remainder and no bound on the numbers. The invariant
  orders the cursors of a direction (what the sender has seen released, what is released, acquired,
  seen published, published), with the distance between the ends at most `Depth`, and says that a
  slot between them holds its own sequence number, `SlotsDiffer` keeping a store to one from
  touching another. Input and output are proved apart: a step of one is quiet in the other.

`CreditGateProofs` (for any finite sets of waiters and closers, any number of releases):
- `UnloadIsSafe`: nobody is inside unloaded code. The invariant `GateInv` says that the counter is
  the number of leases out, that at most one closer owns the teardown, and that everybody past it
  finds the gate detached.
- `GateImplementsEntries`: initial states and steps map to `LeasedEntries`. Every action is first
  shown to leave the leases alone, take one, return one or detach (`GateStep`); the rest is about
  these four.
- `NoLostCredit`: a waiter asleep on the current generation sees no capacity, from `Noted`: no
  noted generation is ahead of the signal's, and one equal to it was noted with no capacity free or
  with a release that has still to advance.

The assumptions are named in the modules and evaluated by the runs: the constants' types, positive
sizes, `2 * Depth < Modulus` in SpscQueue, initial and launch depth within the grant in RunAdmission,
windows within the depth, threads of different kinds being different, and the two of TensorMap.

Only model-checked: all liveness (fairness and ENABLED are out of the prover's reach); in
RunAdmission, that a terminal phase is final, that a task in flight owns its lease, early launch and
the order on a worker; MailboxEndpoint, GroupTask and
MpiGroup; that the message queue implements FifoChannel, whose mapping reads sequences out of the
arenas, and that nobody poisons itself; the overlap test, whose sums over axes would need induction
over data.

## Findings

`taskdag_reader`: a task naming a producer of a closed scope can be wired between `try_consume`'s
decision and `on_consumed`'s compare-exchange; the producer is reclaimed under a task that retains
it.

Further disagreements between code and documentation, each with a configuration that reproduces it:

- `HeapRing_hope.cfg` (`WaiterHasHope`): a slab that is empty but whose cursors stand in the middle
  cannot serve a request that would fit an empty slab; the caller waits for a release that cannot
  come, until it times out.
- `RunAdmission_prior.cfg` with MCRunAdmission (`PriorTerminal`): a successor executes before its
  predecessor is terminal, against `docs/task-flow.md:445`; physical END suffices.
- `MailboxEndpoint_retained.cfg` (`EveryDispatchCompletes`): an ended result is retained while a
  staged successor waits for its activation. When a task of the first run on another worker needs
  it, nothing moves until somebody waits for the first run.
- `MailboxEndpoint_fast.cfg` (`EndReturnsCredit`): LAUNCHED is stored over an END the parent has not
  seen; the lane credit comes back only with the terminal result.
- `SpscQueue_empty.cfg` with MCSpscQueue (`BackpressureIsReal`): a payload as large as the arena,
  behind a smaller one, never fits although the arena is empty, because the cursor stands in the
  middle and the skipped tail counts. The message-queue document (`l3-l2-message-queue.md:85`) calls
  a refusal ordinary backpressure; here no release can end it.

Observations without a configuration:

- `infer_deps` looks up and registers argument by argument. When an earlier output argument of a
  task overlaps a later input argument, the task has superseded the previous producer by the time it
  looks it up, finds only itself, and the edge is lost. `tensormap.h:29-31` says that a real
  dependency is never dropped; the device runtime's orchestrator
  (`src/src/a2a3/runtime/tensormap_and_ringbuffer/runtime/orchestrator.cpp:1131`) separates the two
  phases. `ReadsFirst` excludes the case.
- `pending_accepts` stays raised for a slot poisoned before its endpoint took it, so
  `wait_run_accepted` returns only with the terminal phase.
- The heap timeout runs from the start of the call and not from the last progress (`ring.h:73`).
- A run is created without a lease although `types.h:132` describes one.
- A request published behind the child's closing sweep is resolved by the death check alone.
- `docs/scheduler.md` describes a final pass on stop that `scheduler.cpp:350-364` does not make.

## Not modelled

- The device runtimes under `src/src/a2a3` and `src/src/a5`: a second scheduler on the device's
  control processors, with cache maintenance and register hand-shakes as its memory model.
- The platform layer, device loader and most of the chip worker: driver calls.
- MPI calls between ranks and the supervision of the job: the environment of MpiGroup. The socket
  transport of a remote endpoint: its behaviour is the kernel's buffering.
- Communication domains: each phase of the set-up (export, import, commit, abort) is one control
  command, and what a failed phase leaves behind is decided by the external communication library.
- Wire formats, argument encoding, task interfaces, construction and layout of a queue region: data
  layout.
- Control commands over the local mailbox, except one that times out; the SUB workers' one-frame
  mailbox; registration and process start-up in Python.
- In the credit gate: the rollback of a collector's own notification (`SuppressSelfNotify`), the
  refusal of a close from the wrong context, backends without credit entries, joined launches and
  `detach_after_failed_teardown`.
- Throwing callbacks of the endpoint (`accept_errors_`) and trace spans.
