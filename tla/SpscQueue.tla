----------------------------- MODULE SpscQueue -----------------------------
(***************************************************************************)
(* The worker-chip message queue: two descriptor rings, two payload arenas *)
(* and six counters in one region, shared by the initiator (Python, on the *)
(* host) and the peer (C++, in the device's orchestration task).  Input    *)
(* goes from the initiator to the peer, output the other way.  A descriptor *)
(* counter carries the low 32 bits of a 64-bit cursor (here: Low), which   *)
(* the other side reconstructs; the sender recovers arena space by         *)
(* replaying the descriptors the other side released.                      *)
(*                                                                         *)
(* One store to the region is one step.  A fault is a primitive of the     *)
(* region that raises: it has no effect on the region and poisons the      *)
(* endpoint, whose own cursors nobody reads from then on.                  *)
(***************************************************************************)
EXTENDS Integers, Sequences

CONSTANTS
    Depth,        \* descriptors per ring
    InBytes,      \* input_arena_bytes
    OutBytes,     \* output_arena_bytes
    Modulus,      \* 2^32, the range of a counter
    MaxFaults,    \* failing primitives in a behaviour
    Scenarios     \* messages each way, their payload sizes, the peer's MaxInflight,
                  \* the events that may happen

(* Unobserved progress is at most Depth: half a counter's range must hold it *)
(* (kMaxDepth is a quarter of the range).                                    *)
ASSUME DepthAssumption == Depth \in Nat \ {0} /\ Modulus \in Nat /\ 2 * Depth < Modulus
ASSUME WindowAssumption == \A s \in Scenarios : s.window \in 1 .. Depth
ASSUME ArenaAssumption == InBytes \in Nat \ {0} /\ OutBytes \in Nat \ {0}
ASSUME SizesAssumption == \A s \in Scenarios : s.sizes \subseteq Nat

VARIABLES
    inDesc, outDesc,      \* descriptor rings
    inArena, outArena,    \* payload arenas: the message each byte belongs to
    inTail, inHead, outTail, outHead, iniAbort, peerAbort,  \* counters
    iState, iPc, iCall,   \* the initiator: _state, position in a call, the call
    inp, outp,            \* its cursors for input and for output
    pErr, pPc,            \* the peer: error_.kind (any local poison is one), position in a call
    pin, pout,            \* InputQueue and OutputQueue
    faults, sc

region == <<inDesc, outDesc, inArena, outArena, inTail, inHead, outTail, outHead>>
iniVars == <<iState, iPc, iCall, inp, outp>>
peerVars == <<pErr, pPc, pin, pout>>
vars == <<region, iniAbort, peerAbort, iniVars, peerVars, faults, sc>>

NoCall == [kind |-> "none"]
None == [seq |-> 0]

Init ==
    /\ inDesc = [s \in 0 .. Depth - 1 |-> [seq |-> 0, op |-> "INVALID", off |-> 0, n |-> 0]]
    /\ outDesc = inDesc
    /\ inArena = [b \in 0 .. InBytes - 1 |-> 0]
    /\ outArena = [b \in 0 .. OutBytes - 1 |-> 0]
    /\ inTail = 0 /\ inHead = 0 /\ outTail = 0 /\ outHead = 0
    /\ iniAbort = FALSE /\ peerAbort = FALSE
    /\ iState = "LIVE" /\ iPc = "idle" /\ iCall = NoCall
    /\ inp = [head |-> 0, tail |-> 0, phead |-> 0, ptail |-> 0, stop |-> FALSE]
    /\ outp = [head |-> 0, tail |-> 0, phead |-> 0, active |-> None]
    /\ pErr = "NONE" /\ pPc = "idle"
    /\ pin = [head |-> 0, tail |-> 0, acq |-> 0, phead |-> 0, pacq |-> 0,
              active |-> <<>>, stop |-> FALSE, drained |-> FALSE]
    /\ pout = [head |-> 0, tail |-> 0, phead |-> 0, ptail |-> 0, res |-> None]
    /\ faults = 0
    /\ sc \in Scenarios

-----------------------------------------------------------------------------
(* Cursors: counter_low32 and reconstruct_counter, payload_expected_offset   *)
(* and advance_payload_head.  A payload never straddles the end of its       *)
(* arena; the bytes it skips are given back with it.                         *)
Slot(k) == k % Depth
Low(x) == x % Modulus
Delta_Raw(observed, x) == observed - Low(x)
Delta(observed, x) ==
    LET d == (observed - Low(x)) % Modulus
    IN  IF 2 * d < Modulus THEN d ELSE d - Modulus
Reconstructs(observed, x) == Delta(observed, x) \in 0 .. Depth
Refreshed(observed, x) == x + Delta(observed, x)

Straddles(c, n, size) == (c % size) + n > size
ExpectedOffset(c, n, size) == IF Straddles(c, n, size) THEN 0 ELSE c % size
SkipTo(c, n, size) == IF Straddles(c, n, size) THEN c + size - (c % size) ELSE c
Advanced(c, n, size) == IF n = 0 THEN c ELSE SkipTo(c, n, size) + n
OffsetOk(c, d, size) == d.n = 0 \/ d.off = ExpectedOffset(c, d.n, size)
Fits_Tail(tail, n, head, size) == tail + n - head <= size
Fits(tail, n, head, size) == n = 0 \/ SkipTo(tail, n, size) + n - head <= size

(* _replay_released_input_descriptors, replay_output_releases.  *)
ReplayOne(ring, size, r, k) ==
    LET d == ring[Slot(k)]
        ok == r.ok /\ d.seq = k + 1 /\ OffsetOk(r.c, d, size)
    IN  [ok |-> ok, c |-> IF ok THEN Advanced(r.c, d.n, size) ELSE r.c]
Replay(ring, size, from, to, c) ==
    LET r[k \in Nat] == IF k <= from THEN [ok |-> TRUE, c |-> c] ELSE ReplayOne(ring, size, r[k - 1], k - 1)
    IN  r[to]

Written(arena, off, n, k) == [b \in DOMAIN arena |-> IF b \in off .. off + n - 1 THEN k ELSE arena[b]]

(* A poisoned endpoint raises its own abort flag, and that store may fail.   *)
MayFail(f) == "fault" \in sc.events /\ f < MaxFaults
Raise(flag, next, f) ==
    \/ next = TRUE /\ faults' = f
    \/ MayFail(f) /\ next = flag /\ faults' = f + 1
PoisonInitiator(f) ==
    /\ iState' = "POISONED_LOCAL" /\ iPc' = "idle" /\ iCall' = NoCall
    /\ Raise(iniAbort, iniAbort', f)
PoisonPeer(f) ==
    /\ pErr' = "POISONED" /\ pPc' = "idle"
    /\ Raise(peerAbort, peerAbort', f)
RemoteAbortSeen == iState' = "POISONED_REMOTE" /\ iPc' = "idle" /\ iCall' = NoCall
-----------------------------------------------------------------------------
(* The initiator.  A blocking call repeats its try after every wait_progress *)
(* that saw the counter move, and gives up at its deadline.                  *)
Data(n, block) == [kind |-> "enqueue", op |-> "DATA", n |-> n, block |-> block]
Stop(block) == [kind |-> "enqueue", op |-> "STOP", n |-> 0, block |-> block]
Peek(block) == [kind |-> "peek", block |-> block]

Calling(call) ==
    /\ iState = "LIVE"
    /\ \/ iPc = "idle"
       \/ iPc = "retry" /\ call = iCall

(* _try_enqueue up to its first store: the peer's abort flag, the head and   *)
(* the arena space it gave back, room in the ring and in the arena.          *)
SeenInHead == Refreshed(inHead, inp.head)
InReplay == Replay(inDesc, InBytes, inp.head, SeenInHead, inp.phead)
InBroken == ~Reconstructs(inHead, inp.head) \/ ~InReplay.ok
InRoom_Ring(call) == Fits(inp.ptail, call.n, InReplay.c, InBytes)
InRoom(call) ==
    /\ inp.tail - SeenInHead < Depth
    /\ Fits(inp.ptail, call.n, InReplay.c, InBytes)
Enqueueing(call) == Calling(call) /\ call.kind = "enqueue" /\ call.n <= InBytes /\ ~inp.stop

EnqueueAborted(call) ==
    /\ Enqueueing(call) /\ peerAbort
    /\ RemoteAbortSeen
    /\ UNCHANGED <<region, iniAbort, peerAbort, inp, outp, peerVars, faults, sc>>

EnqueueFull(call) ==
    /\ Enqueueing(call) /\ ~peerAbort /\ ~InBroken /\ ~InRoom(call)
    /\ inp' = [inp EXCEPT !.head = SeenInHead, !.phead = InReplay.c]
    /\ iPc' = IF call.block THEN "wait" ELSE "idle"
    /\ iCall' = IF call.block THEN call ELSE NoCall
    /\ UNCHANGED <<region, iniAbort, peerAbort, iState, outp, peerVars, faults, sc>>

EnqueueStart(call) ==
    /\ Enqueueing(call) /\ ~peerAbort /\ (InBroken \/ InRoom(call))
    /\ IF InBroken
       THEN PoisonInitiator(faults) /\ inp' = inp
       ELSE /\ inp' = [inp EXCEPT !.head = SeenInHead, !.phead = InReplay.c]
            /\ iPc' = IF call.n = 0 THEN "fields" ELSE "payload"
            /\ iCall' = call
            /\ UNCHANGED <<iState, iniAbort, faults>>
    /\ UNCHANGED <<region, peerAbort, outp, peerVars, sc>>

InOffset == IF iCall.n = 0 THEN 0 ELSE ExpectedOffset(inp.ptail, iCall.n, InBytes)

EnqueuePayload ==
    /\ iPc = "payload"
    /\ inArena' = Written(inArena, InOffset, iCall.n, inp.tail + 1)
    /\ iPc' = "fields"
    /\ UNCHANGED <<inDesc, outDesc, outArena, inTail, inHead, outTail, outHead, iniAbort, peerAbort,
                   iState, iCall, inp, outp, peerVars, faults, sc>>

EnqueueFields ==
    /\ iPc = "fields"
    /\ inDesc' = [inDesc EXCEPT ![Slot(inp.tail)] =
                    [@ EXCEPT !.op = iCall.op, !.off = InOffset, !.n = iCall.n]]
    /\ iPc' = "seq"
    /\ UNCHANGED <<outDesc, inArena, outArena, inTail, inHead, outTail, outHead, iniAbort, peerAbort,
                   iState, iCall, inp, outp, peerVars, faults, sc>>

EnqueueSeq ==
    /\ iPc = "seq"
    /\ inDesc' = [inDesc EXCEPT ![Slot(inp.tail)].seq = inp.tail + 1]
    /\ iPc' = "notify"
    /\ UNCHANGED <<outDesc, inArena, outArena, inTail, inHead, outTail, outHead, iniAbort, peerAbort,
                   iState, iCall, inp, outp, peerVars, faults, sc>>

EnqueueNotify ==
    /\ iPc = "notify"
    /\ inTail' = Low(inp.tail + 1)
    /\ inp' = [inp EXCEPT !.tail = @ + 1,
                          !.ptail = Advanced(@, iCall.n, InBytes),
                          !.stop = iCall.op = "STOP"]
    /\ iPc' = "idle" /\ iCall' = NoCall
    /\ UNCHANGED <<inDesc, outDesc, inArena, outArena, inHead, outTail, outHead, iniAbort, peerAbort,
                   iState, outp, peerVars, faults, sc>>

(* wait_progress on the head (enqueue) or on the tail (peek).                *)
Moved == IF iCall.kind = "enqueue" THEN inHead # Low(inp.head) ELSE outTail # Low(outp.tail)

Wake ==
    /\ iPc = "wait" /\ Moved
    /\ IF peerAbort THEN RemoteAbortSeen ELSE iPc' = "retry" /\ UNCHANGED <<iState, iCall>>
    /\ UNCHANGED <<region, iniAbort, peerAbort, inp, outp, peerVars, faults, sc>>

Timeout ==
    /\ iPc = "wait"
    /\ IF peerAbort THEN RemoteAbortSeen ELSE iPc' = "idle" /\ iCall' = NoCall /\ iState' = iState
    /\ UNCHANGED <<region, iniAbort, peerAbort, inp, outp, peerVars, faults, sc>>

(* Output on the initiator: try_peek returns the active handle again until   *)
(* release gives it back.                                                    *)
SeenOutTail == Refreshed(outTail, outp.tail)
OutFront == outDesc[Slot(outp.head)]
OutFrontOk ==
    /\ OutFront.seq = outp.head + 1
    /\ OutFront.op \in {"DATA", "ERROR"}
    /\ IF OutFront.n = 0 THEN OutFront.off = 0 ELSE OutFront.off + OutFront.n <= OutBytes
    /\ OffsetOk(outp.phead, OutFront, OutBytes)
Peeking(call) == Calling(call) /\ call.kind = "peek"

PeekAborted(call) ==
    /\ Peeking(call) /\ peerAbort
    /\ RemoteAbortSeen
    /\ UNCHANGED <<region, iniAbort, peerAbort, inp, outp, peerVars, faults, sc>>

PeekEmpty(call) ==
    /\ Peeking(call) /\ ~peerAbort /\ outp.active = None
    /\ Reconstructs(outTail, outp.tail) /\ SeenOutTail = outp.head
    /\ outp' = [outp EXCEPT !.tail = SeenOutTail]
    /\ iPc' = IF call.block THEN "wait" ELSE "idle"
    /\ iCall' = IF call.block THEN call ELSE NoCall
    /\ UNCHANGED <<region, iniAbort, peerAbort, iState, inp, peerVars, faults, sc>>

PeekMessage(call) ==
    /\ Peeking(call) /\ ~peerAbort /\ outp.active = None
    /\ LET ok == Reconstructs(outTail, outp.tail)
       IN  /\ ~ok \/ SeenOutTail # outp.head
           /\ IF ok /\ OutFrontOk
              THEN /\ outp' = [outp EXCEPT !.tail = SeenOutTail, !.active = OutFront]
                   /\ iPc' = "idle" /\ iCall' = NoCall
                   /\ UNCHANGED <<iState, iniAbort, faults>>
              ELSE PoisonInitiator(faults) /\ outp' = outp
    /\ UNCHANGED <<region, peerAbort, inp, peerVars, sc>>

ReleaseOutput ==
    /\ iState = "LIVE" /\ iPc = "idle" /\ outp.active # None
    /\ IF OffsetOk(outp.phead, outp.active, OutBytes)
       THEN /\ outp' = [outp EXCEPT !.head = @ + 1, !.active = None,
                                    !.phead = Advanced(@, outp.active.n, OutBytes)]
            /\ outHead' = Low(outp.head + 1)
            /\ UNCHANGED <<iState, iPc, iCall, iniAbort, faults>>
       ELSE PoisonInitiator(faults) /\ UNCHANGED <<outp, outHead>>
    /\ UNCHANGED <<inDesc, outDesc, inArena, outArena, inTail, inHead, outTail, peerAbort, inp, peerVars, sc>>

(* free() is logical: nobody tells the peer.  The queue expires when its     *)
(* region leaves LIVE.  Either way a call in progress raises at its next     *)
(* primitive, and so does a handle that is not the active one.               *)
Free ==
    /\ "free" \in sc.events /\ iState # "RELEASED"
    /\ iState' = "RELEASED" /\ iPc' = "idle" /\ iCall' = NoCall
    /\ UNCHANGED <<region, iniAbort, peerAbort, inp, outp, peerVars, faults, sc>>

Expire ==
    /\ "free" \in sc.events /\ iState = "LIVE"
    /\ iState' = "EXPIRED" /\ iPc' = "idle" /\ iCall' = NoCall
    /\ UNCHANGED <<region, iniAbort, peerAbort, inp, outp, peerVars, faults, sc>>

StaleHandle ==
    /\ "misuse" \in sc.events /\ iState = "LIVE" /\ iPc = "idle"
    /\ PoisonInitiator(faults)
    /\ UNCHANGED <<region, peerAbort, inp, outp, peerVars, sc>>

(* A primitive of the region raises anything but TimeoutError.               *)
InitiatorFault ==
    /\ MayFail(faults) /\ iState = "LIVE"
    /\ PoisonInitiator(faults + 1)
    /\ UNCHANGED <<region, peerAbort, inp, outp, peerVars, sc>>

-----------------------------------------------------------------------------
(* The peer's input window.  try_peek acquires the next descriptor; release  *)
(* completes a handle in any order, and the head moves over the completed    *)
(* prefix.  A call that blocks looks at the initiator's abort flag when it   *)
(* makes no progress.                                                        *)
PeerIdle == pErr = "NONE" /\ pPc = "idle"
SeenInTail == Refreshed(inTail, pin.tail)
InNext == inDesc[Slot(pin.acq)]
HeldData == Len(SelectSeq(pin.active, LAMBDA e : e.op = "DATA"))
InNextOk ==
    /\ SeenInTail - pin.head <= Depth
    /\ InNext.seq = pin.acq + 1
    /\ InNext.op \in {"DATA", "STOP"}
    /\ InNext.op = "STOP" => InNext.n = 0 /\ InNext.off = 0
InNextPayloadOk ==
    /\ Len(pin.active) <= sc.window
    /\ IF InNext.n = 0 THEN InNext.off = 0 ELSE InNext.off + InNext.n <= InBytes
    /\ OffsetOk(pin.pacq, InNext, InBytes)
WindowFull == InNext.op = "DATA" /\ HeldData >= sc.window
NothingToAcquire ==
    /\ Reconstructs(inTail, pin.tail)
    /\ \/ SeenInTail = pin.acq
       \/ ~pin.stop /\ InNextOk /\ WindowFull

BlockedPeerLooks(block) == pErr' = IF block /\ iniAbort THEN "REMOTE_ABORTED" ELSE pErr

PeerPeekNothing(block) ==
    /\ PeerIdle /\ NothingToAcquire
    /\ pin' = [pin EXCEPT !.tail = SeenInTail]
    /\ BlockedPeerLooks(block)
    /\ UNCHANGED <<region, iniAbort, peerAbort, iniVars, pPc, pout, faults, sc>>

(* A descriptor behind a STOP poisons, once it is published.                 *)
PeerAcquire ==
    /\ PeerIdle /\ ~NothingToAcquire
    /\ LET good == Reconstructs(inTail, pin.tail) /\ ~pin.stop /\ InNextOk /\ InNextPayloadOk
           last == InNext.op = "STOP"
           held == [pin EXCEPT !.tail = SeenInTail, !.acq = @ + 1, !.stop = last,
                               !.pacq = Advanced(@, InNext.n, InBytes),
                               !.active = Append(@, [seq |-> InNext.seq, op |-> InNext.op, off |-> InNext.off,
                                                     n |-> InNext.n, done |-> FALSE])]
       IN  /\ pin' = IF good THEN held ELSE pin
           /\ IF good /\ (last => SeenInTail = pin.acq + 1)
              THEN UNCHANGED <<pErr, pPc, peerAbort, faults>>
              ELSE PoisonPeer(faults)
    /\ UNCHANGED <<region, iniAbort, iniVars, pout, sc>>

PrefixDone(active) == active # <<>> /\ Head(active).done

PeerRelease(i) ==
    /\ PeerIdle /\ i \in DOMAIN pin.active /\ ~pin.active[i].done
    /\ pin' = [pin EXCEPT !.active[i].done = TRUE]
    /\ pPc' = IF i = 1 THEN "release" ELSE "idle"
    /\ UNCHANGED <<region, iniAbort, peerAbort, iniVars, pErr, pout, faults, sc>>

(* One turn of release_completed_prefix. *)
PeerReleaseTurn_Once ==
    /\ pPc = "release" /\ pErr = "NONE"
    /\ LET e == Head(pin.active)
           rest == Tail(pin.active)
       IN  IF OffsetOk(pin.phead, e, InBytes)
           THEN /\ pin' = [pin EXCEPT !.head = @ + 1, !.phead = Advanced(@, e.n, InBytes),
                                      !.active = rest, !.drained = @ \/ e.op = "STOP"]
                /\ inHead' = Low(pin.head + 1)
                /\ pPc' = "idle"
                /\ UNCHANGED <<pErr, peerAbort, faults>>
           ELSE PoisonPeer(faults) /\ UNCHANGED <<pin, inHead>>
    /\ UNCHANGED <<inDesc, outDesc, inArena, outArena, inTail, outTail, outHead, iniAbort, iniVars, pout, sc>>
PeerReleaseTurn ==
    /\ pPc = "release" /\ pErr = "NONE"
    /\ LET e == Head(pin.active)
           rest == Tail(pin.active)
       IN  IF OffsetOk(pin.phead, e, InBytes)
           THEN /\ pin' = [pin EXCEPT !.head = @ + 1, !.phead = Advanced(@, e.n, InBytes),
                                      !.active = rest, !.drained = @ \/ e.op = "STOP"]
                /\ inHead' = Low(pin.head + 1)
                /\ pPc' = IF PrefixDone(rest) THEN "release" ELSE "idle"
                /\ UNCHANGED <<pErr, peerAbort, faults>>
           ELSE PoisonPeer(faults) /\ UNCHANGED <<pin, inHead>>
    /\ UNCHANGED <<inDesc, outDesc, inArena, outArena, inTail, outTail, outHead, iniAbort, iniVars, pout, sc>>

-----------------------------------------------------------------------------
(* The peer's output: one reservation at a time, filled in place, published  *)
(* by its descriptor and the tail.                                           *)
SeenOutHead == Refreshed(outHead, pout.head)
OutReplay == Replay(outDesc, OutBytes, pout.head, SeenOutHead, pout.phead)
OutBroken == ~Reconstructs(outHead, pout.head) \/ ~OutReplay.ok
OutRoom(n) ==
    /\ pout.tail - SeenOutHead < Depth
    /\ Fits(pout.ptail, n, OutReplay.c, OutBytes)
Reserving(n) == PeerIdle /\ n <= OutBytes /\ pout.res = None

PeerReserveFull(n, block) ==
    /\ Reserving(n) /\ ~OutBroken /\ ~OutRoom(n)
    /\ pout' = [pout EXCEPT !.head = SeenOutHead, !.phead = OutReplay.c]
    /\ BlockedPeerLooks(block)
    /\ UNCHANGED <<region, iniAbort, peerAbort, iniVars, pPc, pin, faults, sc>>

PeerReserve(n) ==
    /\ Reserving(n) /\ (OutBroken \/ OutRoom(n))
    /\ IF OutBroken
       THEN PoisonPeer(faults) /\ pout' = pout
       ELSE /\ pout' = [pout EXCEPT !.head = SeenOutHead, !.phead = OutReplay.c,
                                    !.ptail = Advanced(@, n, OutBytes),
                                    !.res = [seq |-> pout.tail + 1, n |-> n, op |-> "INVALID", filled |-> n = 0,
                                             off |-> IF n = 0 THEN 0 ELSE ExpectedOffset(pout.ptail, n, OutBytes)]]
            /\ UNCHANGED <<pErr, pPc, peerAbort, faults>>
    /\ UNCHANGED <<region, iniAbort, iniVars, pin, sc>>

(* The orchestration task, or a kernel it launched, fills the reserved span. *)
PeerFill ==
    /\ PeerIdle /\ pout.res # None /\ ~pout.res.filled
    /\ outArena' = Written(outArena, pout.res.off, pout.res.n, pout.res.seq)
    /\ pout' = [pout EXCEPT !.res.filled = TRUE]
    /\ UNCHANGED <<inDesc, outDesc, inArena, inTail, inHead, outTail, outHead, iniAbort, peerAbort,
                   iniVars, pErr, pPc, pin, faults, sc>>

PeerPublish(op) ==
    /\ PeerIdle /\ pout.res # None /\ pout.res.filled
    /\ pout' = [pout EXCEPT !.res.op = op]
    /\ pPc' = "fields"
    /\ UNCHANGED <<region, iniAbort, peerAbort, iniVars, pErr, pin, faults, sc>>

PublishFields ==
    /\ pPc = "fields"
    /\ outDesc' = [outDesc EXCEPT ![Slot(pout.tail)] =
                     [@ EXCEPT !.op = pout.res.op, !.off = pout.res.off, !.n = pout.res.n]]
    /\ pPc' = "seq"
    /\ UNCHANGED <<inDesc, inArena, outArena, inTail, inHead, outTail, outHead, iniAbort, peerAbort,
                   iniVars, pErr, pin, pout, faults, sc>>

PublishSeq ==
    /\ pPc = "seq"
    /\ outDesc' = [outDesc EXCEPT ![Slot(pout.tail)].seq = pout.res.seq]
    /\ pPc' = "notify"
    /\ UNCHANGED <<inDesc, inArena, outArena, inTail, inHead, outTail, outHead, iniAbort, peerAbort,
                   iniVars, pErr, pin, pout, faults, sc>>

PublishNotify ==
    /\ pPc = "notify"
    /\ outTail' = Low(pout.tail + 1)
    /\ pout' = [pout EXCEPT !.tail = @ + 1, !.res = None]
    /\ pPc' = "idle"
    /\ UNCHANGED <<inDesc, outDesc, inArena, outArena, inTail, inHead, outHead, iniAbort, peerAbort,
                   iniVars, pErr, pin, faults, sc>>

(* A released or foreign handle, a second reservation, an unknown or         *)
(* misdirected publication; and a primitive of the region that fails.        *)
PeerMisuse ==
    /\ "misuse" \in sc.events /\ PeerIdle
    /\ PoisonPeer(faults)
    /\ UNCHANGED <<region, iniAbort, iniVars, pin, pout, sc>>

PeerFault ==
    /\ MayFail(faults) /\ pErr = "NONE"
    /\ PoisonPeer(faults + 1)
    /\ UNCHANGED <<region, iniAbort, iniVars, pin, pout, sc>>

-----------------------------------------------------------------------------
(* The messages of a scenario bound the calls that start a new one.          *)
Calls == {Data(n, b) : n \in sc.sizes, b \in BOOLEAN} \cup {Stop(b) : b \in BOOLEAN}

InitiatorNext ==
    \/ \E call \in Calls :
         /\ inp.tail < sc.in /\ (call.op = "STOP" => "stop" \in sc.events)
         /\ EnqueueAborted(call) \/ EnqueueFull(call) \/ EnqueueStart(call)
    \/ EnqueuePayload \/ EnqueueFields \/ EnqueueSeq \/ EnqueueNotify
    \/ Wake \/ Timeout
    \/ \E block \in BOOLEAN :
         PeekAborted(Peek(block)) \/ PeekEmpty(Peek(block)) \/ PeekMessage(Peek(block))
    \/ ReleaseOutput \/ Free \/ Expire \/ StaleHandle \/ InitiatorFault

PeerNext ==
    \/ \E block \in BOOLEAN :
         \/ PeerPeekNothing(block)
         \/ \E n \in sc.sizes : pout.tail < sc.out /\ PeerReserveFull(n, block)
    \/ PeerAcquire \/ PeerReleaseTurn
    \/ \E i \in 1 .. sc.window + 1 : PeerRelease(i)
    \/ \E n \in sc.sizes : pout.tail < sc.out /\ PeerReserve(n)
    \/ PeerFill \/ PublishFields \/ PublishSeq \/ PublishNotify
    \/ \E op \in {"DATA", "ERROR"} : PeerPublish(op)
    \/ PeerMisuse \/ PeerFault

Next == InitiatorNext \/ PeerNext

Spec == Init /\ [][Next]_vars

(* A call the initiator is in takes its steps and meets its deadline; the    *)
(* orchestration task polls its input, and finishes what it acquires.        *)
Fairness ==
    /\ WF_vars(EnqueuePayload \/ EnqueueFields \/ EnqueueSeq \/ EnqueueNotify)
    /\ WF_vars(Timeout)
    /\ WF_vars(\E call \in Calls : iPc = "retry"
                 /\ (EnqueueAborted(call) \/ EnqueueFull(call) \/ EnqueueStart(call)))
    /\ WF_vars(iPc = "retry" /\ (PeekAborted(Peek(TRUE)) \/ PeekEmpty(Peek(TRUE)) \/ PeekMessage(Peek(TRUE))))
    /\ WF_vars(PublishFields \/ PublishSeq \/ PublishNotify)
    /\ WF_vars(PeerReleaseTurn)
    /\ WF_vars(PeerAcquire)
    /\ WF_vars(\E i \in 1 .. sc.window + 1 : PeerRelease(i))

FairSpec == Spec /\ Fairness

-----------------------------------------------------------------------------
(* What is in the region between two cursors, read through descriptors and   *)
(* arena: the contents of a direction's channel.                             *)
Contents(ring, arena, from, to) ==
    [i \in 1 .. to - from |->
        LET d == ring[Slot(from + i - 1)]
        IN  [op |-> d.op, data |-> [j \in 1 .. d.n |-> arena[d.off + j - 1]]]]

Sizes == {0} \cup UNION {s.sizes : s \in Scenarios}

In == INSTANCE FifoChannel WITH
        Sizes <- Sizes, q <- Contents(inDesc, inArena, pin.head, inp.tail),
        sent <- inp.tail, stopped <- inp.stop,
        Capacity <- Depth, Opcodes <- {"DATA", "STOP"}

Out == INSTANCE FifoChannel WITH
        Sizes <- Sizes, q <- Contents(outDesc, outArena, outp.head, pout.tail),
        sent <- pout.tail, stopped <- FALSE,
        Capacity <- Depth, Opcodes <- {"DATA", "ERROR"}

(* Input is a bounded FIFO: what lies in the region between the peer's head  *)
(* and the initiator's tail, read through descriptors and arena, changes     *)
(* only by a message appended whole or the oldest one released, for every    *)
(* interleaving of _try_enqueue's stores with the peer's window; a span an   *)
(* unreleased message owns is never overwritten.                             *)
InputIsFifo == In!Spec

(* The same for output: publish appends, the initiator's release removes.    *)
OutputIsFifo == Out!Spec

(* Both directions are bounded FIFO channels.                                *)
ChannelsAreFifo == InputIsFifo /\ OutputIsFifo

(* The 64-bit cursor an endpoint reconstructs from 32 bits is the one the    *)
(* other endpoint published, however far behind it has fallen and whenever   *)
(* the counter wraps.                                                        *)
CountersExact ==
    /\ SeenInHead = pin.head /\ SeenInTail = inp.tail
    /\ SeenOutHead = outp.head /\ SeenOutTail = pout.tail

(* A descriptor slot is reused only after its release was seen: what the     *)
(* replay and the other endpoint read between head and tail is the message   *)
(* with that number.                                                         *)
DescriptorsStay ==
    /\ \A k \in inp.head .. inp.tail - 1 : inDesc[Slot(k)].seq = k + 1
    /\ \A k \in pout.head .. pout.tail - 1 : outDesc[Slot(k)].seq = k + 1

(* The ends agree on what lies between them: on the cursors, and on the      *)
(* descriptors between head and tail.                                        *)
EndsAgree == CountersExact /\ DescriptorsStay

(* Neither end ever poisons itself on its own: counter reconstruction across *)
(* a wrap, the sequence check, the payload replay and the window capacity    *)
(* only fail when a primitive failed or a handle was misused, and a remote   *)
(* abort is reported only then.                                              *)
NoFalsePoison ==
    (faults = 0 /\ "misuse" \notin sc.events)
        => iState \in {"LIVE", "RELEASED", "EXPIRED"} /\ pErr = "NONE"

(* Once STOP is published the peer drains: every input before it and STOP    *)
(* itself are released although handles complete in any order, or one end    *)
(* has failed.                                                               *)
StopDrains == inp.stop ~> (pin.drained \/ pErr # "NONE")

(* A call blocked on a peer that has aborted does not just time out: it      *)
(* learns of the abort (wait_progress samples the flag after the deadline).  *)
BlockedCallLearnsAbort == (iPc = "wait" /\ peerAbort) ~> iState # "LIVE"

(* Both ways to end a queue reach the other side: STOP drains it, and an     *)
(* abort is seen by a call that is blocked.                                  *)
EndIsSeen == StopDrains /\ BlockedCallLearnsAbort

(* l3-l2-message-queue.md:85: "`try_enqueue(buffer, nbytes)` returns `False` *)
(* for ordinary descriptor-ring or arena backpressure": an enqueue that      *)
(* waits has a published input to wait for, or a release it has not seen.    *)
BackpressureIsReal ==
    (iPc = "wait" /\ iCall.kind = "enqueue") => pin.head < inp.tail \/ Moved
=============================================================================
