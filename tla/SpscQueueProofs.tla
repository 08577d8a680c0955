-------------------------- MODULE SpscQueueProofs --------------------------
(***************************************************************************)
(* Proofs about SpscQueue, for every ring depth, counter range and arena   *)
(* size, every window and every number and size of messages.               *)
(***************************************************************************)
EXTENDS SpscQueue, TLAPS

(* Division with remainder, and that the remainder is unique. *)
LEMMA ModDef ==
  ASSUME NEW m \in Nat \ {0}, NEW x \in Int
  PROVE  x \div m \in Int /\ x % m \in 0 .. m - 1 /\ x = m * (x \div m) + (x % m)
OBVIOUS

(* The only multiple of m strictly between -m and m is 0.                    *)
LEMMA SmallMultiple ==
  ASSUME NEW m \in Nat \ {0}, NEW k \in Int, m * k < m, m * k > -m
  PROVE  k = 0
<1>1. CASE k >= 1
  <2>1. m * k >= m * 1
    BY <1>1
  <2>2. QED
    BY <1>1, <2>1
<1>2. CASE k <= -1
  <2>1. m * k <= m * (-1)
    BY <1>2
  <2>2. QED
    BY <1>2, <2>1
<1>3. QED
  BY <1>1, <1>2

(* The remainder of a number already divided.                                *)
LEMMA RemainderUnique ==
  ASSUME NEW m \in Nat \ {0}, NEW q \in Int, NEW r \in 0 .. m - 1
  PROVE  (m * q + r) % m = r
<1> DEFINE x == m * q + r
           k == q - (x \div m)
<1>1. x \in Int
  OBVIOUS
<1>2. x \div m \in Int /\ x % m \in 0 .. m - 1 /\ x = m * (x \div m) + (x % m)
  BY <1>1, ModDef, Zenon
<1>3. m * k = (x % m) - r
  BY <1>2
<1>4. k = 0
  BY <1>2, <1>3, SmallMultiple
<1>5. QED
  BY <1>2, <1>3, <1>4

(* reconstruct_counter: progress of at most Depth is recovered exactly from  *)
(* the low bits, across any number of wraps.                                 *)
LEMMA Reconstruction ==
  ASSUME NEW x \in Nat, NEW y \in Nat, x <= y, y <= x + Depth
  PROVE  Delta(Low(y), x) = y - x /\ Reconstructs(Low(y), x) /\ Refreshed(Low(y), x) = y
<1> USE DepthAssumption
<1>1. Modulus \in Nat \ {0} /\ y - x \in 0 .. Modulus - 1 /\ 2 * (y - x) < Modulus
  OBVIOUS
<1> DEFINE a == x \div Modulus
           b == y \div Modulus
<1>2. a \in Int /\ b \in Int /\ x % Modulus \in Int /\ y % Modulus \in Int
  BY <1>1, ModDef
<1>3. x = Modulus * a + (x % Modulus) /\ y = Modulus * b + (y % Modulus)
  BY <1>1, ModDef
<1>4. (y % Modulus) - (x % Modulus) = Modulus * (a - b) + (y - x)
  BY <1>1, <1>2, <1>3
<1>5. (Modulus * (a - b) + (y - x)) % Modulus = y - x
  <2> HIDE DEF a, b
  <2>1. a - b \in Int
    BY <1>2
  <2>2. QED
    BY <1>1, <2>1, RemainderUnique, Zenon
<1>6. Delta(Low(y), x) = y - x
  BY <1>1, <1>2, <1>4, <1>5, Zenon DEF Delta, Low
<1>7. QED
  BY <1>1, <1>6 DEF Reconstructs, Refreshed

(* Numbers less than Depth apart have different slots. *)
LEMMA SlotsDiffer ==
  ASSUME NEW j \in Nat, NEW k \in Nat, j < k, k < j + Depth
  PROVE  Slot(j) # Slot(k)
<1> USE DepthAssumption
<1> DEFINE a == j \div Depth
           b == k \div Depth
<1>1. a \in Int /\ b \in Int /\ j % Depth \in Int /\ k % Depth \in Int
  BY ModDef
<1>2. j = Depth * a + (j % Depth) /\ k = Depth * b + (k % Depth)
  BY ModDef
<1>3. SUFFICES ASSUME j % Depth = k % Depth PROVE FALSE
  BY Zenon DEF Slot
<1>4. k - j = Depth * (b - a)
  BY <1>1, <1>2, <1>3
<1>5. b - a = 0
  <2> HIDE DEF a, b
  <2>1. b - a \in Int
    BY <1>1
  <2>2. QED
    BY <1>4, <2>1, SmallMultiple
<1>6. QED
  BY <1>1, <1>4, <1>5

(* A sequence number has a slot in the ring.                                 *)
LEMMA SlotInRing ==
  ASSUME NEW k \in Nat
  PROVE  Slot(k) \in 0 .. Depth - 1
BY DepthAssumption, ModDef DEF Slot

(* An arena offset is a number, and cursors only grow. *)
LEMMA OffsetType ==
  ASSUME NEW c \in Nat, NEW n \in Nat, NEW size \in Nat \ {0}
  PROVE  ExpectedOffset(c, n, size) \in Nat /\ Advanced(c, n, size) \in Nat
<1>1. c % size \in 0 .. size - 1
  BY ModDef
<1>2. QED
  BY <1>1 DEF ExpectedOffset, Advanced, SkipTo, Straddles

-----------------------------------------------------------------------------
Opcodes == {"INVALID", "DATA", "STOP", "ERROR"}
Descriptor == [seq : Nat, op : Opcodes, off : Nat, n : Nat]
Ring == [0 .. Depth - 1 -> Descriptor]
Entry == [seq : Nat, op : Opcodes, off : Nat, n : Nat, done : BOOLEAN]
Reservation == [seq : Nat, n : Nat, op : Opcodes, filled : BOOLEAN, off : Nat]
Writing == {"payload", "fields", "seq", "notify"}

(* Input: the initiator's view of the head lags the peer's head, which lags  *)
(* what the peer acquired, which lags its view of the tail, which lags the   *)
(* tail; the whole spans at most Depth.  A call that is writing its message  *)
(* keeps the slot it found free.                                             *)
InputTypes ==
    /\ inDesc \in Ring
    /\ DOMAIN inp = {"head", "tail", "phead", "ptail", "stop"}
    /\ inp.head \in Nat /\ inp.tail \in Nat /\ inp.ptail \in Nat
    /\ DOMAIN pin = {"head", "tail", "acq", "phead", "pacq", "active", "stop", "drained"}
    /\ pin.head \in Nat /\ pin.tail \in Nat /\ pin.acq \in Nat
    /\ pin.active \in Seq(Entry)
    /\ iPc \in Writing => iCall.n \in Nat /\ iCall.op \in Opcodes
    /\ sc \in Scenarios
InputOrder ==
    /\ inp.head <= pin.head
    /\ pin.acq = pin.head + Len(pin.active)
    /\ pin.acq <= pin.tail
    /\ pin.tail <= inp.tail
    /\ inp.tail <= inp.head + Depth
    /\ inHead = Low(pin.head) /\ inTail = Low(inp.tail)
    /\ pPc = "release" => pin.active # <<>>
    /\ iPc \in Writing => inp.tail < inp.head + Depth
InputSlots ==
    /\ \A k \in inp.head .. inp.tail - 1 : inDesc[Slot(k)].seq = k + 1
    /\ iPc = "notify" => inDesc[Slot(inp.tail)].seq = inp.tail + 1
InputInv == InputTypes /\ InputOrder /\ InputSlots

(* Output, the other way round: the initiator holds one message at a time,   *)
(* the peer one reservation.                                                 *)
OutputTypes ==
    /\ outDesc \in Ring
    /\ DOMAIN outp = {"head", "tail", "phead", "active"}
    /\ outp.head \in Nat /\ outp.tail \in Nat
    /\ DOMAIN pout = {"head", "tail", "phead", "ptail", "res"}
    /\ pout.head \in Nat /\ pout.tail \in Nat /\ pout.ptail \in Nat
    /\ pout.res # None => pout.res \in Reservation /\ pout.res.seq = pout.tail + 1
    /\ sc \in Scenarios
OutputOrder ==
    /\ pout.head <= outp.head
    /\ outp.head <= outp.tail
    /\ outp.tail <= pout.tail
    /\ pout.tail <= pout.head + Depth
    /\ outHead = Low(outp.head) /\ outTail = Low(pout.tail)
    /\ outp.active # None => outp.head < outp.tail
    /\ pout.res # None => pout.tail < pout.head + Depth
    /\ pPc \in {"fields", "seq", "notify"} => pout.res # None
OutputSlots ==
    /\ \A k \in pout.head .. pout.tail - 1 : outDesc[Slot(k)].seq = k + 1
    /\ pPc = "notify" => outDesc[Slot(pout.tail)].seq = pout.tail + 1
OutputInv == OutputTypes /\ OutputOrder /\ OutputSlots

(* On input each end reconstructs the cursor the other published.            *)
LEMMA InputSeen ==
  ASSUME InputInv
  PROVE  SeenInHead = pin.head /\ SeenInTail = inp.tail
<1>1. SeenInHead = pin.head
  BY Reconstruction, DepthAssumption, SMTT(30) DEF InputInv, InputTypes, InputOrder, SeenInHead
<1>2. SeenInTail = inp.tail
  BY Reconstruction, DepthAssumption, SMTT(30) DEF InputInv, InputTypes, InputOrder, SeenInTail
<1>3. QED
  BY <1>1, <1>2, Zenon

(* On output too.                                                            *)
LEMMA OutputSeen ==
  ASSUME OutputInv
  PROVE  SeenOutHead = outp.head /\ SeenOutTail = pout.tail
<1>1. SeenOutHead = outp.head
  BY Reconstruction, DepthAssumption DEF OutputInv, OutputTypes, OutputOrder, SeenOutHead
<1>2. SeenOutTail = pout.tail
  BY Reconstruction, DepthAssumption DEF OutputInv, OutputTypes, OutputOrder, SeenOutTail
<1>3. QED
  BY <1>1, <1>2, Zenon

-----------------------------------------------------------------------------
(* Input *)
LEMMA InputInit == Init => InputInv
<1> SUFFICES ASSUME Init PROVE InputInv
  OBVIOUS
<1>1. InputTypes
  BY DepthAssumption DEF Init, InputTypes, Ring, Descriptor, Opcodes, Writing
<1>2. InputOrder
  <2>1. 0 = Low(0)
    BY DepthAssumption DEF Low
  <2>2. QED
    BY <2>1, DepthAssumption DEF Init, InputOrder, Writing
<1>3. InputSlots
  BY DEF Init, InputSlots
<1>4. QED
  BY <1>1, <1>2, <1>3, Zenon DEF InputInv

InputQuiet ==
    /\ UNCHANGED <<inDesc, inp, pin, inHead, inTail, sc>>
    /\ iPc' \notin Writing \/ UNCHANGED <<iPc, iCall>>
    /\ pPc' # "release" \/ pPc' = pPc

(* A step that is quiet on input keeps its invariant.                        *)
LEMMA InputFrame ==
  ASSUME InputInv, InputQuiet
  PROVE  InputInv'
<1>1. InputTypes'
  BY Zenon DEF InputInv, InputQuiet, InputTypes
<1>2. InputOrder'
  BY Zenon DEF InputInv, InputQuiet, InputOrder
<1>3. InputSlots'
  BY Zenon DEF InputInv, InputQuiet, InputSlots, Writing
<1>4. QED
  BY <1>1, <1>2, <1>3, Zenon DEF InputInv

(* Calls of the initiator that enqueue carry DATA or STOP.                   *)
LEMMA CallType ==
  ASSUME InputInv, NEW call \in Calls
  PROVE  call.kind = "enqueue" /\ call.n \in Nat /\ call.op \in {"DATA", "STOP"}
BY SizesAssumption DEF InputInv, InputTypes, Calls, Data, Stop

(* Adopting the released head shrinks the span the initiator looks at. *)
LEMMA InputHeadSeen ==
  ASSUME InputInv, inp' = [inp EXCEPT !.head = SeenInHead, !.phead = InReplay.c],
         UNCHANGED <<inDesc, pin, inHead, inTail, pPc, sc>>,
         iPc' \notin {"seq", "notify"},
         iPc' \in Writing => /\ inp.tail < pin.head + Depth
                             /\ iCall'.n \in Nat /\ iCall'.op \in Opcodes
  PROVE  InputInv'
<1>1. inp'.head = pin.head /\ inp'.tail = inp.tail /\ inp'.ptail = inp.ptail /\ DOMAIN inp' = DOMAIN inp
  BY InputSeen, Zenon DEF InputInv, InputTypes
<1> HIDE DEF InReplay, SeenInHead
<1>2. InputTypes'
  BY <1>1, Zenon DEF InputInv, InputTypes
<1>3. InputOrder'
  BY <1>1, DepthAssumption, SMTT(30) DEF InputInv, InputTypes, InputOrder
<1>4. InputSlots'
  BY <1>1, <1>3, SMTT(30) DEF InputInv, InputTypes, InputOrder, InputSlots
<1>5. QED
  BY <1>2, <1>3, <1>4, Zenon DEF InputInv

(* The initiator checks for room: its view of the head lags, so the slot at  *)
(* the tail is free.                                                         *)
LEMMA InputEnqueue ==
  ASSUME InputInv, NEW call \in Calls,
         EnqueueAborted(call) \/ EnqueueFull(call) \/ EnqueueStart(call)
  PROVE  InputInv'
<1>1. CASE EnqueueAborted(call)
  <2>1. InputQuiet
    BY <1>1, Zenon DEF EnqueueAborted, RemoteAbortSeen, region, peerVars, InputQuiet, Writing
  <2>2. QED
    BY <2>1, InputFrame, Zenon
<1>2. CASE EnqueueFull(call)
  <2>1. inp' = [inp EXCEPT !.head = SeenInHead, !.phead = InReplay.c]
    BY <1>2, Zenon DEF EnqueueFull
  <2>2. UNCHANGED <<inDesc, pin, inHead, inTail, pPc, sc>> /\ iPc' \notin Writing /\ iPc' \notin {"seq", "notify"}
    BY <1>2, Zenon DEF EnqueueFull, region, peerVars, Writing
  <2>3. QED
    BY <2>1, <2>2, InputHeadSeen, Zenon
<1>3. CASE EnqueueStart(call) /\ InBroken
  <2>1. InputQuiet
    BY <1>3, Zenon DEF EnqueueStart, PoisonInitiator, region, peerVars, InputQuiet, Writing
  <2>2. QED
    BY <2>1, InputFrame, Zenon
<1>4. CASE EnqueueStart(call) /\ ~InBroken
  <2>1. inp' = [inp EXCEPT !.head = SeenInHead, !.phead = InReplay.c]
    BY <1>4, Zenon DEF EnqueueStart
  <2>2. UNCHANGED <<inDesc, pin, inHead, inTail, pPc, sc>>
    BY <1>4, Zenon DEF EnqueueStart, region, peerVars
  <2>3. iCall' = call /\ iPc' \notin {"seq", "notify"}
    BY <1>4, Zenon DEF EnqueueStart
  <2>4. inp.tail - pin.head < Depth
    BY <1>4, InputSeen, Zenon DEF EnqueueStart, InRoom
  <2>5. inp.tail < pin.head + Depth
    BY <2>4, DepthAssumption DEF InputInv, InputTypes
  <2>6. iCall'.n \in Nat /\ iCall'.op \in Opcodes
    BY <2>3, CallType, Zenon DEF Opcodes
  <2>7. QED
    BY <2>1, <2>2, <2>3, <2>5, <2>6, InputHeadSeen, Zenon
<1>5. QED
  BY <1>1, <1>2, <1>3, <1>4, Zenon

(* The stores of a message go to the slot at the tail, outside the span.     *)
LEMMA InputWrite ==
  ASSUME InputInv, EnqueuePayload \/ EnqueueFields \/ EnqueueSeq
  PROVE  InputInv'
<1>1. iPc \in Writing /\ iPc' \in Writing /\ UNCHANGED <<inp, pin, inHead, inTail, pPc, iCall, sc>>
  BY Zenon DEF EnqueuePayload, EnqueueFields, EnqueueSeq, Writing, peerVars
<1>2. InputOrder'
  BY <1>1, Zenon DEF InputInv, InputOrder
<1>3. Slot(inp.tail) \in 0 .. Depth - 1
  BY SlotInRing, Zenon DEF InputInv, InputTypes
<1>4. \A k \in inp.head .. inp.tail - 1 : Slot(k) \in 0 .. Depth - 1 /\ Slot(k) # Slot(inp.tail)
  <2> SUFFICES ASSUME NEW k \in inp.head .. inp.tail - 1
               PROVE  Slot(k) \in 0 .. Depth - 1 /\ Slot(k) # Slot(inp.tail)
    OBVIOUS
  <2>1. k \in Nat /\ inp.tail \in Nat /\ k < inp.tail /\ inp.tail < k + Depth
    BY <1>1, DepthAssumption, SMTT(30) DEF InputInv, InputTypes, InputOrder
  <2>2. QED
    BY <2>1, SlotInRing, SlotsDiffer, Zenon
<1>5. CASE EnqueuePayload
  <2>1. inDesc' = inDesc /\ iPc' # "notify"
    BY <1>5, Zenon DEF EnqueuePayload
  <2>2. QED
    BY <1>1, <1>2, <2>1, Zenon DEF InputInv, InputTypes, InputSlots
<1>6. CASE EnqueueFields
  <2>1. InOffset \in Nat
    BY <1>1, OffsetType, ArenaAssumption, Zenon DEF InOffset, InputInv, InputTypes
  <2>2. inDesc' = [inDesc EXCEPT ![Slot(inp.tail)] =
                     [@ EXCEPT !.op = iCall.op, !.off = InOffset, !.n = iCall.n]] /\ iPc' # "notify"
    BY <1>6, Zenon DEF EnqueueFields
  <2> HIDE DEF InOffset
  <2>3. inDesc' \in Ring
    <3>1. inDesc \in Ring /\ iCall.op \in Opcodes /\ iCall.n \in Nat
      BY <1>1, <1>6, Zenon DEF InputInv, InputTypes, EnqueueFields, Writing
    <3>2. \A d \in Descriptor : [d EXCEPT !.op = iCall.op, !.off = InOffset, !.n = iCall.n] \in Descriptor
      BY <2>1, <3>1, Zenon DEF Descriptor
    <3>3. QED
      BY <1>3, <2>2, <3>1, <3>2, Zenon DEF Ring
  <2>4. \A k \in inp.head .. inp.tail - 1 : inDesc'[Slot(k)] = inDesc[Slot(k)]
    BY <1>4, <2>2, Zenon DEF InputInv, InputTypes, Ring
  <2>5. QED
    BY <1>1, <1>2, <2>2, <2>3, <2>4, Zenon DEF InputInv, InputTypes, InputSlots
<1>7. CASE EnqueueSeq
  <2>2. inDesc' = [inDesc EXCEPT ![Slot(inp.tail)].seq = inp.tail + 1]
    BY <1>7, Zenon DEF EnqueueSeq
  <2>1. inp.tail + 1 \in Nat /\ inDesc[Slot(inp.tail)] \in Descriptor
    BY <1>3 DEF InputInv, InputTypes, Ring
  <2>3. inDesc' \in Ring /\ inDesc'[Slot(inp.tail)].seq = inp.tail + 1
    <3>1. [inDesc[Slot(inp.tail)] EXCEPT !.seq = inp.tail + 1] \in Descriptor
      BY <2>1, Zenon DEF Descriptor
    <3>2. inDesc'[Slot(inp.tail)] = [inDesc[Slot(inp.tail)] EXCEPT !.seq = inp.tail + 1]
      BY <1>3, <2>2, Zenon DEF InputInv, InputTypes, Ring
    <3>3. QED
      BY <1>3, <2>1, <2>2, <3>1, <3>2, Zenon DEF InputInv, InputTypes, Ring, Descriptor
  <2>4. \A k \in inp.head .. inp.tail - 1 : inDesc'[Slot(k)] = inDesc[Slot(k)]
    BY <1>4, <2>2, Zenon DEF InputInv, InputTypes, Ring
  <2>5. QED
    BY <1>1, <1>2, <2>3, <2>4, Zenon DEF InputInv, InputTypes, InputSlots
<1>8. QED
  BY <1>5, <1>6, <1>7, Zenon

(* Publishing the tail adds the slot just written to the span.               *)
LEMMA InputNotify ==
  ASSUME InputInv, EnqueueNotify
  PROVE  InputInv'
<1>1. /\ iPc = "notify" /\ iPc \in Writing /\ iPc' = "idle" /\ iPc' \notin Writing
      /\ UNCHANGED <<inDesc, pin, inHead, pPc, sc>>
      /\ inTail' = Low(inp.tail + 1)
  BY Zenon DEF EnqueueNotify, Writing, peerVars
<1>2. Advanced(inp.ptail, iCall.n, InBytes) \in Nat
  BY <1>1, OffsetType, ArenaAssumption, Zenon DEF InputInv, InputTypes
<1>3. inp'.tail = inp.tail + 1 /\ inp'.head = inp.head /\ inp'.ptail \in Nat /\ DOMAIN inp' = DOMAIN inp
  BY <1>2, Zenon DEF EnqueueNotify, InputInv, InputTypes
<1>4. InputTypes'
  BY <1>1, <1>3 DEF InputInv, InputTypes
<1>5. InputOrder'
  BY <1>1, <1>3, DepthAssumption, SMTT(30) DEF InputInv, InputTypes, InputOrder
<1>6. InputSlots'
  BY <1>1, <1>3, SMTT(30) DEF InputInv, InputTypes, InputSlots
<1>7. QED
  BY <1>4, <1>5, <1>6, Zenon DEF InputInv

(* The peer's window. *)
LEMMA EntriesMarked ==
  ASSUME NEW s \in Seq(Entry), NEW i \in DOMAIN s
  PROVE  /\ [s EXCEPT ![i].done = TRUE] \in Seq(Entry)
         /\ Len([s EXCEPT ![i].done = TRUE]) = Len(s)
<1> DEFINE t == [s EXCEPT ![i].done = TRUE]
<1>1. DOMAIN s = 1 .. Len(s) /\ Len(s) \in Nat /\ s \in [1 .. Len(s) -> Entry]
  OBVIOUS
<1>2. [s[i] EXCEPT !.done = TRUE] \in Entry
  <2>1. s[i] \in Entry
    BY <1>1, Zenon
  <2>2. QED
    BY <2>1, Zenon DEF Entry
<1>3. t \in [1 .. Len(s) -> Entry]
  BY <1>1, <1>2, Zenon
<1>4. QED
  BY <1>1, <1>3

(* A poll that finds nothing adopts the published tail at most.              *)
LEMMA InputPeek ==
  ASSUME InputInv, NEW block \in BOOLEAN, PeerPeekNothing(block)
  PROVE  InputInv'
<1>1. pin'.tail = inp.tail /\ pin'.head = pin.head /\ pin'.acq = pin.acq /\ pin'.active = pin.active
      /\ DOMAIN pin' = DOMAIN pin
  BY InputSeen, Zenon DEF PeerPeekNothing, InputInv, InputTypes
<1>2. UNCHANGED <<inDesc, inp, inHead, inTail, iPc, iCall, pPc, sc>>
  BY Zenon DEF PeerPeekNothing, region, iniVars
<1>3. InputTypes'
  BY <1>1, <1>2, Zenon DEF InputInv, InputTypes
<1>4. InputOrder'
  BY <1>1, <1>2, DepthAssumption DEF InputInv, InputTypes, InputOrder
<1>5. QED
  BY <1>2, <1>3, <1>4, Zenon DEF InputInv, InputSlots

(* The peer acquires the next message of its window.                         *)
LEMMA InputAcquire ==
  ASSUME InputInv, PeerAcquire
  PROVE  InputInv'
<1>1. UNCHANGED <<inDesc, inp, inHead, inTail, iPc, iCall, sc>> /\ (pPc' = pPc \/ pPc' = "idle")
  BY Zenon DEF PeerAcquire, region, iniVars, PoisonPeer
<1>2. CASE pin' = pin
  <2>1. InputQuiet
    BY <1>1, <1>2, Zenon DEF InputQuiet
  <2>2. QED
    BY <2>1, InputFrame, Zenon
<1>3. CASE pin' # pin
  <2>1. /\ Reconstructs(inTail, pin.tail) /\ SeenInTail # pin.acq
        /\ pin' = [pin EXCEPT !.tail = SeenInTail, !.acq = @ + 1, !.stop = InNext.op = "STOP",
                              !.pacq = Advanced(@, InNext.n, InBytes),
                              !.active = Append(@, [seq |-> InNext.seq, op |-> InNext.op, off |-> InNext.off,
                                                    n |-> InNext.n, done |-> FALSE])]
    BY <1>3, Zenon DEF PeerAcquire, NothingToAcquire
  <2>2. InNext \in Descriptor
    BY SlotInRing, Zenon DEF InputInv, InputTypes, Ring, InNext
  <2> DEFINE e == [seq |-> InNext.seq, op |-> InNext.op, off |-> InNext.off, n |-> InNext.n, done |-> FALSE]
  <2>3. e \in Entry
    BY <2>2, Zenon DEF Descriptor, Entry
  <2>4. /\ pin'.tail = inp.tail /\ pin'.head = pin.head /\ pin'.acq = pin.acq + 1
        /\ pin'.active = Append(pin.active, e) /\ DOMAIN pin' = DOMAIN pin
    BY <2>1, InputSeen, Zenon DEF InputInv, InputTypes
  <2>5. pin.acq < inp.tail
    BY <2>1, InputSeen DEF InputInv, InputTypes, InputOrder
  <2> HIDE DEF e
  <2>6. Append(pin.active, e) \in Seq(Entry) /\ Len(Append(pin.active, e)) = Len(pin.active) + 1
        /\ Append(pin.active, e) # <<>>
    BY <2>3, SMTT(30) DEF InputInv, InputTypes
  <2>7. InputTypes'
    BY <1>1, <2>4, <2>6 DEF InputInv, InputTypes
  <2>8. InputOrder'
    <3>1. /\ inp.head \in Nat /\ inp.tail \in Nat /\ pin.head \in Nat /\ pin.acq \in Nat
          /\ Len(pin.active) \in Nat
      BY DEF InputInv, InputTypes
    <3>2. InputOrder /\ pin.acq = pin.head + Len(pin.active)
      BY Zenon DEF InputInv, InputOrder
    <3>3. pin'.acq = pin'.head + Len(pin'.active) /\ pin'.acq <= pin'.tail
      BY SMTT(30), <2>4, <2>5, <2>6, <3>1, <3>2
    <3>4. QED
      BY <1>1, <2>4, <2>6, <3>1, <3>2, <3>3 DEF InputOrder
  <2>9. QED
    BY <1>1, <2>7, <2>8, Zenon DEF InputInv, InputSlots
<1>4. QED
  BY <1>2, <1>3, Zenon

(* Releasing a handle marks it; the head moves in the turns that follow.     *)
LEMMA InputComplete ==
  ASSUME InputInv, NEW i, PeerRelease(i)
  PROVE  InputInv'
<1> DEFINE t == [pin.active EXCEPT ![i].done = TRUE]
<1>1. UNCHANGED <<inDesc, inp, inHead, inTail, iPc, iCall, sc>> /\ i \in DOMAIN pin.active
  BY Zenon DEF PeerRelease, region, iniVars
<1>2. /\ pin'.tail = pin.tail /\ pin'.head = pin.head /\ pin'.acq = pin.acq
      /\ pin'.active = t /\ DOMAIN pin' = DOMAIN pin
  BY Zenon DEF PeerRelease, InputInv, InputTypes
<1>3. t \in Seq(Entry) /\ Len(t) = Len(pin.active) /\ pin.active \in Seq(Entry)
  BY <1>1, EntriesMarked, Zenon DEF InputInv, InputTypes
<1> HIDE DEF t
<1>4. t # <<>>
  BY <1>1, <1>3
<1>5. InputTypes'
  BY <1>1, <1>2, <1>3, Zenon DEF InputInv, InputTypes
<1>6. InputOrder'
  BY <1>1, <1>2, <1>3, <1>4, Zenon DEF InputInv, InputOrder
<1>7. QED
  BY <1>1, <1>5, <1>6, Zenon DEF InputInv, InputSlots

(* The released head advances in order and gives the slot back.              *)
LEMMA InputRelease ==
  ASSUME InputInv, PeerReleaseTurn
  PROVE  InputInv'
<1>1. UNCHANGED <<inDesc, inp, inTail, iPc, iCall, sc>>
  BY Zenon DEF PeerReleaseTurn, iniVars
<1>2. CASE pin' = pin /\ inHead' = inHead /\ pPc' = "idle"
  <2>1. InputQuiet
    BY <1>1, <1>2, Zenon DEF InputQuiet
  <2>2. QED
    BY <2>1, InputFrame, Zenon
<1>3. CASE ~(pin' = pin /\ inHead' = inHead /\ pPc' = "idle")
  <2>1. /\ inHead' = Low(pin.head + 1)
        /\ pin' = [pin EXCEPT !.head = @ + 1, !.phead = Advanced(@, Head(pin.active).n, InBytes),
                              !.active = Tail(@), !.drained = @ \/ Head(pin.active).op = "STOP"]
        /\ pPc' = "release" => Tail(pin.active) # <<>>
    BY <1>3, Zenon DEF PeerReleaseTurn, PoisonPeer, PrefixDone
  <2>2. pin.active \in Seq(Entry) /\ pin.active # <<>>
    BY Zenon DEF PeerReleaseTurn, InputInv, InputTypes, InputOrder
  <2>3. Tail(pin.active) \in Seq(Entry) /\ Len(Tail(pin.active)) = Len(pin.active) - 1 /\ Len(pin.active) \in Nat
    BY <2>2
  <2>4. /\ pin'.tail = pin.tail /\ pin'.head = pin.head + 1 /\ pin'.acq = pin.acq
        /\ pin'.active = Tail(pin.active) /\ DOMAIN pin' = DOMAIN pin
    BY <2>1, Zenon DEF InputInv, InputTypes
  <2>5. InputTypes'
    BY <1>1, <2>3, <2>4 DEF InputInv, InputTypes
  <2>6. InputOrder'
    <3>1. inp.head \in Nat /\ inp.tail \in Nat /\ pin.head \in Nat /\ pin.acq \in Nat
      BY Zenon DEF InputInv, InputTypes
    <3>2. InputOrder /\ pin.acq = pin.head + Len(pin.active) /\ inp.head <= pin.head
      BY Zenon DEF InputInv, InputOrder
    <3>3. pin'.acq = pin'.head + Len(pin'.active) /\ inp.head <= pin'.head
      BY SMTT(30), <2>3, <2>4, <3>1, <3>2
    <3>4. QED
      BY <1>1, <2>1, <2>4, <3>2, <3>3, Zenon DEF InputOrder
  <2>7. QED
    BY <1>1, <2>5, <2>6, Zenon DEF InputInv, InputSlots
<1>4. QED
  BY <1>2, <1>3, Zenon

(* Every other step leaves the input direction alone. *)
LEMMA InputStep == InputInv /\ [Next]_vars => InputInv'
<1> SUFFICES ASSUME InputInv, [Next]_vars PROVE InputInv'
  OBVIOUS
<1>1. CASE \E call \in Calls : EnqueueAborted(call) \/ EnqueueFull(call) \/ EnqueueStart(call)
  BY <1>1, InputEnqueue, Zenon
<1>2. CASE EnqueuePayload \/ EnqueueFields \/ EnqueueSeq \/ EnqueueNotify
  BY <1>2, InputWrite, InputNotify, Zenon
<1>3. CASE \E block \in BOOLEAN : PeerPeekNothing(block)
  BY <1>3, InputPeek, Zenon
<1>4. CASE PeerAcquire \/ PeerReleaseTurn \/ \E i \in 1 .. sc.window + 1 : PeerRelease(i)
  BY <1>4, InputAcquire, InputRelease, InputComplete, Zenon
<1>5. CASE Wake \/ Timeout \/ Free \/ Expire \/ StaleHandle \/ InitiatorFault \/ ReleaseOutput
  <2>1. InputQuiet
    BY <1>5, Zenon DEF Wake, Timeout, Free, Expire, StaleHandle, InitiatorFault, ReleaseOutput, RemoteAbortSeen,
                PoisonInitiator, region, peerVars, InputQuiet, Writing
  <2>2. QED
    BY <2>1, InputFrame, Zenon
<1>6. CASE \E block \in BOOLEAN :
             PeekAborted(Peek(block)) \/ PeekEmpty(Peek(block)) \/ PeekMessage(Peek(block))
  <2>1. InputQuiet
    BY <1>6, Zenon DEF PeekAborted, PeekEmpty, PeekMessage, RemoteAbortSeen, PoisonInitiator, region, peerVars,
                InputQuiet, Writing
  <2>2. QED
    BY <2>1, InputFrame, Zenon
<1>7. CASE \/ \E n \in sc.sizes : PeerReserve(n) \/ \E block \in BOOLEAN : PeerReserveFull(n, block)
           \/ \E op \in {"DATA", "ERROR"} : PeerPublish(op)
  <2>1. InputQuiet
    BY <1>7, Zenon DEF PeerReserve, PeerReserveFull, PeerPublish, PoisonPeer, region, iniVars, InputQuiet
  <2>2. QED
    BY <2>1, InputFrame, Zenon
<1>8. CASE PeerFill \/ PublishFields \/ PublishSeq \/ PublishNotify \/ PeerMisuse \/ PeerFault \/ UNCHANGED vars
  <2>1. InputQuiet
    BY <1>8, Zenon DEF PeerFill, PublishFields, PublishSeq, PublishNotify, PeerMisuse, PeerFault, PoisonPeer, region,
                iniVars, peerVars, vars, InputQuiet
  <2>2. QED
    BY <2>1, InputFrame, Zenon
<1>9. QED
  BY <1>1, <1>2, <1>3, <1>4, <1>5, <1>6, <1>7, <1>8, Zenon DEF Next, InitiatorNext, PeerNext

-----------------------------------------------------------------------------
(* Output *)
LEMMA OutputInit == Init => OutputInv
<1> SUFFICES ASSUME Init PROVE OutputInv
  OBVIOUS
<1>1. OutputTypes
  BY DepthAssumption, Zenon DEF Init, OutputTypes, Ring, Descriptor, Opcodes, None
<1>2. OutputOrder
  <2>1. 0 = Low(0)
    BY DepthAssumption DEF Low
  <2>2. QED
    BY <2>1, DepthAssumption DEF Init, OutputOrder, None
<1>3. OutputSlots
  BY DEF Init, OutputSlots
<1>4. QED
  BY <1>1, <1>2, <1>3, Zenon DEF OutputInv

OutputQuiet ==
    /\ UNCHANGED <<outDesc, outp, pout, outHead, outTail, sc>>
    /\ pPc' \notin {"fields", "seq", "notify"} \/ pPc' = pPc

(* A step that is quiet on output keeps its invariant.                       *)
LEMMA OutputFrame ==
  ASSUME OutputInv, OutputQuiet
  PROVE  OutputInv'
BY Zenon DEF OutputInv, OutputQuiet, OutputTypes, OutputOrder, OutputSlots

(* The initiator adopts the published tail and takes the message at its      *)
(* head.                                                                     *)
LEMMA OutputPeek ==
  ASSUME OutputInv, NEW call, PeekAborted(call) \/ PeekEmpty(call) \/ PeekMessage(call)
  PROVE  OutputInv'
<1>1. UNCHANGED <<outDesc, pout, outHead, outTail, pPc, sc>>
  BY Zenon DEF PeekAborted, PeekEmpty, PeekMessage, region, peerVars
<1>2. CASE outp' = outp
  <2>1. OutputQuiet
    BY <1>1, <1>2, Zenon DEF OutputQuiet
  <2>2. QED
    BY <2>1, OutputFrame, Zenon
<1>3. CASE outp' # outp
  <2>1. /\ DOMAIN outp' = DOMAIN outp /\ outp'.head = outp.head /\ outp'.tail = pout.tail
        /\ outp'.active # None => outp.head < pout.tail
    <3>1. CASE PeekEmpty(call)
      BY <3>1, OutputSeen, Zenon DEF PeekEmpty, OutputInv, OutputTypes
    <3>2. CASE PeekMessage(call)
      <4>1. outp' = [outp EXCEPT !.tail = SeenOutTail, !.active = OutFront] /\ SeenOutTail # outp.head
        BY <1>3, <3>2, Zenon DEF PeekMessage
      <4>2. outp.head < pout.tail
        BY <4>1, OutputSeen DEF OutputInv, OutputTypes, OutputOrder
      <4>3. QED
        BY <4>1, <4>2, OutputSeen, Zenon DEF OutputInv, OutputTypes
    <3>3. QED
      BY <1>3, <3>1, <3>2, Zenon DEF PeekAborted
  <2>2. OutputTypes'
    BY <1>1, <2>1, Zenon DEF OutputInv, OutputTypes
  <2>3. OutputOrder'
    BY <1>1, <2>1 DEF OutputInv, OutputTypes, OutputOrder
  <2>4. QED
    BY <1>1, <2>2, <2>3, Zenon DEF OutputInv, OutputSlots
<1>4. QED
  BY <1>2, <1>3, Zenon

(* The initiator gives the slot of its message back.                         *)
LEMMA OutputRelease ==
  ASSUME OutputInv, ReleaseOutput
  PROVE  OutputInv'
<1>1. UNCHANGED <<outDesc, pout, outTail, pPc, sc>> /\ outp.active # None
  BY Zenon DEF ReleaseOutput, peerVars
<1>2. CASE outp' = outp /\ outHead' = outHead
  <2>1. OutputQuiet
    BY <1>1, <1>2, Zenon DEF OutputQuiet
  <2>2. QED
    BY <2>1, OutputFrame, Zenon
<1>3. CASE ~(outp' = outp /\ outHead' = outHead)
  <2>1. /\ outHead' = Low(outp.head + 1)
        /\ outp' = [outp EXCEPT !.head = @ + 1, !.active = None,
                                !.phead = Advanced(@, outp.active.n, OutBytes)]
    BY <1>3, Zenon DEF ReleaseOutput
  <2>2. /\ DOMAIN outp' = DOMAIN outp /\ outp'.head = outp.head + 1 /\ outp'.tail = outp.tail
        /\ outp'.active = None
    BY <2>1, Zenon DEF OutputInv, OutputTypes
  <2>3. OutputTypes'
    BY <1>1, <2>2 DEF OutputInv, OutputTypes
  <2>4. OutputOrder'
    BY <1>1, <2>1, <2>2 DEF OutputInv, OutputTypes, OutputOrder
  <2>5. QED
    BY <1>1, <2>3, <2>4, Zenon DEF OutputInv, OutputSlots
<1>4. QED
  BY <1>2, <1>3, Zenon

(* The peer reserves the slot at its tail when its view of the head leaves   *)
(* room.                                                                     *)
LEMMA OutputReserve ==
  ASSUME OutputInv, NEW n \in sc.sizes,
         PeerReserve(n) \/ \E block \in BOOLEAN : PeerReserveFull(n, block)
  PROVE  OutputInv'
<1>1. UNCHANGED <<outDesc, outp, outHead, outTail, sc>> /\ pPc = "idle" /\ pPc' = "idle" /\ pout.res = None
  BY Zenon DEF PeerReserve, PeerReserveFull, Reserving, PeerIdle, PoisonPeer, region, iniVars
<1>2. n \in Nat
  BY SizesAssumption, Zenon DEF OutputInv, OutputTypes
<1>3. CASE pout' = pout
  <2>1. OutputQuiet
    BY <1>1, <1>3, Zenon DEF OutputQuiet
  <2>2. QED
    BY <2>1, OutputFrame, Zenon
<1>4. CASE \E block \in BOOLEAN : PeerReserveFull(n, block)
  <2>1. /\ DOMAIN pout' = DOMAIN pout /\ pout'.head = outp.head /\ pout'.tail = pout.tail
        /\ pout'.ptail = pout.ptail /\ pout'.res = None
    BY <1>1, <1>4, OutputSeen, ZenonT(30) DEF PeerReserveFull, OutputInv, OutputTypes
  <2>2. OutputTypes'
    BY <1>1, <2>1, Zenon DEF OutputInv, OutputTypes
  <2>3. OutputOrder'
    BY <1>1, <2>1, DepthAssumption, SMTT(30) DEF OutputInv, OutputTypes, OutputOrder
  <2>4. OutputSlots'
    BY <1>1, <2>1 DEF OutputInv, OutputTypes, OutputOrder, OutputSlots
  <2>5. QED
    BY <2>2, <2>3, <2>4, Zenon DEF OutputInv
<1>5. CASE PeerReserve(n) /\ pout' # pout
  <2> DEFINE off == IF n = 0 THEN 0 ELSE ExpectedOffset(pout.ptail, n, OutBytes)
             res == [seq |-> pout.tail + 1, n |-> n, op |-> "INVALID", filled |-> n = 0, off |-> off]
  <2>1. /\ OutRoom(n)
        /\ pout' = [pout EXCEPT !.head = SeenOutHead, !.phead = OutReplay.c,
                                !.ptail = Advanced(@, n, OutBytes), !.res = res]
    BY <1>5, Zenon DEF PeerReserve
  <2>2. off \in Nat /\ Advanced(pout.ptail, n, OutBytes) \in Nat
    BY <1>2, OffsetType, ArenaAssumption, Zenon DEF OutputInv, OutputTypes
  <2> HIDE DEF off
  <2>3. res \in Reservation /\ res.seq = pout.tail + 1
    <3>1. pout.tail + 1 \in Nat /\ n \in Nat
      BY <1>2 DEF OutputInv, OutputTypes
    <3>2. (n = 0) \in BOOLEAN /\ "INVALID" \in Opcodes
      BY Zenon DEF Opcodes
    <3>3. QED
      BY <2>2, <3>1, <3>2, Zenon DEF Reservation
  <2> HIDE DEF res
  <2>4. /\ DOMAIN pout' = DOMAIN pout /\ pout'.head = outp.head /\ pout'.tail = pout.tail
        /\ pout'.ptail \in Nat /\ pout'.res = res
    BY <2>1, <2>2, OutputSeen, Zenon DEF OutputInv, OutputTypes
  <2>5. pout.tail < outp.head + Depth
    BY <2>1, OutputSeen, DepthAssumption DEF OutRoom, OutputInv, OutputTypes
  <2>6. OutputTypes'
    BY <1>1, <2>3, <2>4, Zenon DEF OutputInv, OutputTypes
  <2>7. OutputOrder'
    BY <1>1, <2>4, <2>5, DepthAssumption DEF OutputInv, OutputTypes, OutputOrder
  <2>8. OutputSlots'
    BY <1>1, <2>4 DEF OutputInv, OutputTypes, OutputOrder, OutputSlots
  <2>9. QED
    BY <2>6, <2>7, <2>8, Zenon DEF OutputInv
<1>6. QED
  BY <1>3, <1>4, <1>5, Zenon

(* Filling a reservation and naming its opcode keep it the next message. *)
LEMMA OutputFill ==
  ASSUME OutputInv, PeerFill \/ \E op \in {"DATA", "ERROR"} : PeerPublish(op)
  PROVE  OutputInv'
<1>1. UNCHANGED <<outDesc, outp, outHead, outTail, sc>> /\ pPc = "idle" /\ pPc' \in {"idle", "fields"}
      /\ pout.res # None
  BY Zenon DEF PeerFill, PeerPublish, PeerIdle, region, iniVars
<1>2. pout.res \in Reservation /\ pout.res.seq = pout.tail + 1 /\ pout.tail \in Nat
  BY <1>1, Zenon DEF OutputInv, OutputTypes
<1>3. /\ DOMAIN pout' = DOMAIN pout /\ pout'.head = pout.head /\ pout'.tail = pout.tail
      /\ pout'.ptail = pout.ptail /\ pout'.res \in Reservation /\ pout'.res.seq = pout.tail + 1
  <2>1. CASE PeerFill
    <3>1. pout'.res = [pout.res EXCEPT !.filled = TRUE]
      BY <2>1, Zenon DEF PeerFill, OutputInv, OutputTypes
    <3>2. QED
      BY <1>2, <2>1, <3>1, Zenon DEF PeerFill, OutputInv, OutputTypes, Reservation
  <2>2. CASE \E op \in {"DATA", "ERROR"} : PeerPublish(op)
    <3>0. PICK op \in {"DATA", "ERROR"} : PeerPublish(op)
      BY <2>2, Zenon
    <3>1. pout'.res = [pout.res EXCEPT !.op = op]
      BY <3>0, Zenon DEF PeerPublish, OutputInv, OutputTypes
    <3>2. QED
      BY <1>2, <3>0, <3>1, Zenon DEF PeerPublish, OutputInv, OutputTypes, Reservation, Opcodes
  <2>3. QED
    BY <2>1, <2>2, Zenon
<1>4. pout'.res # None
  BY <1>2, <1>3 DEF None
<1>5. OutputTypes'
  BY <1>1, <1>3, Zenon DEF OutputInv, OutputTypes
<1>6. OutputOrder'
  BY <1>1, <1>3, <1>4, Zenon DEF OutputInv, OutputOrder
<1>7. OutputSlots'
  BY <1>1, <1>3, Zenon DEF OutputInv, OutputSlots
<1>8. QED
  BY <1>5, <1>6, <1>7, Zenon DEF OutputInv

(* The descriptor is written to the slot at the tail, outside the span.      *)
LEMMA OutputWrite ==
  ASSUME OutputInv, PublishFields \/ PublishSeq
  PROVE  OutputInv'
<1>1. UNCHANGED <<outp, pout, outHead, outTail, sc>> /\ pPc \in {"fields", "seq"} /\ pPc' \in {"seq", "notify"}
  BY Zenon DEF PublishFields, PublishSeq, iniVars
<1>2. OutputOrder'
  BY <1>1, Zenon DEF OutputInv, OutputOrder
<1>3. pout.res # None /\ pout.res \in Reservation /\ pout.res.seq = pout.tail + 1
  BY <1>1, Zenon DEF OutputInv, OutputTypes, OutputOrder
<1>4. Slot(pout.tail) \in 0 .. Depth - 1
  BY SlotInRing, Zenon DEF OutputInv, OutputTypes
<1>5. \A k \in pout.head .. pout.tail - 1 : Slot(k) \in 0 .. Depth - 1 /\ Slot(k) # Slot(pout.tail)
  <2> SUFFICES ASSUME NEW k \in pout.head .. pout.tail - 1
               PROVE  Slot(k) \in 0 .. Depth - 1 /\ Slot(k) # Slot(pout.tail)
    OBVIOUS
  <2>1. k \in Nat /\ pout.tail \in Nat /\ k < pout.tail /\ pout.tail < k + Depth
    BY <1>3, DepthAssumption DEF OutputInv, OutputTypes, OutputOrder
  <2>2. QED
    BY <2>1, SlotInRing, SlotsDiffer, Zenon
<1> DEFINE d == outDesc[Slot(pout.tail)]
<1>6. d \in Descriptor
  BY <1>4, Zenon DEF OutputInv, OutputTypes, Ring
<1>7. CASE PublishFields
  <2>1. outDesc' = [outDesc EXCEPT ![Slot(pout.tail)] =
                      [@ EXCEPT !.op = pout.res.op, !.off = pout.res.off, !.n = pout.res.n]] /\ pPc' # "notify"
    BY <1>7, Zenon DEF PublishFields
  <2>2. [d EXCEPT !.op = pout.res.op, !.off = pout.res.off, !.n = pout.res.n] \in Descriptor
    BY <1>3, <1>6, Zenon DEF Descriptor, Reservation
  <2>3. outDesc' \in Ring
    BY <1>4, <2>1, <2>2, Zenon DEF OutputInv, OutputTypes, Ring
  <2>4. \A k \in pout.head .. pout.tail - 1 : outDesc'[Slot(k)] = outDesc[Slot(k)]
    BY <1>5, <2>1, Zenon DEF OutputInv, OutputTypes, Ring
  <2>5. QED
    BY <1>1, <1>2, <2>1, <2>3, <2>4, Zenon DEF OutputInv, OutputTypes, OutputSlots
<1>8. CASE PublishSeq
  <2>1. outDesc' = [outDesc EXCEPT ![Slot(pout.tail)].seq = pout.res.seq]
    BY <1>8, Zenon DEF PublishSeq
  <2>2. [d EXCEPT !.seq = pout.res.seq] \in Descriptor /\ [d EXCEPT !.seq = pout.res.seq].seq = pout.tail + 1
    BY <1>3, <1>6, Zenon DEF Descriptor, Reservation
  <2>3. outDesc' \in Ring /\ outDesc'[Slot(pout.tail)].seq = pout.tail + 1
    BY <1>4, <2>1, <2>2, Zenon DEF OutputInv, OutputTypes, Ring
  <2>4. \A k \in pout.head .. pout.tail - 1 : outDesc'[Slot(k)] = outDesc[Slot(k)]
    BY <1>5, <2>1, Zenon DEF OutputInv, OutputTypes, Ring
  <2>5. QED
    BY <1>1, <1>2, <2>3, <2>4, Zenon DEF OutputInv, OutputTypes, OutputSlots
<1>9. QED
  BY <1>7, <1>8, Zenon

(* Publishing the tail adds that slot to the span.                           *)
LEMMA OutputNotify ==
  ASSUME OutputInv, PublishNotify
  PROVE  OutputInv'
<1>1. /\ UNCHANGED <<outDesc, outp, outHead, sc>> /\ pPc = "notify" /\ pPc' = "idle"
      /\ outTail' = Low(pout.tail + 1)
  BY Zenon DEF PublishNotify, iniVars
<1>2. /\ DOMAIN pout' = DOMAIN pout /\ pout'.head = pout.head /\ pout'.tail = pout.tail + 1
      /\ pout'.ptail = pout.ptail /\ pout'.res = None
  BY Zenon DEF PublishNotify, OutputInv, OutputTypes
<1>3. pout.tail < pout.head + Depth
  BY <1>1, Zenon DEF OutputInv, OutputOrder
<1>4. OutputTypes'
  BY <1>1, <1>2 DEF OutputInv, OutputTypes
<1>5. OutputOrder'
  BY <1>1, <1>2, <1>3, DepthAssumption DEF OutputInv, OutputTypes, OutputOrder
<1>6. OutputSlots'
  BY <1>1, <1>2 DEF OutputInv, OutputTypes, OutputSlots
<1>7. QED
  BY <1>4, <1>5, <1>6, Zenon DEF OutputInv

(* Every other step leaves the output direction alone. *)
LEMMA OutputStep == OutputInv /\ [Next]_vars => OutputInv'
<1> SUFFICES ASSUME OutputInv, [Next]_vars PROVE OutputInv'
  OBVIOUS
<1>1. CASE \E block \in BOOLEAN :
             PeekAborted(Peek(block)) \/ PeekEmpty(Peek(block)) \/ PeekMessage(Peek(block))
  BY <1>1, OutputPeek, Zenon
<1>2. CASE ReleaseOutput \/ PublishFields \/ PublishSeq \/ PublishNotify
  BY <1>2, OutputRelease, OutputWrite, OutputNotify, Zenon
<1>3. CASE \E n \in sc.sizes : PeerReserve(n) \/ \E block \in BOOLEAN : PeerReserveFull(n, block)
  BY <1>3, OutputReserve, Zenon
<1>4. CASE PeerFill \/ \E op \in {"DATA", "ERROR"} : PeerPublish(op)
  BY <1>4, OutputFill, Zenon
<1>5. CASE \E call \in Calls : EnqueueAborted(call) \/ EnqueueFull(call) \/ EnqueueStart(call)
  <2>1. OutputQuiet
    BY <1>5, Zenon DEF EnqueueAborted, EnqueueFull, EnqueueStart, region, peerVars, OutputQuiet
  <2>2. QED
    BY <2>1, OutputFrame, Zenon
<1>6. CASE EnqueuePayload \/ EnqueueFields \/ EnqueueSeq \/ EnqueueNotify
  <2>1. OutputQuiet
    BY <1>6, Zenon DEF EnqueuePayload, EnqueueFields, EnqueueSeq, EnqueueNotify, peerVars, OutputQuiet
  <2>2. QED
    BY <2>1, OutputFrame, Zenon
<1>7. CASE Wake \/ Timeout \/ Free \/ Expire \/ StaleHandle \/ InitiatorFault
  <2>1. OutputQuiet
    BY <1>7, Zenon DEF Wake, Timeout, Free, Expire, StaleHandle, InitiatorFault, region, peerVars, OutputQuiet
  <2>2. QED
    BY <2>1, OutputFrame, Zenon
<1>8. CASE \/ \E block \in BOOLEAN : PeerPeekNothing(block)
           \/ PeerAcquire \/ PeerReleaseTurn \/ \E i \in 1 .. sc.window + 1 : PeerRelease(i)
  <2>1. OutputQuiet
    BY <1>8, Zenon DEF PeerPeekNothing, PeerAcquire, PeerReleaseTurn, PeerRelease, PoisonPeer, PeerIdle, region, iniVars,
                OutputQuiet
  <2>2. QED
    BY <2>1, OutputFrame, Zenon
<1>9. CASE PeerMisuse \/ PeerFault \/ UNCHANGED vars
  <2>1. OutputQuiet
    BY <1>9, Zenon DEF PeerMisuse, PeerFault, PoisonPeer, region, iniVars, peerVars, vars, OutputQuiet
  <2>2. QED
    BY <2>1, OutputFrame, Zenon
<1>10. QED
  BY <1>1, <1>2, <1>3, <1>4, <1>5, <1>6, <1>7, <1>8, <1>9, Zenon DEF Next, InitiatorNext, PeerNext

-----------------------------------------------------------------------------
(* For every ring depth and counter range with 2 * Depth < Modulus: after    *)
(* any interleaving, wrap, fault, abort or misuse the cursor each endpoint   *)
(* reconstructs from 32 bits (reconstruct_counter, _refresh_counter) is the  *)
(* one the other endpoint published.                                         *)
THEOREM CursorsAgree == Spec => []CountersExact
<1>1. Init => InputInv /\ OutputInv
  BY InputInit, OutputInit, Zenon
<1>2. (InputInv /\ OutputInv) /\ [Next]_vars => (InputInv /\ OutputInv)'
  BY InputStep, OutputStep, Zenon
<1>3. InputInv /\ OutputInv => CountersExact
  BY InputSeen, OutputSeen, Zenon DEF CountersExact
<1>4. QED
  BY <1>1, <1>2, <1>3, PTL DEF Spec

(* No descriptor is overwritten before its release is seen, in either ring:  *)
(* the sequence check of try_peek and of the replays never fails on a        *)
(* published descriptor.                                                     *)
THEOREM DescriptorsIntact == Spec => []DescriptorsStay
<1>1. Init => InputInv /\ OutputInv
  BY InputInit, OutputInit, Zenon
<1>2. (InputInv /\ OutputInv) /\ [Next]_vars => (InputInv /\ OutputInv)'
  BY InputStep, OutputStep, Zenon
<1>3. InputInv /\ OutputInv => DescriptorsStay
  BY Zenon DEF InputInv, OutputInv, InputSlots, OutputSlots, DescriptorsStay
<1>4. QED
  BY <1>1, <1>2, <1>3, PTL DEF Spec

(* Together: whatever the two ends do, they agree on the cursors and on the  *)
(* descriptors between head and tail.                                        *)
THEOREM EndsAlwaysAgree == Spec => []EndsAgree
<1>1. CountersExact /\ DescriptorsStay => EndsAgree
  BY Zenon DEF EndsAgree
<1>2. QED
  BY <1>1, CursorsAgree, DescriptorsIntact, PTL
=============================================================================
