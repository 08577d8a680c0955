--------------------------- MODULE RunFrameProofs --------------------------
(***************************************************************************)
(* What the threads of RunAdmission do to the calls they are in and to the *)
(* tasks of the runs, and that neither the Scheduler nor a caller waiting  *)
(* for admission sleeps over work, proved for every number of users, runs, *)
(* tasks and resource sets.                                                *)
(***************************************************************************)
EXTENDS RunAdmissionProofs

(* A leaf that names no prover is Zenon's. *)
USE ZenonT(30)

-----------------------------------------------------------------------------
(* How the sections of a call nest.  A wait is alone; activate_fifo_head     *)
(* publishes at once; an endpoint's report ends with its outcome, on the     *)
(* sched thread; and while decrement_run_tasks is pending, the sections      *)
(* before it consume nothing more.                                           *)
Waits == {"begin", "await"}
Claims == {"consume", "cancel", "drop", "fail"}
Shape(t, s) ==
    /\ \A i \in 1 .. Len(s) : s[i][1] \in Waits => Len(s) = 1
    /\ \A i \in 1 .. Len(s) : s[i][1] = "publish" => i = 1
    /\ \A i \in 1 .. Len(s) : s[i][1] = "over" => t = Sched
    /\ \A i \in 1 .. Len(s) : s[i][1] = "outcome" => t = Sched /\ i = Len(s)
    /\ \A i, j \in 1 .. Len(s) : i < j /\ s[j][1] = "drop" => s[i][1] \notin Claims

(* Sections new that may be put before those behind the section old. *)
Nests(old, new) ==
    /\ \A i \in 1 .. Len(new) : new[i][1] \notin Waits \cup {"over", "outcome"}
    /\ \A i \in 1 .. Len(new) : new[i][1] = "publish" => i = 1
    /\ \A i \in 1 .. Len(new) : new[i][1] \in Claims => old[1] \in Claims
    /\ \A i, j \in 1 .. Len(new) : i < j /\ new[j][1] = "drop" => new[i][1] \notin Claims

(* Sections that nest anywhere. *)
Harmless == {"close", "refresh", "retireExec", "finish", "retire", "announce", "notify", "activate", "early"}

(* Returning from a section keeps the nesting. *)
LEMMA ThenShape ==
    ASSUME NEW t, NEW s \in Seq(Frames), s # <<>>, Shape(t, s), NEW new \in Seq(Frames), Nests(s[1], new)
    PROVE  Shape(t, new \o Tail(s))
<1> DEFINE c == new \o Tail(s)
           n == Len(new)
<1>1. /\ Len(c) = n + Len(s) - 1 /\ n \in Nat /\ Len(s) \in Nat /\ Len(s) >= 1
      /\ \A i \in 1 .. n : c[i] = new[i]
      /\ \A i \in n + 1 .. Len(c) : i - n + 1 \in 2 .. Len(s) /\ c[i] = s[i - n + 1]
  BY SMTT(30)
<1>2. \A i \in 1 .. Len(c) : i \in 1 .. n \/ i \in n + 1 .. Len(c)
  <2> HIDE DEF c, n
  <2>1. QED
    BY <1>1, SMTT(30)
<1>3. \A i \in 2 .. Len(s) : i \in 1 .. Len(s) /\ i # 1 /\ Len(s) # 1
  BY <1>1, SMTT(30)
<1> HIDE DEF c, n
<1>4. \A i \in n + 1 .. Len(c) : c[i][1] \notin Waits \cup {"publish"}
  BY <1>1, <1>3 DEF Shape
<1>5. \A i \in 1 .. n : c[i][1] \notin Waits \cup {"over", "outcome"} /\ (c[i][1] = "publish" => i = 1)
  BY <1>1 DEF Nests, n
<1>6. \A i \in n + 1 .. Len(c) : (c[i][1] = "over" => t = Sched) /\ (c[i][1] = "outcome" => t = Sched /\ i = Len(c))
  <2> SUFFICES ASSUME NEW i \in n + 1 .. Len(c)
               PROVE  (c[i][1] = "over" => t = Sched) /\ (c[i][1] = "outcome" => t = Sched /\ i = Len(c))
    OBVIOUS
  <2>1. i - n + 1 \in 1 .. Len(s) /\ c[i] = s[i - n + 1]
    BY <1>1, <1>3
  <2>2. i - n + 1 = Len(s) => i = Len(c)
    BY <1>1, SMTT(30)
  <2>3. QED
    BY <2>1, <2>2 DEF Shape
<1>7. ASSUME NEW i \in 1 .. Len(c), NEW j \in 1 .. Len(c), i < j, c[j][1] = "drop" PROVE c[i][1] \notin Claims
  <2>1. CASE j \in 1 .. n
    <3>1. i \in 1 .. n
      BY <1>1, <1>7, <2>1, SMTT(30)
    <3>2. QED
      BY <1>1, <1>7, <2>1, <3>1 DEF Nests, n
  <2>2. CASE j \in n + 1 .. Len(c)
    <3>1. /\ j - n + 1 \in 1 .. Len(s) /\ 1 \in 1 .. Len(s) /\ 1 < j - n + 1 /\ s[j - n + 1][1] = "drop"
      BY <1>1, <1>7, <2>2, SMTT(30)
    <3>2. s[1][1] \notin Claims
      BY <3>1 DEF Shape
    <3>3. CASE i \in 1 .. n
      BY <1>1, <3>2, <3>3 DEF Nests, n
    <3>4. CASE i \in n + 1 .. Len(c)
      <4>1. i - n + 1 \in 1 .. Len(s) /\ i - n + 1 < j - n + 1 /\ c[i] = s[i - n + 1]
        BY <1>1, <1>7, <3>4, SMTT(30)
      <4>2. QED
        BY <3>1, <4>1 DEF Shape
    <3>5. QED
      BY <1>2, <3>3, <3>4
  <2>3. QED
    BY <1>2, <2>1, <2>2
<1>8. QED
  <2>1. Shape(t, c)
    BY <1>2, <1>4, <1>5, <1>6, <1>7 DEF Shape
  <2>2. QED
    BY <2>1, SMTT(30) DEF c

-----------------------------------------------------------------------------
(* What a step does to the pending sections: only thread t runs, it returns  *)
(* from the section old and has the sections F to run besides, which are of  *)
(* the kinds ops and of the run r or of none.                                *)
Does(t, old, F, r, ops) ==
    /\ \A u \in Threads, f \in Frames : Pending(u, f)' => Pending(u, f) \/ (u = t /\ f \in F)
    /\ \A u \in Threads, f \in Frames : Pending(u, f) => Pending(u, f)' \/ (u = t /\ f = old)
    /\ \A f \in F : Pending(t, f)' /\ f \in Frames /\ f[1] \in ops /\ f[2] \in {r, NoRun}
    /\ \A u \in Threads : u # t => todo'[u] = todo[u]
    /\ ops \subseteq Harmless /\ Shape(t, todo[t]) => Shape(t, todo'[t])
    /\ t \notin asleep

(* F is the set of the sections in new. *)
Lists(new, F, r, ops) ==
    /\ new \in Seq(Frames)
    /\ \A i \in 1 .. Len(new) : new[i] \in F
    /\ \A f \in F : f \in Frames /\ f[1] \in ops /\ f[2] \in {r, NoRun} /\ \E i \in 1 .. Len(new) : new[i] = f

(* A section that is run pushes new. *)
LEMMA ThenDoes ==
    ASSUME LeaseInv, NEW t \in Threads, NEW old \in Frames, NEW new, At(t, old), Then(t, new),
           NEW F, NEW r, NEW ops, "begin" \notin ops, Lists(new, F, r, ops)
    PROVE  Does(t, old, F, r, ops)
<1>1. \A i \in 1 .. Len(new) : new[i] # Frame("begin", NoRun)
  <2>1. Frame("begin", NoRun)[1] = "begin"
    BY SMTT(30) DEF Frame
  <2>2. QED
    BY <2>1 DEF Lists
<1>2. Moves(old, new) /\ new \in Seq(Frames)
  BY <1>1, InvTodo, ThenMoves DEF Lists
<1>3. \A u \in Threads : u # t => todo'[u] = todo[u]
  BY DEF Then, LeaseInv, TodoInv
<1>4. \A u \in Threads, f \in Frames : u # t => (Pending(u, f)' <=> Pending(u, f))
  BY <1>3 DEF Pending
<1>5. t \notin asleep
  BY DEF At
<1>6. \A u \in Threads, f \in Frames : Pending(u, f)' => Pending(u, f) \/ (u = t /\ f \in F)
  <2>1. \A f : (\E i \in 1 .. Len(new) : new[i] = f) => f \in F
    BY DEF Lists
  <2>2. \A u \in Threads, f \in Frames : Pending(u, f)' => Pending(u, f) \/ f \in F
    BY <1>2, <2>1 DEF Moves
  <2>3. QED
    BY <1>4, <2>2
<1>7. \A u \in Threads, f \in Frames : Pending(u, f) => Pending(u, f)' \/ (u = t /\ f = old)
  BY <1>2, <1>4 DEF Moves
<1>8. ASSUME NEW f \in F PROVE Pending(t, f)'
  <2>1. PICK i \in 1 .. Len(new) : new[i] = f
    BY DEF Lists
  <2>2. todo[t] \in Seq(Frames) /\ todo[t] # <<>> /\ todo'[t] = new \o Tail(todo[t])
    BY DEF At, Then, LeaseInv, TodoInv
  <2>3. i \in 1 .. Len(todo'[t]) /\ todo'[t][i] = f
    BY <1>2, <2>1, <2>2, SMTT(30)
  <2>4. QED
    BY <2>3 DEF Pending
<1>9. ASSUME ops \subseteq Harmless, Shape(t, todo[t]) PROVE Shape(t, todo'[t])
  <2>1. \A i \in 1 .. Len(new) : new[i][1] \in Harmless
    BY <1>9 DEF Lists
  <2>2. Nests(todo[t][1], new)
    BY <2>1 DEF Nests, Harmless, Waits, Claims
  <2>3. todo[t] \in Seq(Frames) /\ todo[t] # <<>> /\ todo'[t] = new \o Tail(todo[t])
    BY DEF At, Then, LeaseInv, TodoInv
  <2>4. QED
    BY <1>2, <1>9, <2>2, <2>3, ThenShape
<1>10. QED
  BY <1>3, <1>5, <1>6, <1>7, <1>8, <1>9 DEF Does, Lists

(* A call of a thread that was outside the Orchestrator, or in begin_run. *)
LEMMA CallDoes ==
    ASSUME LeaseInv, NEW t \in Threads, NEW new, Call(t, new), t \notin asleep,
           todo[t] = <<>> \/ todo[t] = <<Frame("begin", NoRun)>>,
           NEW F, NEW r, NEW ops, Lists(new, F, r, ops)
    PROVE  Does(t, Frame("begin", NoRun), F, r, ops)
<1>1. todo'[t] = new /\ \A u \in Threads : u # t => todo'[u] = todo[u]
  BY DEF Call, LeaseInv, TodoInv
<1>2. \A f \in Frames : Pending(t, f) => f = Frame("begin", NoRun)
  BY SMTT(30) DEF Pending
<1>3. \A u \in Threads, f \in Frames : u # t => (Pending(u, f)' <=> Pending(u, f))
  BY <1>1 DEF Pending
<1>4. \A f \in Frames : Pending(t, f)' <=> f \in F
  BY <1>1 DEF Pending, Lists
<1>5. ASSUME ops \subseteq Harmless PROVE Shape(t, todo'[t])
  <2>1. \A i \in 1 .. Len(new) : new[i][1] \in Harmless
    BY <1>5 DEF Lists
  <2>2. QED
    BY <1>1, <2>1 DEF Shape, Harmless, Waits
<1>6. QED
  BY <1>1, <1>2, <1>3, <1>4, <1>5 DEF Does, Lists

(* Short sequences of sections. *)
Ok(f, r, ops) == f \in Frames /\ f[1] \in ops /\ f[2] \in {r, NoRun}
ShortLists(r, ops) ==
    /\ Lists(<<>>, {}, r, ops)
    /\ \A a : Ok(a, r, ops) => Lists(<<a>>, {a}, r, ops)
    /\ \A a, b : Ok(a, r, ops) /\ Ok(b, r, ops) => Lists(<<a, b>>, {a, b}, r, ops)
    /\ \A a, b, c : Ok(a, r, ops) /\ Ok(b, r, ops) /\ Ok(c, r, ops) => Lists(<<a, b, c>>, {a, b, c}, r, ops)
    /\ \A a, b, c, d : Ok(a, r, ops) /\ Ok(b, r, ops) /\ Ok(c, r, ops) /\ Ok(d, r, ops)
         => Lists(<<a, b, c, d>>, {a, b, c, d}, r, ops)

(* A sequence of up to four frames lists just those frames. *)
LEMMA ListsShort ==
    ASSUME NEW r, NEW ops
    PROVE  ShortLists(r, ops)
<1> USE DEF Ok
<1>1. Lists(<<>>, {}, r, ops)
  BY SMTT(30) DEF Lists
<1>2. ASSUME NEW a, Ok(a, r, ops) PROVE Lists(<<a>>, {a}, r, ops)
  BY <1>2, SMTT(30) DEF Lists
<1>3. ASSUME NEW a, NEW b, Ok(a, r, ops), Ok(b, r, ops) PROVE Lists(<<a, b>>, {a, b}, r, ops)
  <2>1. <<a, b>> \in Seq(Frames) /\ Len(<<a, b>>) = 2 /\ <<a, b>>[1] = a /\ <<a, b>>[2] = b
    BY <1>3, SMTT(30)
  <2>2. \A i \in 1 .. 2 : i = 1 \/ i = 2
    BY SMTT(30)
  <2>3. 1 \in 1 .. 2 /\ 2 \in 1 .. 2
    BY SMTT(30)
  <2>4. QED
    BY <1>3, <2>1, <2>2, <2>3 DEF Lists
<1>4. ASSUME NEW a, NEW b, NEW c, Ok(a, r, ops), Ok(b, r, ops), Ok(c, r, ops)
      PROVE  Lists(<<a, b, c>>, {a, b, c}, r, ops)
  <2> DEFINE s == <<a, b, c>>
  <2>1. s \in Seq(Frames) /\ Len(s) = 3 /\ s[1] = a /\ s[2] = b /\ s[3] = c
    BY <1>4, SMTT(30)
  <2>2. \A i \in 1 .. 3 : i = 1 \/ i = 2 \/ i = 3
    BY SMTT(30)
  <2>3. 1 \in 1 .. 3 /\ 2 \in 1 .. 3 /\ 3 \in 1 .. 3
    BY SMTT(30)
  <2> HIDE DEF s
  <2>4. Lists(s, {a, b, c}, r, ops)
    BY <1>4, <2>1, <2>2, <2>3 DEF Lists
  <2>5. QED
    BY <2>4, SMTT(30) DEF s
<1>5. ASSUME NEW a, NEW b, NEW c, NEW d, Ok(a, r, ops), Ok(b, r, ops), Ok(c, r, ops), Ok(d, r, ops)
      PROVE  Lists(<<a, b, c, d>>, {a, b, c, d}, r, ops)
  <2> DEFINE s == <<a, b, c, d>>
  <2>1. s \in Seq(Frames) /\ Len(s) = 4 /\ s[1] = a /\ s[2] = b /\ s[3] = c /\ s[4] = d
    BY <1>5, SMTT(30)
  <2>2. \A i \in 1 .. 4 : i = 1 \/ i = 2 \/ i = 3 \/ i = 4
    BY SMTT(30)
  <2>3. 1 \in 1 .. 4 /\ 2 \in 1 .. 4 /\ 3 \in 1 .. 4 /\ 4 \in 1 .. 4
    BY SMTT(30)
  <2> HIDE DEF s
  <2>4. Lists(s, {a, b, c, d}, r, ops)
    BY <1>5, <2>1, <2>2, <2>3 DEF Lists
  <2>5. QED
    BY <2>4, SMTT(30) DEF s
<1> HIDE DEF Ok
<1>6. QED
  BY <1>1, <1>2, <1>3, <1>4, <1>5 DEF ShortLists

(* Returning from a section with a few more to run. *)
ThenLists(t, old, r, ops) ==
    /\ Then(t, <<>>) => Does(t, old, {}, r, ops)
    /\ \A a : Ok(a, r, ops) /\ Then(t, <<a>>) => Does(t, old, {a}, r, ops)
    /\ \A a, b : Ok(a, r, ops) /\ Ok(b, r, ops) /\ Then(t, <<a, b>>) => Does(t, old, {a, b}, r, ops)
    /\ \A a, b, c : Ok(a, r, ops) /\ Ok(b, r, ops) /\ Ok(c, r, ops) /\ Then(t, <<a, b, c>>)
         => Does(t, old, {a, b, c}, r, ops)
    /\ \A a, b, c, d :
         Ok(a, r, ops) /\ Ok(b, r, ops) /\ Ok(c, r, ops) /\ Ok(d, r, ops) /\ Then(t, <<a, b, c, d>>)
         => Does(t, old, {a, b, c, d}, r, ops)

(* A section that returns with up to four more does that. *)
LEMMA Thens ==
    ASSUME LeaseInv, NEW t \in Threads, NEW old \in Frames, At(t, old), NEW r, NEW ops, "begin" \notin ops
    PROVE  ThenLists(t, old, r, ops)
<1>1. \A new, F : Then(t, new) /\ Lists(new, F, r, ops) => Does(t, old, F, r, ops)
  BY ThenDoes
<1>2. QED
  BY <1>1, ListsShort DEF ShortLists, ThenLists

(* Calling with a few sections to run. *)
CallLists(t, r, ops) ==
    /\ Call(t, <<>>) => Does(t, Frame("begin", NoRun), {}, r, ops)
    /\ \A a : Ok(a, r, ops) /\ Call(t, <<a>>) => Does(t, Frame("begin", NoRun), {a}, r, ops)
    /\ \A a, b : Ok(a, r, ops) /\ Ok(b, r, ops) /\ Call(t, <<a, b>>) => Does(t, Frame("begin", NoRun), {a, b}, r, ops)
    /\ \A a, b, c :
         Ok(a, r, ops) /\ Ok(b, r, ops) /\ Ok(c, r, ops) /\ Call(t, <<a, b, c>>)
         => Does(t, Frame("begin", NoRun), {a, b, c}, r, ops)

(* A call that starts with up to three sections does that. *)
LEMMA Calls ==
    ASSUME LeaseInv, NEW t \in Threads, t \notin asleep, todo[t] = <<>> \/ todo[t] = <<Frame("begin", NoRun)>>,
           NEW r, NEW ops
    PROVE  CallLists(t, r, ops)
<1>1. \A new, F : Call(t, new) /\ Lists(new, F, r, ops) => Does(t, Frame("begin", NoRun), F, r, ops)
  BY CallDoes
<1>2. QED
  BY <1>1, ListsShort DEF ShortLists, CallLists

(* The sections there are. *)
Ops == {"begin", "await", "close", "refresh", "fail", "cancel", "consume", "drop", "retireExec", "finish", "retire",
        "announce", "notify", "activate", "publish", "early", "over", "outcome"}

(* The frames that the sections push are frames. *)
LEMMA OpFrames ==
    \A op \in Ops, r \in Runs \cup {NoRun} :
        /\ Frame(op, r) \in Frames /\ Frame(op, r)[1] = op /\ Frame(op, r)[2] = r
        /\ \A k \in Tasks : /\ <<op, r, k>> \in Frames
                            /\ <<op, r, k>>[1] = op /\ <<op, r, k>>[2] = r /\ <<op, r, k>>[3] = k
<1> SUFFICES ASSUME NEW op \in Ops, NEW r \in Runs \cup {NoRun}
             PROVE  /\ Frame(op, r) \in Frames /\ Frame(op, r)[1] = op /\ Frame(op, r)[2] = r
                    /\ \A k \in Tasks : /\ <<op, r, k>> \in Frames
                                        /\ <<op, r, k>>[1] = op /\ <<op, r, k>>[2] = r /\ <<op, r, k>>[3] = k
  OBVIOUS
<1>1. r \in 0 .. MaxRuns /\ Tasks \subseteq 0 .. MaxTasks /\ 0 \in 0 .. MaxTasks
  BY BoundsAssumption, SMTT(30) DEF Runs, Tasks, NoRun
<1>2. QED
  BY <1>1, SMTT(30) DEF Frame, Frames, Ops

(* The parts of a frame. *)
LEMMA FrameParts ==
    /\ \A op, r : Frame(op, r)[1] = op /\ Frame(op, r)[2] = r
    /\ \A op, r, k : <<op, r, k>>[1] = op /\ <<op, r, k>>[2] = r /\ <<op, r, k>>[3] = k
BY SMTT(30) DEF Frame

(* What the sections of a call do. *)
SectionTable(t, r) ==
    /\ Await(t, r) => UNCHANGED todo \/ Does(t, Frame("await", r), {}, r, {})
    /\ Close(t, r) =>
         Does(t, Frame("close", r),
              {Frame("refresh", r), Frame("activate", NoRun), Frame("retireExec", r), Frame("finish", r)},
              r, {"refresh", "activate", "retireExec", "finish"})
    /\ Refresh(t, r) => Does(t, Frame("refresh", r), {}, r, {})
    /\ Fail(t, r) => Does(t, Frame("fail", r), {}, r, {})
    /\ \A k \in Tasks :
         Consume(t, r, k) =>
             Does(t, <<"consume", r, k>>, {Frame("retireExec", r), Frame("drop", r)}, r, {"retireExec", "drop"})
    /\ Drop(t, r) /\ live[r] = 1 => Does(t, Frame("drop", r), {Frame("finish", r)}, r, {"finish"})
    /\ Drop(t, r) /\ live[r] # 1 => Does(t, Frame("drop", r), {}, r, {})
    /\ RetireExec(t, r) => \/ Does(t, Frame("retireExec", r), {}, r, {})
                           \/ /\ ExecutionEnded(r) /\ (phase[r] = "EXECUTING" \/ failed[r])
                              /\ Does(t, Frame("retireExec", r), {Frame("retire", r)}, r, {"retire"})
    /\ Finish(t, r) => \/ UNCHANGED phase /\ Does(t, Frame("finish", r), {}, r, {})
                       \/ Fenced(r) /\ Does(t, Frame("finish", r), {Frame("retire", r)}, r, {"retire"})

(* The sections do so. *)
LEMMA SectionDoes ==
    ASSUME LeaseInv, NEW t \in Threads, NEW r \in Runs
    PROVE  SectionTable(t, r)
<1>1. \A op \in Ops, q \in {r, NoRun} : Frame(op, q) \in Frames /\ Frame(op, q)[1] = op /\ Frame(op, q)[2] = q
  <2>1. \A q \in {r, NoRun} : q \in Runs \cup {NoRun}
    OBVIOUS
  <2>2. QED
    BY <2>1, OpFrames
<1>2. \A k \in Tasks : <<"consume", r, k>> \in Frames
  BY OpFrames DEF Ops
<1> USE DEF Ops
<1>3. Await(t, r) => UNCHANGED todo \/ Does(t, Frame("await", r), {}, r, {})
  BY <1>1, Thens DEF Await, ThenLists, Ok
<1>4. ASSUME Close(t, r)
      PROVE  Does(t, Frame("close", r),
                  {Frame("refresh", r), Frame("activate", NoRun), Frame("retireExec", r), Frame("finish", r)},
                  r, {"refresh", "activate", "retireExec", "finish"})
  <2>1. /\ At(t, Frame("close", r)) /\ Frame("close", r) \in Frames
        /\ Then(t, <<Frame("refresh", r), Frame("activate", NoRun), Frame("retireExec", r), Frame("finish", r)>>)
    BY <1>1, <1>4 DEF Close
  <2>2. QED
    BY <1>1, <2>1, Thens DEF ThenLists, Ok
<1>5. Refresh(t, r) => Does(t, Frame("refresh", r), {}, r, {})
  BY <1>1, Thens DEF Refresh, ThenLists, Ok
<1>6. Fail(t, r) => Does(t, Frame("fail", r), {}, r, {})
  BY <1>1, Thens DEF Fail, ThenLists, Ok
<1>7. ASSUME NEW k \in Tasks, Consume(t, r, k)
      PROVE  Does(t, <<"consume", r, k>>, {Frame("retireExec", r), Frame("drop", r)}, r, {"retireExec", "drop"})
  <2>1. At(t, <<"consume", r, k>>) /\ Then(t, <<Frame("retireExec", r), Frame("drop", r)>>)
    BY <1>7 DEF Consume
  <2>2. QED
    BY <1>1, <1>2, <2>1, Thens DEF ThenLists, Ok
<1>8. ASSUME Drop(t, r)
      PROVE  /\ live[r] = 1 => Does(t, Frame("drop", r), {Frame("finish", r)}, r, {"finish"})
             /\ live[r] # 1 => Does(t, Frame("drop", r), {}, r, {})
  <2>1. At(t, Frame("drop", r)) /\ Then(t, IF live[r] = 1 THEN <<Frame("finish", r)>> ELSE <<>>)
    BY <1>8 DEF Drop
  <2>2. QED
    BY <1>1, <2>1, Thens DEF ThenLists, Ok
<1>9. ASSUME RetireExec(t, r)
      PROVE  \/ Does(t, Frame("retireExec", r), {}, r, {})
             \/ /\ ExecutionEnded(r) /\ (phase[r] = "EXECUTING" \/ failed[r])
                /\ Does(t, Frame("retireExec", r), {Frame("retire", r)}, r, {"retire"})
  <2>1. /\ At(t, Frame("retireExec", r))
        /\ Then(t, IF ExecutionEnded(r) /\ (phase[r] = "EXECUTING" \/ failed[r]) THEN <<Frame("retire", r)>> ELSE <<>>)
    BY <1>9 DEF RetireExec
  <2>2. QED
    BY <1>1, <2>1, Thens DEF ThenLists, Ok
<1>10. ASSUME Finish(t, r)
       PROVE  \/ UNCHANGED phase /\ Does(t, Frame("finish", r), {}, r, {})
              \/ Fenced(r) /\ Does(t, Frame("finish", r), {Frame("retire", r)}, r, {"retire"})
  <2>1. /\ At(t, Frame("finish", r))
        /\ \/ UNCHANGED phase /\ Then(t, <<>>)
           \/ Fenced(r) /\ Then(t, <<Frame("retire", r)>>)
    BY <1>10 DEF Finish
  <2>2. QED
    BY <1>1, <2>1, Thens DEF ThenLists, Ok
<1>11. QED
  BY <1>3, <1>4, <1>5, <1>6, <1>7, <1>8, <1>9, <1>10 DEF SectionTable

(* cancel_unstarted_run lists each claimed task once. *)
LEMMA ConsumeLists ==
    ASSUME NEW r \in Runs, NEW K \in SUBSET Tasks
    PROVE  /\ Lists(ConsumeFrames(r, K), {<<"consume", r, k>> : k \in K}, r, {"consume"})
           /\ \A i, j \in 1 .. Len(ConsumeFrames(r, K)) : ConsumeFrames(r, K)[i] = ConsumeFrames(r, K)[j] => i = j
<1> DEFINE n == Cardinality(K)
           g(i) == CHOOSE k \in K : Rank(K, k) = i - 1
           c == ConsumeFrames(r, K)
           F == {<<"consume", r, k>> : k \in K}
<1>1. IsFiniteSet(K) /\ K \in SUBSET Nat
  <2>1. IsFiniteSet(Tasks) /\ Tasks \in SUBSET Nat
    BY BoundsAssumption, FS_Interval, SMTT(30) DEF Tasks
  <2>2. QED
    BY <2>1, FS_Subset
<1>2. /\ n \in Nat /\ \A k \in K : Rank(K, k) \in 0 .. n - 1
      /\ \A j \in 0 .. n - 1 : \E k \in K : Rank(K, k) = j
  BY <1>1, RankOnto
<1>3. \A x, y \in K : Rank(K, x) = Rank(K, y) => x = y
  BY <1>1, RankInjective
<1>4. \A i \in 1 .. n : i - 1 \in 0 .. n - 1
  <2> HIDE DEF n
  <2>1. QED
    BY <1>2, SMTT(30)
<1>5. \A i \in 1 .. n : g(i) \in K /\ Rank(K, g(i)) = i - 1
  BY <1>2, <1>4
<1>6. \A k \in K : Rank(K, k) + 1 \in 1 .. n /\ g(Rank(K, k) + 1) = k
  <2> SUFFICES ASSUME NEW k \in K PROVE Rank(K, k) + 1 \in 1 .. n /\ g(Rank(K, k) + 1) = k
    OBVIOUS
  <2> HIDE DEF n, g
  <2>1. Rank(K, k) \in 0 .. n - 1
    BY <1>2
  <2>2. Rank(K, k) + 1 \in 1 .. n /\ (Rank(K, k) + 1) - 1 = Rank(K, k)
    BY <1>2, <2>1, SMTT(30)
  <2>3. QED
    BY <1>3, <1>5, <2>2
<1>7. c = [i \in 1 .. n |-> <<"consume", r, g(i)>>]
  BY DEF ConsumeFrames
<1>8. c \in Seq(Frames) /\ Len(c) = n
  <2>1. \A i \in 1 .. n : <<"consume", r, g(i)>> \in Frames
    <3> HIDE DEF g, n
    <3>1. QED
      BY <1>5, OpFrames DEF Ops
  <2>2. \A d \in [1 .. n -> Frames] : d \in Seq(Frames) /\ Len(d) = n
    <3> HIDE DEF n
    <3>1. QED
      BY <1>2, SMTT(30)
  <2> HIDE DEF g, n, c
  <2>3. c \in [1 .. n -> Frames]
    BY <1>7, <2>1
  <2>4. QED
    BY <2>2, <2>3
<1>9. \A i \in 1 .. n : c[i] = <<"consume", r, g(i)>> /\ g(i) \in K
  <2> HIDE DEF g, n, c
  <2>1. QED
    BY <1>5, <1>7
<1>10. \A k \in K : c[Rank(K, k) + 1] = <<"consume", r, k>>
  <2> HIDE DEF g, n, c
  <2>1. QED
    BY <1>6, <1>9
<1>11. \A k \in K : /\ <<"consume", r, k>> \in Frames /\ <<"consume", r, k>>[1] = "consume"
                    /\ <<"consume", r, k>>[2] = r
                    /\ <<"consume", r, k>>[3] = k
  BY OpFrames DEF Ops
<1>12. Lists(c, F, r, {"consume"})
  <2> HIDE DEF g, n, c
  <2>1. QED
    <3>1. \A i \in 1 .. n : c[i] \in F
      BY <1>9
    <3>2. ASSUME NEW f \in F
          PROVE  f \in Frames /\ f[1] \in {"consume"} /\ f[2] \in {r, NoRun} /\ \E i \in 1 .. n : c[i] = f
      <4>1. PICK k \in K : f = <<"consume", r, k>>
        OBVIOUS
      <4>2. f \in Frames /\ f[1] = "consume" /\ f[2] = r
        BY <1>11, <4>1
      <4>3. QED
        BY <1>6, <1>10, <4>1, <4>2
    <3>3. QED
      BY <1>8, <3>1, <3>2 DEF Lists
<1>13. ASSUME NEW i \in 1 .. n, NEW j \in 1 .. n, c[i] = c[j] PROVE i = j
  <2>1. g(i) = g(j)
    <3> HIDE DEF g, n, c
    <3>1. QED
      <4>1. c[i][3] = g(i) /\ c[j][3] = g(j)
        BY <1>9, <1>11
      <4>2. QED
        BY <1>13, <4>1
  <2>2. i - 1 = j - 1
    <3> HIDE DEF g, n, c
    <3>1. QED
      BY <1>5, <2>1
  <2> HIDE DEF g, n, c
  <2>3. QED
    BY <2>2, SMTT(30)
<1> HIDE DEF n, g, c
<1>14. QED
  BY <1>8, <1>12, <1>13 DEF c

(* The head of the FIFO. *)
LEMMA FifoHead ==
    ASSUME LeaseInv, fifo # {}
    PROVE  FirstRun(fifo) \in fifo /\ FirstRun(fifo) \in Runs /\ \A p \in fifo : FirstRun(fifo) <= p
<1>1. IsFiniteSet(Runs) /\ Runs \in SUBSET Nat
  BY BoundsAssumption, FS_Interval, SMTT(30) DEF Runs
<1>2. fifo \in SUBSET Runs
  BY DEF LeaseInv, RunTypes
<1>3. IsFiniteSet(fifo) /\ fifo \in SUBSET Nat
  BY <1>1, <1>2, FS_Subset
<1>4. QED
  BY <1>2, <1>3, FirstRunIn

(* What the sections that lend, retire, notify and cancel do. *)
LendTable(t) ==
    /\ \A r \in Runs : Cancel(t, r) =>
         Does(t, Frame("cancel", r),
              {<<"consume", r, k>> : k \in {j \in Tasks : task[r][j] \in Undispatched}}, r, {"consume"})
    /\ \A r \in Runs : Retire(t, r) =>
         \E op \in {"announce", "notify"} :
             /\ lease' # lease => op = "announce"
             /\ Does(t, Frame("retire", r), {Frame(op, NoRun), Frame("activate", NoRun)}, NoRun,
                             {op, "activate"})
    /\ \A op \in {"announce", "notify"} : Announce(t, op) => Does(t, Frame(op, NoRun), {}, NoRun, {})
    /\ Early(t) => Does(t, Frame("early", NoRun), {}, NoRun, {})
    /\ Activate(t) => \/ UNCHANGED <<arenaVars, mu>> /\ Does(t, Frame("activate", NoRun), {}, NoRun, {})
                      \/ /\ Promotable /\ mu' = {t}
                         /\ FirstRun(fifo) \in fifo /\ (\A p \in fifo : FirstRun(fifo) <= p)
                         /\ Does(t, Frame("activate", NoRun), {Frame("publish", FirstRun(fifo))},
                                 FirstRun(fifo), {"publish"})
    /\ \A r \in Runs : PublishExecuting(t, r) =>
         Does(t, Frame("publish", r), {Frame("announce", NoRun), Frame("retireExec", r), Frame("finish", r)},
              r, {"announce", "retireExec", "finish"})

(* They do so. *)
LEMMA LendDoes ==
    ASSUME LeaseInv, NEW t \in Threads
    PROVE  LendTable(t)
<1>1. \A op \in Ops, q \in Runs \cup {NoRun} : Frame(op, q) \in Frames /\ Frame(op, q)[1] = op /\ Frame(op, q)[2] = q
  BY OpFrames
<1>2. \A r \in Runs : r \in Runs \cup {NoRun}
  OBVIOUS
<1>3. \A op \in Ops : Frame(op, NoRun) \in Frames /\ Frame(op, NoRun)[1] = op /\ Frame(op, NoRun)[2] = NoRun
  BY <1>1
<1>4. ASSUME NEW r \in Runs, Cancel(t, r)
      PROVE  Does(t, Frame("cancel", r),
                  {<<"consume", r, k>> : k \in {j \in Tasks : task[r][j] \in Undispatched}}, r, {"consume"})
  <2> DEFINE K == {j \in Tasks : task[r][j] \in Undispatched}
  <2>1. At(t, Frame("cancel", r)) /\ Then(t, ConsumeFrames(r, K)) /\ Frame("cancel", r) \in Frames
    BY <1>1, <1>2, <1>4 DEF Cancel, Ops
  <2>2. K \in SUBSET Tasks
    OBVIOUS
  <2> HIDE DEF K
  <2>3. Lists(ConsumeFrames(r, K), {<<"consume", r, k>> : k \in K}, r, {"consume"})
    BY <2>2, ConsumeLists
  <2>4. Does(t, Frame("cancel", r), {<<"consume", r, k>> : k \in K}, r, {"consume"})
    BY <2>1, <2>3, ThenDoes
  <2>5. QED
    BY <2>4 DEF K
<1>5. ASSUME NEW r \in Runs, Retire(t, r)
      PROVE  \E op \in {"announce", "notify"} :
                    /\ lease' # lease => op = "announce"
                    /\ Does(t, Frame("retire", r), {Frame(op, NoRun), Frame("activate", NoRun)}, NoRun,
                             {op, "activate"})
  <2> DEFINE op == IF lease' # lease \/ EarlyRuns' \ authorized # {} THEN "announce" ELSE "notify"
  <2>1. At(t, Frame("retire", r)) /\ Then(t, <<Frame(op, NoRun), Frame("activate", NoRun)>>)
    BY <1>5 DEF Retire
  <2>2. op \in {"announce", "notify"} /\ (lease' # lease => op = "announce")
    OBVIOUS
  <2> HIDE DEF op
  <2>3. Frame("retire", r) \in Frames /\ op \in Ops /\ "begin" \notin {op, "activate"}
    BY <1>1, <1>2, <2>2 DEF Ops
  <2>4. Does(t, Frame("retire", r), {Frame(op, NoRun), Frame("activate", NoRun)}, NoRun, {op, "activate"})
    BY <1>3, <2>1, <2>3, Thens DEF Ops, ThenLists, Ok
  <2>5. QED
    BY <2>2, <2>4
<1>6. ASSUME NEW op \in {"announce", "notify"}, Announce(t, op) PROVE Does(t, Frame(op, NoRun), {}, NoRun, {})
  BY <1>3, <1>6, Thens DEF Announce, Ops, ThenLists, Ok
<1>7. Early(t) => Does(t, Frame("early", NoRun), {}, NoRun, {})
  BY <1>3, Thens DEF Early, Ops, ThenLists, Ok
<1>8. ASSUME Activate(t)
      PROVE  \/ UNCHANGED <<arenaVars, mu>> /\ Does(t, Frame("activate", NoRun), {}, NoRun, {})
             \/ /\ Promotable /\ mu' = {t} /\ FirstRun(fifo) \in fifo /\ (\A p \in fifo : FirstRun(fifo) <= p)
                /\ Does(t, Frame("activate", NoRun), {Frame("publish", FirstRun(fifo))}, FirstRun(fifo), {"publish"})
  <2>1. At(t, Frame("activate", NoRun)) /\ Frame("activate", NoRun) \in Frames
    BY <1>3, <1>8 DEF Activate, Ops
  <2>2. CASE UNCHANGED <<arenaVars, mu>> /\ Then(t, <<>>)
    BY <2>1, <2>2, Thens DEF ThenLists, Ok
  <2>3. CASE Promotable /\ mu' = {t} /\ Then(t, <<Frame("publish", FirstRun(fifo))>>)
    <3>4. FirstRun(fifo) \in fifo /\ FirstRun(fifo) \in Runs /\ (\A p \in fifo : FirstRun(fifo) <= p)
      BY <2>3, FifoHead DEF Promotable
    <3>5. Frame("publish", FirstRun(fifo)) \in Frames /\ Frame("publish", FirstRun(fifo))[1] = "publish"
          /\ Frame("publish", FirstRun(fifo))[2] = FirstRun(fifo)
      BY <1>1, <3>4 DEF Ops
    <3>6. Does(t, Frame("activate", NoRun), {Frame("publish", FirstRun(fifo))}, FirstRun(fifo), {"publish"})
      BY <2>1, <2>3, <3>5, Thens DEF ThenLists, Ok
    <3>7. QED
      BY <2>3, <3>4, <3>6
  <2>4. QED
    BY <1>8, <2>2, <2>3 DEF Activate, Holding
<1>9. ASSUME NEW r \in Runs, PublishExecuting(t, r)
      PROVE  Does(t, Frame("publish", r), {Frame("announce", NoRun), Frame("retireExec", r), Frame("finish", r)},
                  r, {"announce", "retireExec", "finish"})
  <2>1. /\ At(t, Frame("publish", r)) 
        /\ Then(t, <<Frame("announce", NoRun), Frame("retireExec", r), Frame("finish", r)>>)
        /\ Frame("publish", r) \in Frames
    BY <1>1, <1>2, <1>9 DEF PublishExecuting, Promoted, Ops
  <2>2. /\ Frame("announce", NoRun) \in Frames /\ Frame("announce", NoRun)[1] = "announce"
        /\ Frame("announce", NoRun)[2] = NoRun
        /\ Frame("retireExec", r) \in Frames /\ Frame("retireExec", r)[1] = "retireExec"
        /\ Frame("retireExec", r)[2] = r
        /\ Frame("finish", r) \in Frames /\ Frame("finish", r)[1] = "finish" /\ Frame("finish", r)[2] = r
    <3>1. Frame("retireExec", r) \in Frames /\ Frame("finish", r) \in Frames /\ Frame("announce", NoRun) \in Frames
      BY <1>1, <1>2, <1>3 DEF Ops
    <3>2. QED
      BY <3>1, FrameParts
  <2>3. QED
    BY <2>1, <2>2, Thens DEF ThenLists, Ok
<1>10. QED
  BY <1>4, <1>5, <1>6, <1>7, <1>8, <1>9 DEF LendTable

(* What the calls of the users do. *)
Begin == Frame("begin", NoRun)
UserTable(t) ==
    /\ Publish(t) /\ (Free(t) \/ At(t, Begin)) =>
         Does(t, Begin, {Frame("activate", NoRun)}, NoRun, {"activate"}) /\ UNCHANGED asleep
    /\ BeginRun(t) =>
         \/ Publish(t) /\ nextRun <= MaxRuns
         \/ /\ ~Admits /\ asleep' = asleep \cup {t} /\ UNCHANGED <<orchVars, phase, owner>>
            /\ todo'[t] = <<Begin>> /\ Does(t, Begin, {Begin}, NoRun, {"begin"})
    /\ BeginWoken(t) =>
         \/ Publish(t) /\ nextRun <= MaxRuns
         \/ UNCHANGED <<orchVars, phase, owner, asleep>> /\ Does(t, Begin, {}, NoRun, {})
         \/ UNCHANGED <<orchVars, phase, owner, todo>> /\ ~Admits /\ asleep' = asleep \cup {t} /\ todo[t] = <<Begin>>
    /\ AwaitCall(t) => /\ Does(t, Begin, {Frame("await", building)}, building, {"await"})
                       /\ building \in Runs /\ todo'[t] = <<Frame("await", building)>>
    /\ CloseRun(t) => building \in Runs /\ Does(t, Begin, {Frame("close", building)}, building, {"close"})
    /\ FailRun(t) => /\ building \in Runs
                     /\ Does(t, Begin, {Frame("fail", building), Frame("cancel", building), Frame("finish", building)},
                             building, {"fail", "cancel", "finish"})

(* They do so. *)
LEMMA UserDoes ==
    ASSUME LeaseInv, NEW t \in Threads
    PROVE  UserTable(t)
<1>1. \A op \in Ops, q \in Runs \cup {NoRun} : Frame(op, q) \in Frames /\ Frame(op, q)[1] = op /\ Frame(op, q)[2] = q
  BY OpFrames
<1>2. \A op \in Ops : /\ Frame(op, building) \in Frames /\ Frame(op, building)[1] = op
                      /\ Frame(op, building)[2] = building
                      /\ Frame(op, NoRun) \in Frames /\ Frame(op, NoRun)[1] = op /\ Frame(op, NoRun)[2] = NoRun
  BY <1>1 DEF LeaseInv, RunTypes
<1>3. ASSUME At(t, Begin) PROVE t \notin asleep /\ todo[t] = <<Begin>>
  <2>1. t \notin asleep /\ todo[t] # <<>> /\ Head(todo[t]) = Begin /\ todo[t] \in Seq(Frames)
    BY <1>3 DEF At, LeaseInv, TodoInv
  <2>2. 1 \in 1 .. Len(todo[t]) /\ todo[t][1] = Begin
    BY <2>1, SMTT(30)
  <2>3. QED
    BY <2>1, <2>2 DEF LeaseInv, TodoInv, BeginAlone, Pending, Begin
<1>4. ASSUME Free(t) \/ At(t, Begin) PROVE t \notin asleep /\ (todo[t] = <<>> \/ todo[t] = <<Frame("begin", NoRun)>>)
  BY <1>3, <1>4 DEF Free, Begin
<1>5. ASSUME Publish(t), Free(t) \/ At(t, Begin)
      PROVE  Does(t, Begin, {Frame("activate", NoRun)}, NoRun, {"activate"}) /\ UNCHANGED asleep
  <2>1. Call(t, <<Frame("activate", NoRun)>>) /\ UNCHANGED asleep
    BY <1>5 DEF Publish
  <2>2. QED
    BY <1>2, <1>4, <1>5, <2>1, Calls DEF Ops, Begin, CallLists, Ok
<1>6. ASSUME BeginRun(t), ~(Publish(t) /\ nextRun <= MaxRuns)
      PROVE  /\ ~Admits /\ asleep' = asleep \cup {t} /\ UNCHANGED <<orchVars, phase, owner>>
             /\ todo'[t] = <<Begin>> /\ Does(t, Begin, {Begin}, NoRun, {"begin"})
  <2>1. /\ Free(t) /\ ~Admits /\ Call(t, <<Begin>>) /\ asleep' = asleep \cup {t} /\ UNCHANGED <<orchVars, phase, owner>>
    BY <1>6 DEF BeginRun, Begin
  <2>2. todo'[t] = <<Begin>>
    BY <2>1 DEF Call, LeaseInv, TodoInv
  <2>3. Begin \in Frames /\ Begin[1] = "begin" /\ Begin[2] = NoRun
    BY <1>2 DEF Begin, Ops
  <2>4. Does(t, Begin, {Begin}, NoRun, {"begin"})
    BY <1>4, <2>1, <2>3, Calls DEF Begin, CallLists, Ok
  <2>5. QED
    BY <2>1, <2>2, <2>4
<1>7. ASSUME BeginWoken(t), ~(Publish(t) /\ nextRun <= MaxRuns)
      PROVE  \/ UNCHANGED <<orchVars, phase, owner, asleep>> /\ Does(t, Begin, {}, NoRun, {})
             \/ /\ UNCHANGED <<orchVars, phase, owner, todo>> /\ ~Admits
                /\ asleep' = asleep \cup {t} /\ todo[t] = <<Begin>>
  <2>1. /\ At(t, Begin)
        /\ \/ Call(t, <<>>) /\ UNCHANGED <<orchVars, phase, owner, asleep>>
           \/ ~Admits /\ asleep' = asleep \cup {t} /\ UNCHANGED <<orchVars, phase, owner, todo>>
    BY <1>7 DEF BeginWoken, Begin
  <2>2. Call(t, <<>>) => Does(t, Begin, {}, NoRun, {})
    BY <1>4, <2>1, Calls DEF Begin, CallLists, Ok
  <2>3. QED
    BY <1>3, <2>1, <2>2
<1>8. ASSUME AwaitCall(t)
      PROVE  /\ Does(t, Begin, {Frame("await", building)}, building, {"await"})
             /\ building \in Runs /\ todo'[t] = <<Frame("await", building)>>
  <2>1. Free(t) /\ building # NoRun /\ Call(t, <<Frame("await", building)>>)
    BY <1>8 DEF AwaitCall
  <2>2. building \in Runs
    BY <2>1 DEF LeaseInv, RunTypes
  <2>3. todo'[t] = <<Frame("await", building)>>
    BY <2>1 DEF Call, LeaseInv, TodoInv
  <2>4. QED
    BY <1>2, <1>4, <2>1, <2>2, <2>3, Calls DEF Begin, Ops, CallLists, Ok
<1>9. ASSUME CloseRun(t) PROVE building \in Runs /\ Does(t, Begin, {Frame("close", building)}, building, {"close"})
  <2>1. Free(t) /\ building # NoRun /\ Call(t, <<Frame("close", building)>>)
    BY <1>9 DEF CloseRun
  <2>2. building \in Runs
    BY <2>1 DEF LeaseInv, RunTypes
  <2>3. QED
    BY <1>2, <1>4, <2>1, <2>2, Calls DEF Begin, Ops, CallLists, Ok
<1>10. ASSUME FailRun(t)
       PROVE  /\ building \in Runs
              /\ Does(t, Begin, {Frame("fail", building), Frame("cancel", building), Frame("finish", building)},
                      building, {"fail", "cancel", "finish"})
  <2>1. /\ Free(t) /\ building # NoRun
        /\ Call(t, <<Frame("fail", building), Frame("cancel", building), Frame("finish", building)>>)
    BY <1>10 DEF FailRun
  <2>2. building \in Runs
    BY <2>1 DEF LeaseInv, RunTypes
  <2>3. QED
    BY <1>2, <1>4, <2>1, <2>2, Calls DEF Begin, Ops, CallLists, Ok
<1>11. QED
  BY <1>5, <1>6, <1>7, <1>8, <1>9, <1>10 DEF UserTable

(* What the reports of the endpoints and the releases of references do. *)
ReportTable(t, r, k) ==
    /\ TaskAccepted(r, k) \/ FrameStaged(r, k) => \E F : Does(Sched, Begin, F, NoRun, {"early"})
    /\ \A sets : TaskEnded(r, k, sets) => Does(Sched, Begin, {Frame("retireExec", r)}, r, {"retireExec"})
    /\ TaskCompleted(r, k) =>
         \E F : /\ F \subseteq {Frame("early", NoRun), <<"over", r, k>>, <<"outcome", r, k>>}
                /\ Does(Sched, Begin, F, r, {"early", "over", "outcome"})
    /\ Over(r, k) => Does(Sched, <<"over", r, k>>, {Frame("retireExec", r)}, r, {"retireExec"})
    /\ Outcome(r, k) => Does(Sched, <<"outcome", r, k>>, {}, r, {})
    /\ LastRelease(t, r, k) => Does(t, Begin, {<<"consume", r, k>>}, r, {"consume"})

(* They do so. *)
LEMMA ReportDoes ==
    ASSUME LeaseInv, NEW t \in Threads, NEW r \in Runs, NEW k \in Tasks
    PROVE  ReportTable(t, r, k)
<1>1. \A op \in Ops, q \in Runs \cup {NoRun} :
        /\ Frame(op, q) \in Frames /\ Frame(op, q)[1] = op /\ Frame(op, q)[2] = q
        /\ \A j \in Tasks : /\ <<op, q, j>> \in Frames /\ <<op, q, j>>[1] = op /\ <<op, q, j>>[2] = q
  BY OpFrames
<1>2. Sched \in Threads
  BY DEF Threads
<1>3. \A op \in Ops : /\ Frame(op, r) \in Frames /\ Frame(op, r)[1] = op /\ Frame(op, r)[2] = r
                      /\ Frame(op, NoRun) \in Frames /\ Frame(op, NoRun)[1] = op /\ Frame(op, NoRun)[2] = NoRun
                      /\ <<op, r, k>> \in Frames /\ <<op, r, k>>[1] = op /\ <<op, r, k>>[2] = r
  BY <1>1
<1>4. ASSUME NEW u \in Threads, Free(u) PROVE u \notin asleep /\ (todo[u] = <<>> \/ todo[u] = <<Frame("begin", NoRun)>>)
  BY <1>4 DEF Free
<1>5. ASSUME TaskAccepted(r, k) \/ FrameStaged(r, k) PROVE \E F : Does(Sched, Begin, F, NoRun, {"early"})
  <2>1. Free(Sched) /\ (Call(Sched, <<>>) \/ Call(Sched, <<Frame("early", NoRun)>>))
    BY <1>5 DEF TaskAccepted, FrameStaged, Polling, AcceptFrames
  <2>2. Does(Sched, Begin, {}, NoRun, {"early"}) \/ Does(Sched, Begin, {Frame("early", NoRun)}, NoRun, {"early"})
    BY <1>2, <1>3, <1>4, <2>1, Calls DEF Begin, Ops, CallLists, Ok
  <2>3. QED
    BY <2>2
<1>6. ASSUME NEW sets, TaskEnded(r, k, sets) PROVE Does(Sched, Begin, {Frame("retireExec", r)}, r, {"retireExec"})
  <2>1. Free(Sched) /\ Call(Sched, <<Frame("retireExec", r)>>)
    BY <1>6 DEF TaskEnded, Polling
  <2>2. QED
    BY <1>2, <1>3, <1>4, <2>1, Calls DEF Begin, Ops, CallLists, Ok
<1>7. ASSUME TaskCompleted(r, k)
      PROVE  \E F : /\ F \subseteq {Frame("early", NoRun), <<"over", r, k>>, <<"outcome", r, k>>}
                    /\ Does(Sched, Begin, F, r, {"early", "over", "outcome"})
  <2> DEFINE ops == {"early", "over", "outcome"}
             rest == <<<<"over", r, k>>, <<"outcome", r, k>>>>
             a == Frame("early", NoRun)
  <2>1. /\ Free(Sched)
        /\ Call(Sched, <<>> \o rest) \/ Call(Sched, <<a>> \o rest)
    BY <1>7 DEF TaskCompleted, Polling, AcceptFrames
  <2>2. Lists(rest, {<<"over", r, k>>, <<"outcome", r, k>>}, r, ops)
    BY <1>3, ListsShort DEF Ops, ShortLists, Ok
  <2>3. a \in Frames /\ a[1] \in ops /\ a[2] = NoRun
    BY <1>3 DEF Ops
  <2> HIDE DEF rest, a, ops
  <2>4. /\ <<>> \o rest = rest
        /\ <<a>> \o rest \in Seq(Frames) /\ Len(<<a>> \o rest) = Len(rest) + 1 /\ (<<a>> \o rest)[1] = a
        /\ \A i \in 1 .. Len(rest) : (<<a>> \o rest)[i + 1] = rest[i]
        /\ \A i \in 1 .. Len(rest) + 1 : i = 1 \/ (i - 1 \in 1 .. Len(rest) /\ (<<a>> \o rest)[i] = rest[i - 1])
    BY <2>2, <2>3, SMTT(30) DEF Lists
  <2>5. Lists(<<a>> \o rest, {a, <<"over", r, k>>, <<"outcome", r, k>>}, r, ops)
    <3>1. 1 \in 1 .. Len(rest) + 1 /\ \A i \in 1 .. Len(rest) : i + 1 \in 1 .. Len(rest) + 1
      BY <2>2, SMTT(30) DEF Lists
    <3>2. QED
      BY <2>2, <2>3, <2>4, <3>1 DEF Lists
  <2>6. \/ Does(Sched, Begin, {<<"over", r, k>>, <<"outcome", r, k>>}, r, ops)
        \/ Does(Sched, Begin, {a, <<"over", r, k>>, <<"outcome", r, k>>}, r, ops)
    BY <1>2, <1>4, <2>1, <2>2, <2>4, <2>5, CallDoes DEF Begin
  <2>7. QED
    BY <2>6 DEF a, ops
<1>8. ASSUME Over(r, k) PROVE Does(Sched, <<"over", r, k>>, {Frame("retireExec", r)}, r, {"retireExec"})
  <2>1. At(Sched, <<"over", r, k>>) /\ Then(Sched, <<Frame("retireExec", r)>>)
    BY <1>8 DEF Over
  <2>2. QED
    BY <1>2, <1>3, <2>1, Thens DEF Ops, ThenLists, Ok
<1>9. ASSUME Outcome(r, k) PROVE Does(Sched, <<"outcome", r, k>>, {}, r, {})
  <2>1. At(Sched, <<"outcome", r, k>>) /\ Then(Sched, <<>>)
    BY <1>9 DEF Outcome
  <2>2. QED
    BY <1>2, <1>3, <2>1, Thens DEF Ops, ThenLists, Ok
<1>10. ASSUME LastRelease(t, r, k) PROVE Does(t, Begin, {<<"consume", r, k>>}, r, {"consume"})
  <2>1. Free(t) /\ Call(t, <<<<"consume", r, k>>>>)
    BY <1>10 DEF LastRelease, Polling
  <2>2. QED
    BY <1>3, <1>4, <2>1, Calls DEF Begin, Ops, CallLists, Ok
<1>11. QED
  BY <1>5, <1>6, <1>7, <1>8, <1>9, <1>10 DEF ReportTable

-----------------------------------------------------------------------------
(* The frame invariant: the sections nest, sleepers are in their waits, and  *)
(* neither a pending section nor a task is of a run that has not begun.      *)
TaskStates == {"none", "pending", "ready", "staged", "native", "running", "done", "cancelled", "gone"}
TaskTypes ==
    /\ task \in [Runs -> [Tasks -> TaskStates]]
    /\ active \in Runs \cup {NoRun} /\ (spc = "claim" => snap \in Runs)
Begun ==
    /\ active < nextRun /\ (spc = "claim" => snap < nextRun)
    /\ \A r \in Runs, k \in Tasks : task[r][k] # "none" => r < nextRun
Anonymous == {"begin", "announce", "notify", "activate", "early", "refresh", "retireExec"}
FrameInv ==
    /\ \A t \in Threads : Shape(t, todo[t])
    /\ asleep \subseteq Threads /\ \A t \in asleep : todo[t] # <<>> /\ todo[t][1][1] \in Waits
    /\ \A t \in Threads, f \in Frames : Pending(t, f) /\ f[1] \notin Anonymous => f[2] < nextRun
    /\ TaskTypes /\ Begun

(* The section a thread is at is pending. *)
LEMMA AtPending ==
    ASSUME LeaseInv, NEW t \in Threads, NEW f, At(t, f)
    PROVE  f \in Frames /\ Pending(t, f) /\ todo[t] \in Seq(Frames) /\ todo[t] # <<>> /\ todo[t][1] = f
<1>1. todo[t] \in Seq(Frames) /\ todo[t] # <<>> /\ Head(todo[t]) = f
  BY DEF At, LeaseInv, TodoInv
<1>2. 1 \in 1 .. Len(todo[t]) /\ todo[t][1] = f /\ f \in Frames
  BY <1>1, SMTT(30)
<1>3. QED
  BY <1>1, <1>2 DEF Pending

(* Numbers of runs. *)
LEMMA RunNumbers ==
    ASSUME LeaseInv
    PROVE  /\ nextRun \in Nat /\ 0 < nextRun /\ NoRun = 0 /\ Runs \subseteq Nat /\ building < nextRun
           /\ building \in Nat /\ (building # NoRun => building \in Runs)
           /\ nextRun <= MaxRuns => nextRun \in Runs
           /\ \A f \in Frames : f[2] \in Nat
<1>1. nextRun \in Nat /\ building \in Runs \cup {NoRun} /\ building < nextRun /\ MaxRuns \in Nat
  BY BoundsAssumption DEF LeaseInv, RunTypes, Unused
<1>2. \A f \in Frames : f[2] \in Nat
  BY <1>1, SMTT(30) DEF Frames
<1>3. QED
  BY <1>1, <1>2, SMTT(30) DEF Runs, NoRun

-----------------------------------------------------------------------------
(* release_run of a run that no call holds. *)
Forgets(t, r) == ReleaseRun(t, r) /\ ~Held(r) /\ Forget(r)

(* How a step may change a task, and which steps do. *)
TaskMove(r, k, old, new) ==
    \/ old = new
    \/ /\ old = "none" /\ new \in Undispatched /\ r = building
       /\ \E t \in Users, depends \in BOOLEAN : Submit(t, k, depends)
    \/ old \in Undispatched /\ new = "cancelled" /\ \E t \in Threads : Cancel(t, r)
    \/ new = "gone" /\ \E t \in Threads : Consume(t, r, k)
    \/ old = "staged" /\ new = "native" /\ FrameStaged(r, k)
    \/ new = "done" /\ Outcome(r, k)
    \/ old = "pending" /\ new \in {"ready", "done"} /\ \E j \in Tasks : Outcome(r, j)
    \/ old \in {"staged", "native"} /\ new = "running" /\ r = active /\ Dispatchable(r) /\ PassStart(woken)
    \/ old = "native" /\ new = "running" /\ r \in EarlyRuns /\ PassEnd
    \/ old = "ready" /\ new = "running" /\ spc = "claim" /\ r = snap /\ Claim(k)
    \/ old = "ready" /\ new = "staged" /\ Stage(r, k)
    \/ new = "none" /\ \E t \in Users : Forgets(t, r)
TasksMove ==
    /\ task' \in [Runs -> [Tasks -> TaskStates]]
    /\ \A r \in Runs, k \in Tasks : TaskMove(r, k, task[r][k], task'[r][k])

(* One task changes, or one run's. *)
LEMMA OneTaskMoves ==
    ASSUME TaskTypes, NEW r \in Runs
    PROVE  /\ \A k \in Tasks, st \in TaskStates :
                task' = [task EXCEPT ![r][k] = st] /\ TaskMove(r, k, task[r][k], st) => TasksMove
           /\ \A row \in [Tasks -> TaskStates] :
                task' = [task EXCEPT ![r] = row] /\ (\A k \in Tasks : TaskMove(r, k, task[r][k], row[k])) => TasksMove
<1>1. task \in [Runs -> [Tasks -> TaskStates]] /\ \A q \in Runs, k \in Tasks : TaskMove(q, k, task[q][k], task[q][k])
  BY DEF TaskTypes, TaskMove
<1>2. ASSUME NEW k \in Tasks, NEW st \in TaskStates, task' = [task EXCEPT ![r][k] = st], TaskMove(r, k, task[r][k], st)
      PROVE  TasksMove
  <2>1. task' \in [Runs -> [Tasks -> TaskStates]]
    BY <1>1, <1>2, SMTT(30)
  <2>2. \A q \in Runs, j \in Tasks : task'[q][j] = IF q = r /\ j = k THEN st ELSE task[q][j]
    BY <1>1, <1>2, SMTT(30)
  <2>3. QED
    BY <1>1, <1>2, <2>1, <2>2 DEF TasksMove
<1>3. ASSUME NEW row \in [Tasks -> TaskStates], task' = [task EXCEPT ![r] = row],
             \A k \in Tasks : TaskMove(r, k, task[r][k], row[k])
      PROVE  TasksMove
  <2>1. task' \in [Runs -> [Tasks -> TaskStates]]
    BY <1>1, <1>3, SMTT(30)
  <2>2. \A q \in Runs, j \in Tasks : task'[q][j] = IF q = r THEN row[j] ELSE task[q][j]
    BY <1>1, <1>3, SMTT(30)
  <2>3. QED
    BY <1>1, <1>3, <2>1, <2>2 DEF TasksMove
<1>4. QED
  BY <1>2, <1>3

(* cancel_unstarted_run, and the outcome of a task with those that wait for  *)
(* it, change the tasks of one run.                                          *)
LEMMA RowMoves ==
    ASSUME TaskTypes, NEW r \in Runs
    PROVE  /\ \A t \in Threads : Cancel(t, r) => TasksMove
           /\ \A k \in Tasks : Outcome(r, k) => TasksMove
<1>1. task \in [Runs -> [Tasks -> TaskStates]] /\ \A k \in Tasks : task[r][k] \in TaskStates
  BY DEF TaskTypes
<1>2. ASSUME NEW t \in Threads, Cancel(t, r) PROVE TasksMove
  <2> DEFINE K == {k \in Tasks : task[r][k] \in Undispatched}
             row == [k \in Tasks |-> IF k \in K THEN "cancelled" ELSE task[r][k]]
  <2>1. task' = [task EXCEPT ![r] = [k \in Tasks |-> IF k \in K THEN "cancelled" ELSE @[k]]]
    BY <1>2 DEF Cancel
  <2>2. task' = [task EXCEPT ![r] = row]
    BY <1>1, <2>1
  <2>3. row \in [Tasks -> TaskStates]
    BY <1>1 DEF TaskStates
  <2>4. \A k \in Tasks : row[k] = task[r][k] \/ (task[r][k] \in Undispatched /\ row[k] = "cancelled")
    OBVIOUS
  <2>5. \A k \in Tasks : TaskMove(r, k, task[r][k], row[k])
    <3> HIDE DEF row
    <3>1. QED
      BY <1>2, <2>4 DEF TaskMove
  <2> HIDE DEF row
  <2>6. QED
    BY <2>2, <2>3, <2>5, OneTaskMoves
<1>3. ASSUME NEW k \in Tasks, Outcome(r, k) PROVE TasksMove
  <2> DEFINE chain == {j \in Tasks : j > k /\ \A i \in k + 1 .. j : task[r][i] = "pending"}
  <2>2. PICK ok \in BOOLEAN :
            task' = [task EXCEPT ![r] = [j \in Tasks |->
                    IF j = k \/ (j \in chain /\ ~ok) THEN "done"
                    ELSE IF j \in chain /\ j = k + 1 THEN "ready" ELSE @[j]]]
    BY <1>3 DEF Outcome
  <2> DEFINE row == [j \in Tasks |-> IF j = k \/ (j \in chain /\ ~ok) THEN "done"
                                     ELSE IF j \in chain /\ j = k + 1 THEN "ready" ELSE task[r][j]]
  <2>3. task' = [task EXCEPT ![r] = row]
    BY <1>1, <2>2
  <2>4. \A j \in chain : j \in Tasks /\ task[r][j] = "pending"
    <3>1. \A j \in chain : j \in k + 1 .. j
      BY BoundsAssumption, SMTT(30) DEF Tasks
    <3>2. QED
      BY <3>1
  <2> HIDE DEF chain
  <2>5. row \in [Tasks -> TaskStates]
    BY <1>1 DEF TaskStates
  <2>6. \A j \in Tasks : \/ row[j] = task[r][j] \/ (j = k /\ row[j] = "done")
                         \/ (task[r][j] = "pending" /\ row[j] \in {"ready", "done"})
    BY <2>4
  <2> HIDE DEF row
  <2>7. \A j \in Tasks : TaskMove(r, j, task[r][j], row[j])
    BY <1>3, <2>6 DEF TaskMove
  <2>8. QED
    BY <2>3, <2>5, <2>7, OneTaskMoves
<1>4. QED
  BY <1>2, <1>3

(* The Scheduler loop launches, claims and stages. *)
LEMMA LoopMoves ==
    ASSUME TaskTypes, Loop
    PROVE  TasksMove
<1>1. task \in [Runs -> [Tasks -> TaskStates]] /\ \A r \in Runs, k \in Tasks : task[r][k] \in TaskStates
  BY DEF TaskTypes
<1>2. ASSUME UNCHANGED task PROVE TasksMove
  BY <1>1, <1>2 DEF TasksMove, TaskMove
<1>3. ASSUME PassStart(woken), Dispatchable(active) PROVE TasksMove
  <2> DEFINE row == [k \in Tasks |-> Launch(active, k)]
  <2>1. task' = [task EXCEPT ![active] = row] /\ active \in Runs
    BY <1>3 DEF PassStart, TaskTypes, Dispatchable
  <2>2. \A k \in Tasks : \/ row[k] = task[active][k]
                         \/ task[active][k] \in {"staged", "native"} /\ row[k] = "running"
    BY DEF Launch
  <2>3. \A k \in Tasks : Launch(active, k) \in TaskStates
    BY <1>1, <2>1 DEF Launch, TaskStates
  <2>4. row \in [Tasks -> TaskStates]
    BY <2>3
  <2> HIDE DEF row
  <2>5. \A k \in Tasks : TaskMove(active, k, task[active][k], row[k])
    BY <1>3, <2>2 DEF TaskMove
  <2>6. QED
    BY <2>1, <2>4, <2>5, OneTaskMoves
<1>4. ASSUME NEW k \in Tasks, Claim(k) PROVE TasksMove
  <2>1. task' = [task EXCEPT ![snap][k] = "running"] /\ task[snap][k] = "ready" /\ spc = "claim" /\ snap \in Runs
    BY <1>4 DEF Claim, TaskTypes
  <2>2. TaskMove(snap, k, task[snap][k], "running") /\ "running" \in TaskStates
    BY <1>4, <2>1 DEF TaskMove, TaskStates
  <2>3. QED
    BY <2>1, <2>2, OneTaskMoves
<1>5. ASSUME NEW k \in Tasks, NEW r \in Runs, Stage(r, k) PROVE TasksMove
  <2>1. task' = [task EXCEPT ![r][k] = "staged"] /\ task[r][k] = "ready"
    BY <1>5 DEF Stage, Stageable
  <2>2. TaskMove(r, k, task[r][k], "staged") /\ "staged" \in TaskStates
    BY <1>5, <2>1 DEF TaskMove, TaskStates
  <2>3. QED
    BY <2>1, <2>2, OneTaskMoves
<1>6. ASSUME PassEnd PROVE TasksMove
  <2>1. task' = [r \in Runs |-> [k \in Tasks |->
                    IF r \in EarlyRuns /\ task[r][k] = "native" THEN "running" ELSE task[r][k]]]
    BY <1>6 DEF PassEnd
  <2>2. task' \in [Runs -> [Tasks -> TaskStates]]
    BY <1>1, <2>1 DEF TaskStates
  <2>3. \A r \in Runs, k \in Tasks : \/ task'[r][k] = task[r][k]
                                     \/ r \in EarlyRuns /\ task[r][k] = "native" /\ task'[r][k] = "running"
    BY <2>1
  <2>4. QED
    BY <1>6, <2>2, <2>3 DEF TasksMove, TaskMove
<1>7. PassStart(woken) /\ ~Dispatchable(active) => UNCHANGED task
  BY DEF PassStart
<1>8. ClaimsDone => UNCHANGED task
  BY DEF ClaimsDone, taskVars
<1>9. QED
  BY <1>2, <1>3, <1>4, <1>5, <1>6, <1>7, <1>8 DEF Loop

(* Every step changes the tasks as TaskMove says. *)
LEMMA TaskStep == LeaseInv /\ TaskTypes /\ [Next]_vars => TasksMove
<1> SUFFICES ASSUME LeaseInv, TaskTypes, [Next]_vars PROVE TasksMove
  OBVIOUS
<1>1. ASSUME UNCHANGED task PROVE TasksMove
  BY <1>1 DEF TasksMove, TaskMove, TaskTypes
<1>2. ASSUME NEW t \in Threads, Sections(t) PROVE TasksMove
  <2>1. BeginWoken(t) \/ Early(t) \/ Activate(t) \/ (\E op \in {"announce", "notify"} : Announce(t, op))
          => UNCHANGED task
    BY DEF BeginWoken, Early, Activate, Announce, taskVars
  <2>2. (\E r \in Runs : Await(t, r) \/ Close(t, r) \/ Refresh(t, r) \/ Fail(t, r) \/ Drop(t, r)) => UNCHANGED task
    BY DEF Await, Close, Refresh, Fail, Drop, taskVars
  <2>3. (\E r \in Runs : RetireExec(t, r) \/ Finish(t, r) \/ Retire(t, r) \/ PublishExecuting(t, r)) => UNCHANGED task
    BY DEF RetireExec, Finish, Retire, PublishExecuting, taskVars
  <2>4. ASSUME NEW r \in Runs, NEW k \in Tasks, Consume(t, r, k) PROVE TasksMove
    <3>1. task' = [task EXCEPT ![r][k] = "gone"] /\ "gone" \in TaskStates
      BY <2>4 DEF Consume, TaskStates
    <3>2. TaskMove(r, k, task[r][k], "gone")
      BY <2>4 DEF TaskMove
    <3>3. QED
      BY <3>1, <3>2, OneTaskMoves
  <2>5. QED
    BY <1>1, <1>2, <2>1, <2>2, <2>3, <2>4, RowMoves DEF Sections
<1>3. ASSUME NEW t \in Users, User(t) PROVE TasksMove
  <2>1. BeginRun(t) \/ AwaitCall(t) \/ CloseRun(t) \/ FailRun(t) \/ (\E r \in Runs : WaitRun(t, r)) => UNCHANGED task
    BY DEF BeginRun, AwaitCall, CloseRun, FailRun, WaitRun, taskVars
  <2>2. ASSUME NEW k \in Tasks, NEW depends \in BOOLEAN, Submit(t, k, depends) PROVE TasksMove
    <3> DEFINE st == IF depends THEN "pending" ELSE "ready"
    <3>1. building \in Runs /\ task[building][k] = "none" /\ task' = [task EXCEPT ![building][k] = st]
      BY <2>2 DEF Submit, LeaseInv, RunTypes
    <3>2. st \in Undispatched /\ st \in TaskStates
      BY DEF Undispatched, TaskStates
    <3> HIDE DEF st
    <3>3. TaskMove(building, k, task[building][k], st)
      BY <2>2, <3>1, <3>2 DEF TaskMove
    <3>4. QED
      BY <3>1, <3>2, <3>3, OneTaskMoves
  <2>3. ASSUME NEW r \in Runs, ReleaseRun(t, r) PROVE TasksMove
    <3>1. CASE ~Held(r)
      <4> DEFINE row == [k \in Tasks |-> "none"]
      <4>1. Forgets(t, r) /\ task' = [task EXCEPT ![r] = row]
        BY <2>3, <3>1 DEF ReleaseRun, Forget, Forgets
      <4>2. row \in [Tasks -> TaskStates] /\ \A k \in Tasks : row[k] = "none"
        BY DEF TaskStates
      <4> HIDE DEF row
      <4>3. \A k \in Tasks : TaskMove(r, k, task[r][k], row[k])
        BY <4>1, <4>2 DEF TaskMove
      <4>4. QED
        BY <4>1, <4>2, <4>3, OneTaskMoves
    <3>2. CASE Held(r)
      BY <1>1, <2>3, <3>2 DEF ReleaseRun, taskVars
    <3>3. QED
      BY <3>1, <3>2
  <2>4. QED
    BY <1>1, <1>3, <2>1, <2>2, <2>3 DEF User
<1>4. ASSUME NEW r \in Runs, NEW k \in Tasks, Endpoint(r, k) \/ Report(r, k) \/ \E t \in Threads : LastRelease(t, r, k)
      PROVE  TasksMove
  <2>1. TaskAccepted(r, k) \/ TaskCompleted(r, k) \/ Over(r, k) \/ (\E sets \in Capacities : TaskEnded(r, k, sets))
          \/ (\E t \in Threads : LastRelease(t, r, k)) => UNCHANGED task
    BY DEF TaskAccepted, TaskCompleted, Over, TaskEnded, LastRelease, taskVars
  <2>2. ASSUME FrameStaged(r, k) PROVE TasksMove
    <3>1. task[r][k] = "staged" /\ task' = [task EXCEPT ![r][k] = "native"]
      BY <2>2 DEF FrameStaged
    <3>2. TaskMove(r, k, task[r][k], "native") /\ "native" \in TaskStates
      BY <2>2, <3>1 DEF TaskMove, TaskStates
    <3>3. QED
      BY <3>1, <3>2, OneTaskMoves
  <2>3. QED
    BY <1>1, <1>4, <2>1, <2>2, RowMoves DEF Endpoint, Report
<1>5. UNCHANGED vars => UNCHANGED task
  BY DEF vars, taskVars
<1>6. QED
  BY <1>1, <1>2, <1>3, <1>4, <1>5, LoopMoves DEF Next

-----------------------------------------------------------------------------
(* Which steps push a section f on thread t, and which return from one. *)
FrameMove(t, f) ==
    \/ f[1] \in Anonymous
    \/ f[1] = "await" /\ f[2] = building /\ AwaitCall(t)
    \/ f[1] = "close" /\ f[2] = building /\ CloseRun(t)
    \/ f[1] \in {"fail", "cancel", "finish"} /\ f[2] = building /\ FailRun(t)
    \/ f[1] = "finish" /\ Close(t, f[2])
    \/ f[1] = "finish" /\ Drop(t, f[2]) /\ live[f[2]] = 1
    \/ f[1] = "finish" /\ PublishExecuting(t, f[2])
    \/ f[1] = "drop" /\ \E k \in Tasks : Consume(t, f[2], k)
    \/ f[1] = "retire" /\ RetireExec(t, f[2]) /\ ExecutionEnded(f[2])
    \/ f[1] = "retire" /\ Finish(t, f[2]) /\ Fenced(f[2])
    \/ f[1] = "consume" /\ Cancel(t, f[2]) /\ f[3] \in Tasks /\ task[f[2]][f[3]] \in Undispatched
    \/ f[1] = "consume" /\ LastRelease(t, f[2], f[3]) /\ f[3] \in Tasks
    \/ f[1] = "publish" /\ Activate(t) /\ Promotable /\ f[2] = FirstRun(fifo) /\ mu' = {t}
    \/ f[1] \in {"over", "outcome"} /\ t = Sched /\ TaskCompleted(f[2], f[3]) /\ f[3] \in Tasks
FramePop(t, f) ==
    /\ At(t, f)
    /\ f[1] = "retire" => f[2] \in Runs /\ Retire(t, f[2])
    /\ f[1] = "publish" => f[2] \in Runs /\ PublishExecuting(t, f[2])
    /\ f[1] = "drop" => f[2] \in Runs /\ Drop(t, f[2])
    /\ f[1] \in {"announce", "notify"} => Announce(t, f[1])
TodoMoves ==
    /\ \A u \in Threads, f \in Frames :
         Pending(u, f)' => Pending(u, f) \/ (FrameMove(u, f) /\ f[2] \in Runs \cup {NoRun})
    /\ \A u \in Threads, f \in Frames : Pending(u, f) => Pending(u, f)' \/ FramePop(u, f)
    /\ \A u \in Threads : u \in asleep => todo'[u] = todo[u]
    /\ \A u \in Threads : todo'[u] = todo[u] \/ todo[u] = <<>> \/ \E f : FramePop(u, f)
ShapesKeep == (\A t \in Threads : Shape(t, todo[t])) => \A t \in Threads : Shape(t, todo'[t])

(* From what one thread does to what the step does. *)
LEMMA FramesFrom ==
    ASSUME NEW t \in Threads, NEW old, NEW F, NEW r \in Runs \cup {NoRun}, NEW ops, Does(t, old, F, r, ops),
           \A f \in F : FrameMove(t, f),
           FramePop(t, old) \/ todo[t] = <<>>
    PROVE  TodoMoves /\ (ops \subseteq Harmless => ShapesKeep)
<1>1. ops \subseteq Harmless => ShapesKeep
  BY DEF Does, ShapesKeep
<1>2. \A u \in Threads, f \in Frames :
         Pending(u, f)' => Pending(u, f) \/ (FrameMove(u, f) /\ f[2] \in Runs \cup {NoRun})
  <2>1. \A f \in F : f[2] \in Runs \cup {NoRun}
    BY DEF Does
  <2>2. QED
    BY <2>1 DEF Does
<1>3. todo[t] = <<>> => \A f \in Frames : ~Pending(t, f)
  BY SMTT(30) DEF Pending
<1>4. \A u \in Threads, f \in Frames : Pending(u, f) => Pending(u, f)' \/ FramePop(u, f)
  BY <1>3 DEF Does
<1>5. /\ \A u \in Threads : u \in asleep => todo'[u] = todo[u]
      /\ \A u \in Threads : todo'[u] = todo[u] \/ todo[u] = <<>> \/ \E f : FramePop(u, f)
  BY DEF Does
<1>6. QED
  BY <1>1, <1>2, <1>4, <1>5 DEF TodoMoves

(* A section that pushes none. *)
LEMMA FramesReturn ==
    ASSUME NEW t \in Threads, NEW old, NEW r \in Runs \cup {NoRun}, Does(t, old, {}, r, {}), FramePop(t, old)
    PROVE  TodoMoves /\ ShapesKeep
<1>1. \A f \in {} : FrameMove(t, f)
  OBVIOUS
<1>2. {} \subseteq Harmless
  OBVIOUS
<1>3. QED
  BY <1>1, <1>2, FramesFrom, SMTT(30)

(* A call or section that pushes one. *)
LEMMA FramesPush ==
    ASSUME NEW t \in Threads, NEW old, NEW r \in Runs \cup {NoRun}, NEW g, NEW op, Does(t, old, {g}, r, {op}),
           FrameMove(t, g), FramePop(t, old) \/ todo[t] = <<>>
    PROVE  TodoMoves /\ (op \in Harmless => ShapesKeep)
<1>1. \A f \in {g} : FrameMove(t, f)
  OBVIOUS
<1>2. op \in Harmless => {op} \subseteq Harmless
  OBVIOUS
<1>3. QED
  BY <1>1, <1>2, FramesFrom, SMTT(30)

(* A step that leaves todo alone. *)
LEMMA FramesStay == UNCHANGED todo => TodoMoves /\ ShapesKeep
BY DEF TodoMoves, ShapesKeep, Pending

(* The sections of one run. *)
LEMMA SectionFrames ==
    ASSUME LeaseInv, NEW t \in Threads, NEW r \in Runs,
           \/ Await(t, r) \/ Close(t, r) \/ Refresh(t, r) \/ Fail(t, r) \/ Drop(t, r)
           \/ RetireExec(t, r) \/ Finish(t, r)
    PROVE  TodoMoves /\ ShapesKeep
<1>1. \A op \in Ops : /\ Frame(op, r) \in Frames /\ Frame(op, r)[1] = op /\ Frame(op, r)[2] = r
                      /\ Frame(op, NoRun) \in Frames /\ Frame(op, NoRun)[1] = op /\ Frame(op, NoRun)[2] = NoRun
  BY OpFrames
<1>2. ASSUME NEW op \in Ops, At(t, Frame(op, r)), op \notin {"retire", "publish", "drop", "announce", "notify"}
      PROVE  FramePop(t, Frame(op, r))
  BY <1>1, <1>2 DEF FramePop
<1>3. ASSUME NEW op \in Ops, NEW F, NEW ops, ops \subseteq Harmless, FramePop(t, Frame(op, r)),
             Does(t, Frame(op, r), F, r, ops), \A f \in F : FrameMove(t, f)
      PROVE  TodoMoves /\ ShapesKeep
  BY <1>3, FramesFrom
<1>4. {"refresh", "activate", "retireExec", "finish"} \subseteq Harmless
  BY DEF Harmless
<1>5. CASE Await(t, r)
  <2>1. At(t, Frame("await", r)) /\ (UNCHANGED todo \/ Does(t, Frame("await", r), {}, r, {}))
    BY <1>5, SectionDoes DEF Await, SectionTable
  <2>2. FramePop(t, Frame("await", r))
    BY <1>2, <2>1 DEF Ops
  <2>3. QED
    BY <2>1, <2>2, FramesReturn, FramesStay
<1>6. CASE Close(t, r)
  <2> DEFINE F == {Frame("refresh", r), Frame("activate", NoRun), Frame("retireExec", r), Frame("finish", r)}
  <2>1. \A f \in F : FrameMove(t, f)
    <3>1. /\ FrameMove(t, Frame("refresh", r)) /\ FrameMove(t, Frame("activate", NoRun))
          /\ FrameMove(t, Frame("retireExec", r))
      BY <1>1 DEF FrameMove, Anonymous, Ops
    <3>2. FrameMove(t, Frame("finish", r))
      BY <1>1, <1>6 DEF FrameMove, Anonymous, Ops
    <3>3. QED
      BY <3>1, <3>2
  <2>2. At(t, Frame("close", r)) /\ Does(t, Frame("close", r), F, r, {"refresh", "activate", "retireExec", "finish"})
    BY <1>6, SectionDoes DEF Close, SectionTable
  <2> HIDE DEF F
  <2>3. FramePop(t, Frame("close", r))
    BY <1>2, <2>2 DEF Ops
  <2>4. QED
    BY <1>3, <1>4, <2>1, <2>2, <2>3 DEF Ops
<1>7. CASE Refresh(t, r)
  <2>1. At(t, Frame("refresh", r)) /\ Does(t, Frame("refresh", r), {}, r, {})
    BY <1>7, SectionDoes DEF Refresh, SectionTable
  <2>2. FramePop(t, Frame("refresh", r))
    BY <1>2, <2>1 DEF Ops
  <2>3. QED
    BY <2>1, <2>2, FramesReturn
<1>8. CASE Fail(t, r)
  <2>1. At(t, Frame("fail", r)) /\ Does(t, Frame("fail", r), {}, r, {})
    BY <1>8, SectionDoes DEF Fail, SectionTable
  <2>2. FramePop(t, Frame("fail", r))
    BY <1>2, <2>1 DEF Ops
  <2>3. QED
    BY <2>1, <2>2, FramesReturn
<1>9. CASE Drop(t, r)
  <2>1. FramePop(t, Frame("drop", r))
    <3>1. At(t, Frame("drop", r))
      BY <1>9 DEF Drop
    <3>2. QED
      BY <1>1, <1>9, <3>1 DEF FramePop, Ops
  <2>2. live[r] = 1 => FrameMove(t, Frame("finish", r))
    <3>1. Frame("finish", r)[1] = "finish" /\ Frame("finish", r)[2] = r
      BY <1>1 DEF Ops
    <3>2. QED
      BY <1>9, <3>1 DEF FrameMove, Anonymous
  <2>3. \/ live[r] = 1 /\ Does(t, Frame("drop", r), {Frame("finish", r)}, r, {"finish"})
        \/ Does(t, Frame("drop", r), {}, r, {})
    BY <1>9, SectionDoes DEF SectionTable
  <2>4. QED
    BY <2>1, <2>2, <2>3, FramesReturn, FramesPush DEF Harmless
<1>10. CASE RetireExec(t, r)
  <2>1. ExecutionEnded(r) => FrameMove(t, Frame("retire", r))
    <3>1. Frame("retire", r)[1] = "retire" /\ Frame("retire", r)[2] = r
      BY <1>1 DEF Ops
    <3>2. QED
      BY <1>10, <3>1 DEF FrameMove, Anonymous
  <2>2. At(t, Frame("retireExec", r))
    BY <1>10 DEF RetireExec
  <2>3. FramePop(t, Frame("retireExec", r))
    BY <1>2, <2>2 DEF Ops
  <2>4. \/ Does(t, Frame("retireExec", r), {}, r, {})
        \/ ExecutionEnded(r) /\ Does(t, Frame("retireExec", r), {Frame("retire", r)}, r, {"retire"})
    BY <1>10, SectionDoes DEF SectionTable
  <2>5. QED
    BY <2>1, <2>3, <2>4, FramesReturn, FramesPush DEF Harmless
<1>11. CASE Finish(t, r)
  <2>1. Fenced(r) => FrameMove(t, Frame("retire", r))
    <3>1. Frame("retire", r)[1] = "retire" /\ Frame("retire", r)[2] = r
      BY <1>1 DEF Ops
    <3>2. QED
      BY <1>11, <3>1 DEF FrameMove, Anonymous
  <2>2. At(t, Frame("finish", r))
    BY <1>11 DEF Finish
  <2>3. FramePop(t, Frame("finish", r))
    BY <1>2, <2>2 DEF Ops
  <2>4. \/ Does(t, Frame("finish", r), {}, r, {})
        \/ Fenced(r) /\ Does(t, Frame("finish", r), {Frame("retire", r)}, r, {"retire"})
    BY <1>11, SectionDoes DEF SectionTable
  <2>5. QED
    BY <2>1, <2>3, <2>4, FramesReturn, FramesPush DEF Harmless
<1>12. QED
  BY <1>5, <1>6, <1>7, <1>8, <1>9, <1>10, <1>11

(* A section that pushes new where it may. *)
LEMMA ShapeThen ==
    ASSUME LeaseInv, NEW t \in Threads, NEW f, At(t, f), NEW new \in Seq(Frames), Then(t, new), Nests(f, new)
    PROVE  ShapesKeep
<1>1. todo[t] \in Seq(Frames) /\ todo[t] # <<>> /\ todo[t][1] = f
  BY AtPending
<1>2. todo'[t] = new \o Tail(todo[t]) /\ \A u \in Threads : u # t => todo'[u] = todo[u]
  BY DEF Then, LeaseInv, TodoInv
<1>3. Shape(t, todo[t]) => Shape(t, todo'[t])
  BY <1>1, <1>2, ThenShape
<1>4. QED
  BY <1>2, <1>3 DEF ShapesKeep

(* The sections that cancel, consume, lend, retire and notify. *)
LEMMA LendFrames ==
    ASSUME LeaseInv, NEW t \in Threads
    PROVE  /\ Early(t) \/ Activate(t) \/ (\E op \in {"announce", "notify"} : Announce(t, op)) => TodoMoves /\ ShapesKeep
           /\ \A r \in Runs : Retire(t, r) \/ PublishExecuting(t, r) \/ Cancel(t, r) => TodoMoves /\ ShapesKeep
           /\ \A r \in Runs, k \in Tasks : Consume(t, r, k) => TodoMoves /\ ShapesKeep
<1>1. \A op \in Ops, q \in Runs \cup {NoRun} : Frame(op, q) \in Frames /\ Frame(op, q)[1] = op /\ Frame(op, q)[2] = q
  BY OpFrames
<1>2. NoRun \in Runs \cup {NoRun} /\ \A r \in Runs : r \in Runs \cup {NoRun}
  OBVIOUS
<1>3. \A op \in {"announce", "notify", "activate", "early", "refresh", "retireExec"}, q \in Runs \cup {NoRun} :
        FrameMove(t, Frame(op, q)) /\ op \in Harmless
  <2> SUFFICES ASSUME NEW op \in {"announce", "notify", "activate", "early", "refresh", "retireExec"}, NEW q
               PROVE  FrameMove(t, Frame(op, q)) /\ op \in Harmless
    OBVIOUS
  <2>1. Frame(op, q)[1] = op
    BY FrameParts
  <2>2. QED
    BY <2>1 DEF FrameMove, Anonymous, Harmless
<1>4. ASSUME Early(t) PROVE TodoMoves /\ ShapesKeep
  <2>1. At(t, Frame("early", NoRun)) /\ Does(t, Frame("early", NoRun), {}, NoRun, {})
    BY <1>4, LendDoes DEF Early, LendTable
  <2>2. FramePop(t, Frame("early", NoRun))
    <3>1. Frame("early", NoRun)[1] = "early"
      BY FrameParts
    <3>2. QED
      BY <2>1, <3>1 DEF FramePop
  <2>3. QED
    BY <1>2, <2>1, <2>2, FramesReturn
<1>5. ASSUME NEW op \in {"announce", "notify"}, Announce(t, op) PROVE TodoMoves /\ ShapesKeep
  <2>1. At(t, Frame(op, NoRun)) /\ Does(t, Frame(op, NoRun), {}, NoRun, {})
    BY <1>5, LendDoes DEF Announce, LendTable
  <2>2. FramePop(t, Frame(op, NoRun))
    <3>1. Frame(op, NoRun)[1] = op
      BY FrameParts
    <3>2. QED
      BY <1>5, <2>1, <3>1 DEF FramePop
  <2>3. QED
    BY <1>2, <2>1, <2>2, FramesReturn
<1>6. ASSUME Activate(t) PROVE TodoMoves /\ ShapesKeep
  <2>1. At(t, Frame("activate", NoRun))
    BY <1>6 DEF Activate
  <2>2. FramePop(t, Frame("activate", NoRun))
    <3>1. Frame("activate", NoRun)[1] = "activate"
      BY FrameParts
    <3>2. QED
      BY <2>1, <3>1 DEF FramePop
  <2>3. CASE Does(t, Frame("activate", NoRun), {}, NoRun, {})
    BY <1>2, <2>2, <2>3, FramesReturn
  <2>4. CASE /\ Promotable /\ mu' = {t} /\ FirstRun(fifo) \in fifo
             /\ Does(t, Frame("activate", NoRun), {Frame("publish", FirstRun(fifo))}, FirstRun(fifo), {"publish"})
    <3> DEFINE r == FirstRun(fifo)
    <3>1. /\ r \in Runs /\ Frame("publish", r)[1] = "publish" /\ Frame("publish", r)[2] = r
          /\ Frame("publish", r) \in Frames
      BY <1>1, <2>4 DEF LeaseInv, RunTypes, Ops
    <3>2. FrameMove(t, Frame("publish", r))
      BY <1>6, <2>4, <3>1 DEF FrameMove, Anonymous
    <3>3. TodoMoves
      BY <1>2, <2>2, <2>4, <3>1, <3>2, FramesPush
    <3>4. CASE Then(t, <<>>)
      <4>1. <<>> \in Seq(Frames) /\ Nests(Frame("activate", NoRun), <<>>)
        BY SMTT(30) DEF Nests
      <4>2. QED
        BY <2>1, <3>3, <3>4, <4>1, ShapeThen
    <3>5. CASE Then(t, <<Frame("publish", r)>>)
      <4>1. <<Frame("publish", r)>> \in Seq(Frames) /\ Nests(Frame("activate", NoRun), <<Frame("publish", r)>>)
        BY <3>1, SMTT(30) DEF Nests, Waits, Claims
      <4>2. QED
        BY <2>1, <3>3, <3>5, <4>1, ShapeThen
    <3>6. QED
      BY <1>6, <3>4, <3>5 DEF Activate
  <2>5. QED
    BY <1>6, <2>3, <2>4, LendDoes DEF LendTable
<1>7. ASSUME NEW r \in Runs, Retire(t, r) PROVE TodoMoves /\ ShapesKeep
  <2>1. PICK op \in {"announce", "notify"} :
            Does(t, Frame("retire", r), {Frame(op, NoRun), Frame("activate", NoRun)}, NoRun, {op, "activate"})
    BY <1>7, LendDoes DEF LendTable
  <2>2. FramePop(t, Frame("retire", r))
    <3>1. At(t, Frame("retire", r)) /\ Frame("retire", r)[1] = "retire" /\ Frame("retire", r)[2] = r
      BY <1>7, FrameParts DEF Retire
    <3>2. QED
      BY <1>7, <3>1 DEF FramePop
  <2>3. {op, "activate"} \subseteq Harmless /\ \A f \in {Frame(op, NoRun), Frame("activate", NoRun)} : FrameMove(t, f)
    BY <1>2, <1>3
  <2> DEFINE F == {Frame(op, NoRun), Frame("activate", NoRun)}
             ops == {op, "activate"}
  <2>4. Does(t, Frame("retire", r), F, NoRun, ops) /\ ops \subseteq Harmless /\ \A f \in F : FrameMove(t, f)
    BY <2>1, <2>3
  <2> HIDE DEF F, ops
  <2>5. QED
    BY <1>2, <2>2, <2>4, FramesFrom
<1>8. ASSUME NEW r \in Runs, PublishExecuting(t, r) PROVE TodoMoves /\ ShapesKeep
  <2> DEFINE F == {Frame("announce", NoRun), Frame("retireExec", r), Frame("finish", r)}
             ops == {"announce", "retireExec", "finish"}
  <2>1. Does(t, Frame("publish", r), F, r, ops)
    BY <1>8, LendDoes DEF LendTable
  <2>2. FramePop(t, Frame("publish", r))
    <3>1. At(t, Frame("publish", r)) /\ Frame("publish", r)[1] = "publish" /\ Frame("publish", r)[2] = r
      BY <1>8, FrameParts DEF PublishExecuting
    <3>2. QED
      BY <1>8, <3>1 DEF FramePop
  <2>3. FrameMove(t, Frame("finish", r))
    <3>1. Frame("finish", r)[1] = "finish" /\ Frame("finish", r)[2] = r
      BY FrameParts
    <3>2. QED
      BY <1>8, <3>1 DEF FrameMove, Anonymous
  <2>4. ops \subseteq Harmless /\ \A f \in F : FrameMove(t, f)
    BY <1>2, <1>3, <2>3 DEF Harmless
  <2> HIDE DEF F, ops
  <2>5. QED
    BY <1>2, <2>1, <2>2, <2>4, FramesFrom
<1>9. ASSUME NEW r \in Runs, Cancel(t, r) PROVE TodoMoves /\ ShapesKeep
  <2> DEFINE K == {j \in Tasks : task[r][j] \in Undispatched}
             F == {<<"consume", r, k>> : k \in K}
  <2>1. Does(t, Frame("cancel", r), F, r, {"consume"})
    BY <1>9, LendDoes DEF LendTable
  <2>2. At(t, Frame("cancel", r)) /\ Then(t, ConsumeFrames(r, K)) /\ Frame("cancel", r)[1] = "cancel"
    BY <1>9, FrameParts DEF Cancel
  <2>3. FramePop(t, Frame("cancel", r))
    BY <2>2 DEF FramePop
  <2>4. ASSUME NEW f \in F PROVE FrameMove(t, f)
    <3>1. PICK k \in K : f = <<"consume", r, k>>
      OBVIOUS
    <3>2. f[1] = "consume" /\ f[2] = r /\ f[3] = k
      BY <3>1, FrameParts
    <3>3. QED
      BY <1>9, <3>1, <3>2 DEF FrameMove, Anonymous
  <2>5. K \in SUBSET Tasks
    OBVIOUS
  <2> HIDE DEF K, F
  <2>6. TodoMoves
    BY <1>2, <2>1, <2>3, <2>4, FramesFrom
  <2>7. /\ ConsumeFrames(r, K) \in Seq(Frames)
        /\ \A i \in 1 .. Len(ConsumeFrames(r, K)) : ConsumeFrames(r, K)[i][1] = "consume"
    BY <2>5, ConsumeFramesType
  <2>8. Nests(Frame("cancel", r), ConsumeFrames(r, K))
    BY <2>2, <2>7 DEF Nests, Waits, Claims
  <2>9. QED
    BY <2>2, <2>6, <2>7, <2>8, ShapeThen
<1>10. ASSUME NEW r \in Runs, NEW k \in Tasks, Consume(t, r, k) PROVE TodoMoves /\ ShapesKeep
  <2> DEFINE F == {Frame("retireExec", r), Frame("drop", r)}
             new == <<Frame("retireExec", r), Frame("drop", r)>>
  <2>1. Does(t, <<"consume", r, k>>, F, r, {"retireExec", "drop"})
    BY <1>10, SectionDoes DEF SectionTable
  <2>2. At(t, <<"consume", r, k>>) /\ Then(t, new) /\ <<"consume", r, k>>[1] = "consume"
    BY <1>10, FrameParts DEF Consume
  <2>3. FramePop(t, <<"consume", r, k>>)
    BY <2>2 DEF FramePop
  <2>4. /\ Frame("drop", r)[1] = "drop" /\ Frame("drop", r)[2] = r /\ Frame("drop", r) \in Frames
        /\ Frame("retireExec", r)[1] = "retireExec" /\ Frame("retireExec", r) \in Frames
    <3>1. Frame("drop", r) \in Frames /\ Frame("retireExec", r) \in Frames
      BY <1>1, <1>2 DEF Ops
    <3>2. QED
      BY <3>1, FrameParts
  <2>5. FrameMove(t, Frame("drop", r))
    BY <1>10, <2>4 DEF FrameMove, Anonymous
  <2>6. \A f \in F : FrameMove(t, f)
    BY <1>2, <1>3, <2>5
  <2> HIDE DEF F
  <2>7. TodoMoves
    BY <1>2, <2>1, <2>3, <2>6, FramesFrom
  <2>8. new \in Seq(Frames) /\ Len(new) = 2 /\ new[1][1] = "retireExec" /\ new[2][1] = "drop"
    BY <2>4, SMTT(30)
  <2> HIDE DEF new
  <2>9. Nests(<<"consume", r, k>>, new)
    <3>1. \A i \in 1 .. Len(new) : i = 1 \/ i = 2
      BY <2>8, SMTT(30)
    <3>2. \A i, j \in 1 .. Len(new) : i < j => i = 1
      BY <2>8, SMTT(30)
    <3>3. QED
      BY <2>2, <2>8, <3>1, <3>2 DEF Nests, Waits, Claims
  <2>10. QED
    BY <2>2, <2>7, <2>8, <2>9, ShapeThen
<1>11. QED
  BY <1>4, <1>5, <1>6, <1>7, <1>8, <1>9, <1>10

(* A call whose sections nest. *)
LEMMA ShapeCall ==
    ASSUME LeaseInv, NEW t \in Threads, NEW new, Call(t, new), Shape(t, new)
    PROVE  ShapesKeep
BY DEF Call, ShapesKeep, LeaseInv, TodoInv

(* Sections of the kinds that nest after a call. *)
LEMMA ShapePlain ==
    ASSUME NEW t, NEW s,
           (\A i \in 1 .. Len(s) : s[i][1] \notin Waits) \/ Len(s) = 1,
           \A i \in 1 .. Len(s) : s[i][1] \notin {"over", "outcome"} /\ (s[i][1] \in {"publish", "drop"} => Len(s) = 1)
    PROVE  Shape(t, s)
<1>1. Len(s) = 1 => \A i \in 1 .. Len(s) : i = 1
  BY SMTT(30)
<1>2. Len(s) = 1 => \A i, j \in 1 .. Len(s) : ~(i < j)
  BY SMTT(30)
<1>3. QED
  BY <1>1, <1>2 DEF Shape

(* The calls of the users. *)
LEMMA UserFrames ==
    ASSUME LeaseInv, NEW t \in Threads, BeginRun(t) \/ BeginWoken(t) \/ AwaitCall(t) \/ CloseRun(t) \/ FailRun(t)
    PROVE  TodoMoves /\ ShapesKeep
<1>1. NoRun \in Runs \cup {NoRun} /\ \A r \in Runs : r \in Runs \cup {NoRun}
  OBVIOUS
<1>2. /\ FrameMove(t, Begin) /\ FrameMove(t, Frame("activate", NoRun)) 
      /\ "activate" \in Harmless /\ "close" \in Harmless
      /\ Begin[1] = "begin"
  <2>1. Begin[1] = "begin" /\ Frame("activate", NoRun)[1] = "activate"
    BY FrameParts DEF Begin
  <2>2. QED
    BY <2>1 DEF FrameMove, Anonymous, Harmless
<1>3. At(t, Begin) => FramePop(t, Begin)
  BY <1>2 DEF FramePop
<1>4. ASSUME NEW f, f[1] \notin {"over", "outcome"} PROVE Shape(t, <<f>>)
  <2>1. Len(<<f>>) = 1 /\ \A i \in 1 .. Len(<<f>>) : <<f>>[i] = f
    BY SMTT(30)
  <2>2. QED
    BY <1>4, <2>1, ShapePlain
<1>5. ASSUME Publish(t), Free(t) \/ At(t, Begin) PROVE TodoMoves /\ ShapesKeep
  <2>1. Does(t, Begin, {Frame("activate", NoRun)}, NoRun, {"activate"}) /\ (FramePop(t, Begin) \/ todo[t] = <<>>)
    BY <1>3, <1>5, UserDoes DEF Free, UserTable
  <2>2. QED
    BY <1>1, <1>2, <2>1, FramesPush
<1>6. CASE BeginRun(t)
  <2>1. CASE Publish(t)
    BY <1>5, <1>6, <2>1 DEF BeginRun
  <2>2. CASE ~Publish(t)
    <3>1. Free(t) /\ Call(t, <<Begin>>) /\ Does(t, Begin, {Begin}, NoRun, {"begin"})
      BY <1>6, <2>2, UserDoes DEF BeginRun, Begin, UserTable
    <3>2. TodoMoves
      BY <1>1, <1>2, <3>1, FramesPush DEF Free
    <3>3. QED
      BY <1>2, <1>4, <3>1, <3>2, ShapeCall
  <2>3. QED
    BY <2>1, <2>2
<1>7. CASE BeginWoken(t)
  <2>1. At(t, Begin)
    BY <1>7 DEF BeginWoken, Begin
  <2>2. Publish(t) \/ UNCHANGED todo \/ Does(t, Begin, {}, NoRun, {})
    BY <1>7, UserDoes DEF UserTable
  <2>3. QED
    BY <1>1, <1>3, <1>5, <2>1, <2>2, FramesStay, FramesReturn
<1>8. CASE AwaitCall(t)
  <2> DEFINE f == Frame("await", building)
  <2>1. /\ Free(t) /\ Call(t, <<f>>) /\ Does(t, Begin, {f}, building, {"await"}) /\ building \in Runs
        /\ f[1] = "await" /\ f[2] = building
    BY <1>8, UserDoes, FrameParts DEF AwaitCall, UserTable
  <2>2. FrameMove(t, f)
    BY <1>8, <2>1 DEF FrameMove, Anonymous
  <2> HIDE DEF f
  <2>3. TodoMoves
    BY <1>1, <2>1, <2>2, FramesPush DEF Free
  <2>4. QED
    BY <1>4, <2>1, <2>3, ShapeCall
<1>9. CASE CloseRun(t)
  <2> DEFINE f == Frame("close", building)
  <2>1. /\ Free(t) /\ Does(t, Begin, {f}, building, {"close"}) /\ building \in Runs
        /\ f[1] = "close" /\ f[2] = building
    BY <1>9, UserDoes, FrameParts DEF CloseRun, UserTable
  <2>2. FrameMove(t, f)
    BY <1>9, <2>1 DEF FrameMove, Anonymous
  <2> HIDE DEF f
  <2>3. QED
    BY <1>1, <1>2, <2>1, <2>2, FramesPush DEF Free
<1>10. CASE FailRun(t)
  <2> DEFINE F == {Frame("fail", building), Frame("cancel", building), Frame("finish", building)}
             new == <<Frame("fail", building), Frame("cancel", building), Frame("finish", building)>>
  <2>1. Free(t) /\ Call(t, new) /\ Does(t, Begin, F, building, {"fail", "cancel", "finish"}) /\ building \in Runs
    BY <1>10, UserDoes DEF FailRun, UserTable
  <2>2. \A f \in F : f[1] \in {"fail", "cancel", "finish"} /\ f[2] = building
    <3>1. /\ Frame("fail", building)[1] = "fail" /\ Frame("fail", building)[2] = building
          /\ Frame("cancel", building)[1] = "cancel" /\ Frame("cancel", building)[2] = building
          /\ Frame("finish", building)[1] = "finish" /\ Frame("finish", building)[2] = building
      BY FrameParts
    <3>2. QED
      BY <3>1
  <2>3. \A i \in 1 .. Len(new) : new[i] \in F
    BY SMTT(30)
  <2> HIDE DEF F, new
  <2>4. \A f \in F : FrameMove(t, f)
    BY <1>10, <2>2 DEF FrameMove, Anonymous
  <2>5. TodoMoves
    BY <1>1, <2>1, <2>4, FramesFrom DEF Free
  <2>6. Shape(t, new)
    BY <2>2, <2>3, ShapePlain DEF Waits
  <2>7. QED
    BY <2>1, <2>5, <2>6, ShapeCall
<1>11. QED
  BY <1>6, <1>7, <1>8, <1>9, <1>10

(* The reports of the endpoints and the releases of references. *)
LEMMA ReportFrames ==
    ASSUME LeaseInv, NEW r \in Runs, NEW k \in Tasks,
           Endpoint(r, k) \/ Report(r, k) \/ \E t \in Threads : LastRelease(t, r, k)
    PROVE  TodoMoves /\ ShapesKeep
<1>1. NoRun \in Runs \cup {NoRun} /\ r \in Runs \cup {NoRun} /\ Sched \in Threads
  BY DEF Threads
<1>2. FrameMove(Sched, Frame("early", NoRun)) /\ FrameMove(Sched, Frame("retireExec", r)) /\ "retireExec" \in Harmless
  <2>1. Frame("early", NoRun)[1] = "early" /\ Frame("retireExec", r)[1] = "retireExec"
    BY FrameParts
  <2>2. QED
    BY <2>1 DEF FrameMove, Anonymous, Harmless
<1>3. CASE TaskAccepted(r, k) \/ FrameStaged(r, k)
  <2>1. PICK F : Does(Sched, Begin, F, NoRun, {"early"})
    BY <1>1, <1>3, ReportDoes DEF ReportTable
  <2>2. \A f \in F : FrameMove(Sched, f)
    BY <2>1 DEF FrameMove, Anonymous, Does
  <2>3. {"early"} \subseteq Harmless
    BY DEF Harmless
  <2>4. todo[Sched] = <<>>
    BY <1>3 DEF TaskAccepted, FrameStaged, Polling, Free
  <2>5. QED
    BY <1>1, <2>1, <2>2, <2>3, <2>4, FramesFrom
<1>4. CASE \E sets \in Capacities : TaskEnded(r, k, sets)
  <2>1. todo[Sched] = <<>> /\ Does(Sched, Begin, {Frame("retireExec", r)}, r, {"retireExec"})
    BY <1>1, <1>4, ReportDoes DEF TaskEnded, Polling, Free, ReportTable
  <2>2. QED
    BY <1>1, <1>2, <2>1, FramesPush
<1>5. CASE TaskCompleted(r, k)
  <2> DEFINE a == Frame("early", NoRun)
             rest == <<<<"over", r, k>>, <<"outcome", r, k>>>>
  <2>1. PICK F : /\ F \subseteq {a, <<"over", r, k>>, <<"outcome", r, k>>}
                 /\ Does(Sched, Begin, F, r, {"early", "over", "outcome"})
    BY <1>1, <1>5, ReportDoes DEF ReportTable
  <2>2. FrameMove(Sched, <<"over", r, k>>) /\ FrameMove(Sched, <<"outcome", r, k>>)
    <3>1. /\ <<"over", r, k>>[1] = "over" /\ <<"over", r, k>>[2] = r /\ <<"over", r, k>>[3] = k
          /\ <<"outcome", r, k>>[1] = "outcome" /\ <<"outcome", r, k>>[2] = r /\ <<"outcome", r, k>>[3] = k
      BY FrameParts
    <3>2. QED
      BY <1>5, <3>1 DEF FrameMove, Anonymous
  <2>3. todo[Sched] = <<>> /\ (Call(Sched, <<>> \o rest) \/ Call(Sched, <<a>> \o rest))
    BY <1>5 DEF TaskCompleted, Polling, Free, AcceptFrames
  <2>4. TodoMoves
    BY <1>1, <1>2, <2>1, <2>2, <2>3, FramesFrom
  <2>5. Shape(Sched, <<>> \o rest)
    <3>1. /\ Len(<<>> \o rest) = 2 /\ (<<>> \o rest)[1][1] = "over" /\ (<<>> \o rest)[2][1] = "outcome"
      BY SMTT(30)
    <3> DEFINE s == <<>> \o rest
    <3>2. \A i \in 1 .. 2 : i = 1 \/ i = 2
      BY SMTT(30)
    <3> HIDE DEF s
    <3>3. QED
      BY <3>1, <3>2 DEF Shape, Waits, s
  <2>6. Shape(Sched, <<a>> \o rest)
    <3>1. /\ Len(<<a>> \o rest) = 3 /\ (<<a>> \o rest)[1] = a /\ (<<a>> \o rest)[2][1] = "over"
          /\ (<<a>> \o rest)[3][1] = "outcome"
      BY SMTT(30)
    <3>2. \A i \in 1 .. 3 : i = 1 \/ i = 2 \/ i = 3
      BY SMTT(30)
    <3>3. a[1] = "early"
      BY FrameParts
    <3>4. QED
      BY <3>1, <3>2, <3>3 DEF Shape, Waits
  <2>7. QED
    BY <1>1, <2>3, <2>4, <2>5, <2>6, ShapeCall
<1>6. CASE Over(r, k)
  <2>1. /\ At(Sched, <<"over", r, k>>) /\ Does(Sched, <<"over", r, k>>, {Frame("retireExec", r)}, r, {"retireExec"})
        /\ <<"over", r, k>>[1] = "over"
    BY <1>1, <1>6, ReportDoes, FrameParts DEF Over, ReportTable
  <2>2. FramePop(Sched, <<"over", r, k>>)
    BY <2>1 DEF FramePop
  <2>3. QED
    BY <1>1, <1>2, <2>1, <2>2, FramesPush
<1>7. CASE Outcome(r, k)
  <2>1. /\ At(Sched, <<"outcome", r, k>>) /\ Does(Sched, <<"outcome", r, k>>, {}, r, {})
        /\ <<"outcome", r, k>>[1] = "outcome"
    BY <1>1, <1>7, ReportDoes, FrameParts DEF Outcome, ReportTable
  <2>2. FramePop(Sched, <<"outcome", r, k>>)
    BY <2>1 DEF FramePop
  <2>3. QED
    BY <1>1, <2>1, <2>2, FramesReturn
<1>8. ASSUME NEW t \in Threads, LastRelease(t, r, k) PROVE TodoMoves /\ ShapesKeep
  <2> DEFINE f == <<"consume", r, k>>
  <2>1. /\ todo[t] = <<>> /\ Call(t, <<f>>) /\ Does(t, Begin, {f}, r, {"consume"})
        /\ f[1] = "consume" /\ f[2] = r /\ f[3] = k
    BY <1>8, ReportDoes, FrameParts DEF LastRelease, Polling, Free, ReportTable
  <2>2. FrameMove(t, f)
    BY <1>8, <2>1 DEF FrameMove, Anonymous
  <2> HIDE DEF f
  <2>3. TodoMoves
    BY <1>1, <2>1, <2>2, FramesPush
  <2>4. Len(<<f>>) = 1 /\ \A i \in 1 .. Len(<<f>>) : <<f>>[i] = f
    BY SMTT(30)
  <2>5. Shape(t, <<f>>)
    BY <2>1, <2>4, ShapePlain
  <2>6. QED
    BY <2>1, <2>3, <2>5, ShapeCall
<1>9. QED
  BY <1>3, <1>4, <1>5, <1>6, <1>7, <1>8 DEF Endpoint, Report

(* Every step runs sections as FrameMove and FramePop say, and keeps their   *)
(* nesting.                                                                  *)
LEMMA TodoStep == LeaseInv /\ [Next]_vars => TodoMoves /\ ShapesKeep
<1> SUFFICES ASSUME LeaseInv, [Next]_vars PROVE TodoMoves /\ ShapesKeep
  OBVIOUS
<1>1. ASSUME NEW t \in Threads, Sections(t) PROVE TodoMoves /\ ShapesKeep
  BY <1>1, SectionFrames, LendFrames, UserFrames DEF Sections
<1>2. ASSUME NEW t \in Users, User(t) PROVE TodoMoves /\ ShapesKeep
  <2>1. /\ (\E k \in Tasks, depends \in BOOLEAN : Submit(t, k, depends)) => UNCHANGED todo
        /\ \A r \in Runs : WaitRun(t, r) \/ ReleaseRun(t, r) => UNCHANGED todo
    BY DEF Submit, WaitRun, ReleaseRun
  <2>2. t \in Threads
    BY DEF Threads
  <2>3. QED
    BY <1>2, <2>1, <2>2, FramesStay, UserFrames DEF User
<1>3. Loop => UNCHANGED todo
  BY DEF Loop, PassStart, ClaimsDone, PassEnd, Claim, Stage
<1>4. UNCHANGED vars => UNCHANGED todo
  BY DEF vars
<1>5. QED
  BY <1>1, <1>2, <1>3, <1>4, FramesStay, ReportFrames DEF Next

-----------------------------------------------------------------------------
(* Which steps change the other variables. *)
Begins(t) == Publish(t) /\ nextRun <= MaxRuns /\ building = NoRun /\ MuFree /\ Admits /\ (Free(t) \/ At(t, Begin))
Submits(t) == \E k \in Tasks, depends \in BOOLEAN : Submit(t, k, depends)
FifoMove == UNCHANGED fifo \/ \E t \in Threads : Begins(t) \/ \E r \in Runs : Retire(t, r)
KnownMove == UNCHANGED known \/ \E t \in Threads : Begins(t) \/ \E r \in Runs : ReleaseRun(t, r)
NumberMove == UNCHANGED <<nextRun, owner>> \/ \E t \in Threads : Begins(t)
BuildingMove == UNCHANGED building \/ \E t \in Threads : Begins(t) \/ CloseRun(t) \/ FailRun(t)
ActiveMove == UNCHANGED active \/ \E t \in Threads, r \in Runs : Retire(t, r) \/ PublishExecuting(t, r)
LimitMove == UNCHANGED limit \/ \E t \in Threads, r \in Runs : Retire(t, r)
PhaseMove ==
    UNCHANGED phase \/ \E t \in Threads : \/ Begins(t)
                                          \/ \E r \in Runs : \/ Close(t, r) \/ (Finish(t, r) /\ Fenced(r))
                                                             \/ PublishExecuting(t, r) \/ Forgets(t, r)
ClosedMove == UNCHANGED closed \/ \E t \in Threads, r \in Runs : Close(t, r) \/ Fail(t, r) \/ Forgets(t, r)
FailedMove == UNCHANGED failed \/ \E t \in Threads, r \in Runs : Fail(t, r) \/ Forgets(t, r)
LiveMove == UNCHANGED live \/ \E t \in Threads : Submits(t) \/ \E r \in Runs : Drop(t, r)
AcceptMove ==
    \/ UNCHANGED <<accepts, accepted>>
    \/ \E t \in Threads : Submits(t) \/ \E r \in Runs : Forgets(t, r)
    \/ \E r \in Runs, k \in Tasks : TaskAccepted(r, k) \/ TaskCompleted(r, k)
EndedMove ==
    \/ UNCHANGED ended
    \/ \E t \in Threads, r \in Runs : Forgets(t, r) \/ \E k \in Tasks : Consume(t, r, k)
    \/ \E r \in Runs, k \in Tasks : Over(r, k) \/ \E sets \in Capacities : TaskEnded(r, k, sets)
LeaseMove ==
    UNCHANGED <<lease, stamp>> \/ \E t \in Threads : \/ Activate(t) \/ Submits(t)
                                                     \/ \E r \in Runs : \/ Refresh(t, r) \/ Retire(t, r)
                                                                        \/ PublishExecuting(t, r) \/ Forgets(t, r)
ObservedMove == UNCHANGED observed \/ \E t \in Threads, r \in Runs : WaitRun(t, r) \/ ReleaseRun(t, r)
MuMove ==
    UNCHANGED mu \/ \E t \in Threads : (Activate(t) /\ Promotable) \/ \E r \in Runs : PublishExecuting(t, r)
PassMove == UNCHANGED <<spc, snap>> \/ (PassStart(woken) /\ Dispatchable(active)) \/ ClaimsDone \/ PassEnd
WokenMove == (woken => woken') \/ PassStart(woken)
AsleepMove ==
    UNCHANGED asleep \/ \E t \in Threads : \/ BeginRun(t) \/ BeginWoken(t)
                                           \/ \E op \in {"announce", "notify"} : Announce(t, op)
                                           \/ \E r \in Runs : Await(t, r)
OrchMoves == FifoMove /\ KnownMove /\ NumberMove /\ BuildingMove /\ ActiveMove /\ LimitMove
RunMoves == PhaseMove /\ ClosedMove /\ FailedMove /\ LiveMove /\ AcceptMove /\ EndedMove /\ LeaseMove
ThreadMoves == ObservedMove /\ MuMove /\ PassMove /\ WokenMove /\ AsleepMove
VarMoves == OrchMoves /\ RunMoves /\ ThreadMoves

(* A step that leaves alone all but asleep, woken and the tasks' states. *)
LEMMA MovesStay ==
    /\ UNCHANGED <<fifo, known, nextRun, owner, building, active, limit>> => OrchMoves
    /\ UNCHANGED <<phase, closed, failed, live, accepts, accepted, ended, lease, stamp>> => RunMoves
    /\ UNCHANGED <<observed, mu, spc, snap, asleep>> /\ (woken => woken') => ThreadMoves
<1>1. UNCHANGED <<fifo, known, nextRun, owner, building, active, limit>> => OrchMoves
  BY DEF OrchMoves, FifoMove, KnownMove, NumberMove, BuildingMove, ActiveMove, LimitMove
<1>2. UNCHANGED <<phase, closed, failed, live, accepts, accepted, ended, lease, stamp>> => RunMoves
  BY DEF RunMoves, PhaseMove, ClosedMove, FailedMove, LiveMove, AcceptMove, EndedMove, LeaseMove
<1>3. UNCHANGED <<observed, mu, spc, snap, asleep>> /\ (woken => woken') => ThreadMoves
  BY DEF ThreadMoves, ObservedMove, MuMove, PassMove, WokenMove, AsleepMove
<1>4. QED
  BY <1>1, <1>2, <1>3

(* The sections of one run. *)
LEMMA SectionMoves ==
    ASSUME NEW t \in Threads, NEW r \in Runs,
           \/ Await(t, r) \/ Close(t, r) \/ Refresh(t, r) \/ Fail(t, r) \/ Cancel(t, r)
           \/ Drop(t, r) \/ RetireExec(t, r)
           \/ Finish(t, r) \/ Retire(t, r) \/ PublishExecuting(t, r) \/ \E k \in Tasks : Consume(t, r, k)
    PROVE  VarMoves
<1> USE DEF orchVars, depthVars, runVars, userVars, taskVars, passVars, arenaVars
<1>1. ASSUME Await(t, r) PROVE VarMoves
  <2>1. OrchMoves /\ RunMoves /\ UNCHANGED <<observed, mu, spc, snap, woken>>
    BY <1>1, MovesStay DEF Await
  <2>2. QED
    BY <1>1, <2>1 DEF VarMoves, ThreadMoves, ObservedMove, MuMove, PassMove, WokenMove, AsleepMove
<1>2. ASSUME Close(t, r) PROVE VarMoves
  <2>1. OrchMoves /\ ThreadMoves /\ UNCHANGED <<failed, live, accepts, accepted, ended, lease, stamp>>
    BY <1>2, MovesStay DEF Close
  <2>2. QED
    BY <1>2, <2>1 DEF VarMoves, RunMoves, PhaseMove, ClosedMove, FailedMove, LiveMove, AcceptMove, EndedMove, LeaseMove
<1>3. ASSUME Refresh(t, r) PROVE VarMoves
  <2>1. OrchMoves /\ ThreadMoves /\ UNCHANGED <<phase, closed, failed, live, accepts, accepted, ended>>
    BY <1>3, MovesStay DEF Refresh
  <2>2. QED
    BY <1>3, <2>1 DEF VarMoves, RunMoves, PhaseMove, ClosedMove, FailedMove, LiveMove, AcceptMove, EndedMove, LeaseMove
<1>4. ASSUME Fail(t, r) PROVE VarMoves
  <2>1. OrchMoves /\ ThreadMoves /\ UNCHANGED <<phase, live, accepts, accepted, ended, lease, stamp>>
    BY <1>4, MovesStay DEF Fail
  <2>2. QED
    BY <1>4, <2>1 DEF VarMoves, RunMoves, PhaseMove, ClosedMove, FailedMove, LiveMove, AcceptMove, EndedMove, LeaseMove
<1>5. ASSUME Cancel(t, r) PROVE VarMoves
  BY <1>5, MovesStay DEF Cancel, VarMoves
<1>6. ASSUME Drop(t, r) PROVE VarMoves
  <2>1. OrchMoves /\ ThreadMoves /\ UNCHANGED <<phase, closed, failed, accepts, accepted, ended, lease, stamp>>
    BY <1>6, MovesStay DEF Drop
  <2>2. QED
    BY <1>6, <2>1 DEF VarMoves, RunMoves, PhaseMove, ClosedMove, FailedMove, LiveMove, AcceptMove, EndedMove, LeaseMove
<1>7. ASSUME RetireExec(t, r) PROVE VarMoves
  BY <1>7, MovesStay DEF RetireExec, VarMoves
<1>8. ASSUME Finish(t, r) PROVE VarMoves
  <2>1. /\ OrchMoves /\ ThreadMoves /\ UNCHANGED <<closed, failed, live, accepts, accepted, ended, lease, stamp>>
        /\ UNCHANGED phase \/ Fenced(r)
    BY <1>8, MovesStay DEF Finish
  <2>2. QED
    BY <1>8, <2>1 DEF VarMoves, RunMoves, PhaseMove, ClosedMove, FailedMove, LiveMove, AcceptMove, EndedMove, LeaseMove
<1>9. ASSUME Retire(t, r) PROVE VarMoves
  <2>1. /\ ThreadMoves /\ UNCHANGED <<phase, closed, failed, live, accepts, accepted, ended>>
        /\ UNCHANGED <<known, nextRun, owner, building>>
    BY <1>9, MovesStay DEF Retire
  <2>2. RunMoves
    BY <1>9, <2>1 DEF RunMoves, PhaseMove, ClosedMove, FailedMove, LiveMove, AcceptMove, EndedMove, LeaseMove
  <2>3. OrchMoves
    BY <1>9, <2>1 DEF OrchMoves, FifoMove, KnownMove, NumberMove, BuildingMove, ActiveMove, LimitMove
  <2>4. QED
    BY <2>1, <2>2, <2>3 DEF VarMoves
<1>10. ASSUME PublishExecuting(t, r) PROVE VarMoves
  <2>1. /\ UNCHANGED <<closed, failed, live, accepts, accepted, ended>>
        /\ UNCHANGED <<fifo, known, nextRun, owner, building, limit>>
        /\ UNCHANGED <<observed, spc, snap, asleep, woken>>
    BY <1>10 DEF PublishExecuting
  <2>2. RunMoves
    BY <1>10, <2>1 DEF RunMoves, PhaseMove, ClosedMove, FailedMove, LiveMove, AcceptMove, EndedMove, LeaseMove
  <2>3. OrchMoves
    BY <1>10, <2>1 DEF OrchMoves, FifoMove, KnownMove, NumberMove, BuildingMove, ActiveMove, LimitMove
  <2>4. ThreadMoves
    BY <1>10, <2>1 DEF ThreadMoves, ObservedMove, MuMove, PassMove, WokenMove, AsleepMove
  <2>5. QED
    BY <2>2, <2>3, <2>4 DEF VarMoves
<1>11. ASSUME NEW k \in Tasks, Consume(t, r, k) PROVE VarMoves
  <2>1. OrchMoves /\ ThreadMoves /\ UNCHANGED <<phase, closed, failed, live, accepts, accepted, lease, stamp>>
    BY <1>11, MovesStay DEF Consume
  <2>2. QED
    BY <1>11, <2>1 DEF VarMoves, RunMoves, PhaseMove, ClosedMove, FailedMove, LiveMove, AcceptMove, EndedMove, LeaseMove
<1>12. QED
  BY <1>1, <1>2, <1>3, <1>4, <1>5, <1>6, <1>7, <1>8, <1>9, <1>10, <1>11

(* The other sections. *)
LEMMA OtherMoves ==
    ASSUME NEW t \in Threads,
           BeginRun(t) \/ BeginWoken(t) \/ Activate(t) \/ Early(t) \/ \E op \in {"announce", "notify"} : Announce(t, op)
    PROVE  VarMoves
<1> USE DEF orchVars, depthVars, runVars, userVars, taskVars, passVars, arenaVars
<1>1. ASSUME BeginRun(t) \/ BeginWoken(t) PROVE VarMoves
  <2>1. /\ UNCHANGED <<closed, failed, live, accepts, accepted, ended, lease, stamp>>
        /\ UNCHANGED <<active, limit>> /\ UNCHANGED <<observed, mu, spc, snap, woken>>
    BY <1>1 DEF BeginRun, BeginWoken
  <2>2. ThreadMoves
    BY <1>1, <2>1 DEF ThreadMoves, ObservedMove, MuMove, PassMove, WokenMove, AsleepMove
  <2>3. Begins(t) \/ UNCHANGED <<fifo, known, nextRun, owner, building, phase>>
    BY <1>1 DEF BeginRun, BeginWoken, Begins, Begin
  <2>4. OrchMoves
    BY <2>1, <2>3 DEF OrchMoves, FifoMove, KnownMove, NumberMove, BuildingMove, ActiveMove, LimitMove
  <2>5. RunMoves
    BY <2>1, <2>3 DEF RunMoves, PhaseMove, ClosedMove, FailedMove, LiveMove, AcceptMove, EndedMove, LeaseMove
  <2>6. QED
    BY <2>2, <2>4, <2>5 DEF VarMoves
<1>2. ASSUME Activate(t) PROVE VarMoves
  <2>1. /\ OrchMoves /\ UNCHANGED <<phase, closed, failed, live, accepts, accepted, ended>>
        /\ UNCHANGED <<observed, spc, snap, asleep, woken>> /\ (Promotable \/ UNCHANGED mu)
    BY <1>2, MovesStay DEF Activate
  <2>2. ThreadMoves
    BY <1>2, <2>1 DEF ThreadMoves, ObservedMove, MuMove, PassMove, WokenMove, AsleepMove
  <2>3. RunMoves
    BY <1>2, <2>1 DEF RunMoves, PhaseMove, ClosedMove, FailedMove, LiveMove, AcceptMove, EndedMove, LeaseMove
  <2>4. QED
    BY <2>1, <2>2, <2>3 DEF VarMoves
<1>3. ASSUME Early(t) PROVE VarMoves
  BY <1>3, MovesStay DEF Early, VarMoves
<1>4. ASSUME NEW op \in {"announce", "notify"}, Announce(t, op) PROVE VarMoves
  <2>1. OrchMoves /\ RunMoves /\ UNCHANGED <<observed, mu, spc, snap>> /\ (woken => woken')
    BY <1>4, MovesStay DEF Announce
  <2>2. QED
    BY <1>4, <2>1 DEF VarMoves, ThreadMoves, ObservedMove, MuMove, PassMove, WokenMove, AsleepMove
<1>5. QED
  BY <1>1, <1>2, <1>3, <1>4

(* The other calls of the users. *)
LEMMA UserMoves ==
    ASSUME NEW t \in Threads,
           \/ AwaitCall(t) \/ CloseRun(t) \/ FailRun(t) \/ Submits(t)
           \/ \E r \in Runs : WaitRun(t, r) \/ ReleaseRun(t, r)
    PROVE  VarMoves
<1> USE DEF orchVars, depthVars, runVars, userVars, taskVars, passVars, arenaVars
<1>1. ASSUME AwaitCall(t) PROVE VarMoves
  BY <1>1, MovesStay DEF AwaitCall, VarMoves
<1>2. ASSUME CloseRun(t) \/ FailRun(t) PROVE VarMoves
  <2>1. RunMoves /\ ThreadMoves /\ UNCHANGED <<fifo, known, nextRun, owner, active, limit>>
    BY <1>2, MovesStay DEF CloseRun, FailRun
  <2>2. QED
    BY <1>2, <2>1 DEF VarMoves, OrchMoves, FifoMove, KnownMove, NumberMove, BuildingMove, ActiveMove, LimitMove
<1>3. ASSUME Submits(t) PROVE VarMoves
  <2>1. OrchMoves /\ ThreadMoves /\ UNCHANGED <<phase, closed, failed, ended>>
    BY <1>3, MovesStay DEF Submits, Submit
  <2>2. QED
    BY <1>3, <2>1 DEF VarMoves, RunMoves, PhaseMove, ClosedMove, FailedMove, LiveMove, AcceptMove, EndedMove, LeaseMove
<1>4. ASSUME NEW r \in Runs, WaitRun(t, r) PROVE VarMoves
  <2>1. OrchMoves /\ RunMoves /\ UNCHANGED <<mu, spc, snap, woken, asleep>>
    BY <1>4, MovesStay DEF WaitRun
  <2>2. QED
    BY <1>4, <2>1 DEF VarMoves, ThreadMoves, ObservedMove, MuMove, PassMove, WokenMove, AsleepMove
<1>5. ASSUME NEW r \in Runs, ReleaseRun(t, r) PROVE VarMoves
  <2>1. /\ UNCHANGED <<fifo, nextRun, owner, building, active, limit>> /\ UNCHANGED <<mu, spc, snap, woken, asleep>>
        /\ UNCHANGED live
        /\ \/ Forgets(t, r) \/ UNCHANGED <<phase, closed, failed, live, accepts, accepted, ended, lease, stamp>>
    BY <1>5 DEF ReleaseRun, Forgets, Forget
  <2>2. ThreadMoves
    BY <1>5, <2>1 DEF ThreadMoves, ObservedMove, MuMove, PassMove, WokenMove, AsleepMove
  <2>3. OrchMoves
    BY <1>5, <2>1 DEF OrchMoves, FifoMove, KnownMove, NumberMove, BuildingMove, ActiveMove, LimitMove
  <2>4. RunMoves
    BY <2>1, MovesStay DEF RunMoves, PhaseMove, ClosedMove, FailedMove, LiveMove, AcceptMove, EndedMove, LeaseMove
  <2>5. QED
    BY <2>2, <2>3, <2>4 DEF VarMoves
<1>6. QED
  BY <1>1, <1>2, <1>3, <1>4, <1>5

(* The Scheduler loop. *)
LEMMA PassMoves ==
    ASSUME Loop
    PROVE  VarMoves
<1> USE DEF orchVars, depthVars, runVars, userVars, taskVars, passVars, arenaVars
<1>1. OrchMoves /\ RunMoves
  <2>1. UNCHANGED <<fifo, known, nextRun, owner, building, active, limit>>
    BY DEF Loop, PassStart, ClaimsDone, PassEnd, Claim, Stage
  <2>2. UNCHANGED <<phase, closed, failed, live, accepts, accepted, ended, lease, stamp>>
    BY DEF Loop, PassStart, ClaimsDone, PassEnd, Claim, Stage
  <2>3. QED
    BY <2>1, <2>2, MovesStay
<1>2. UNCHANGED <<observed, mu, asleep>>
  BY DEF Loop, PassStart, ClaimsDone, PassEnd, Claim, Stage
<1>3. PassMove
  BY DEF Loop, PassStart, Claim, Stage, PassMove
<1>4. WokenMove
  BY DEF Loop, ClaimsDone, PassEnd, Claim, Stage, WokenMove, WakeLeft
<1>5. QED
  BY <1>1, <1>2, <1>3, <1>4 DEF VarMoves, ThreadMoves, ObservedMove, MuMove, AsleepMove

(* The reports of the endpoints and the releases of references. *)
LEMMA ReportMoves ==
    ASSUME NEW r \in Runs, NEW k \in Tasks,
           Endpoint(r, k) \/ Report(r, k) \/ \E t \in Threads : LastRelease(t, r, k)
    PROVE  VarMoves
<1> USE DEF orchVars, depthVars, runVars, userVars, taskVars, passVars, arenaVars
<1>1. ASSUME TaskAccepted(r, k) \/ TaskCompleted(r, k) PROVE VarMoves
  <2>1. OrchMoves /\ ThreadMoves /\ UNCHANGED <<phase, closed, failed, live, ended, lease, stamp>>
    BY <1>1, MovesStay DEF TaskAccepted, TaskCompleted
  <2>2. QED
    BY <1>1, <2>1 DEF VarMoves, RunMoves, PhaseMove, ClosedMove, FailedMove, LiveMove, AcceptMove, EndedMove, LeaseMove
<1>2. ASSUME FrameStaged(r, k) \/ \E t \in Threads : LastRelease(t, r, k) PROVE VarMoves
  BY <1>2, MovesStay DEF FrameStaged, LastRelease, VarMoves
<1>3. ASSUME Over(r, k) \/ \E sets \in Capacities : TaskEnded(r, k, sets) PROVE VarMoves
  <2>1. OrchMoves /\ ThreadMoves /\ UNCHANGED <<phase, closed, failed, live, accepts, accepted, lease, stamp>>
    BY <1>3, MovesStay DEF Over, TaskEnded
  <2>2. QED
    BY <1>3, <2>1 DEF VarMoves, RunMoves, PhaseMove, ClosedMove, FailedMove, LiveMove, AcceptMove, EndedMove, LeaseMove
<1>4. ASSUME Outcome(r, k) PROVE VarMoves
  BY <1>4, MovesStay DEF Outcome, VarMoves
<1>5. QED
  BY <1>1, <1>2, <1>3, <1>4 DEF Endpoint, Report

(* Every step changes each variable as its Move says. *)
LEMMA VarStep == [Next]_vars => VarMoves
<1> SUFFICES ASSUME [Next]_vars PROVE VarMoves
  OBVIOUS
<1>1. ASSUME NEW t \in Threads, Sections(t) PROVE VarMoves
  BY <1>1, SectionMoves, OtherMoves DEF Sections
<1>2. ASSUME NEW t \in Users, User(t) PROVE VarMoves
  <2>1. t \in Threads
    BY DEF Threads
  <2>2. QED
    BY <1>2, <2>1, UserMoves, OtherMoves DEF User, Submits
<1>3. UNCHANGED vars => VarMoves
  <2>1. UNCHANGED vars => /\ UNCHANGED <<fifo, known, nextRun, owner, building, active, limit>>
                          /\ UNCHANGED <<phase, closed, failed, live, accepts, accepted, ended, lease, stamp>>
                          /\ UNCHANGED <<observed, mu, spc, snap, asleep, woken>>
    BY DEF vars, orchVars, depthVars, runVars, userVars, taskVars, passVars, arenaVars
  <2>2. QED
    BY <2>1, MovesStay DEF VarMoves
<1>4. QED
  BY <1>1, <1>2, <1>3, PassMoves, ReportMoves DEF Next

-----------------------------------------------------------------------------
(* Why a thread sleeps after a step: it did before, or its condition to wait *)
(* held just now.                                                            *)
SleepMove(u) ==
    \/ u \in asleep /\ todo'[u] = todo[u]
    \/ todo'[u] = <<Begin>> /\ ~Admits /\ UNCHANGED <<fifo, limit>>
    \/ \E r \in Runs : /\ At(u, Frame("await", r)) /\ active # r /\ ~Terminal(phase[r])
                       /\ UNCHANGED <<todo, active, phase>>

(* No other reason to sleep. *)
LEMMA SleepStep ==
    ASSUME LeaseInv, asleep \subseteq Threads, [Next]_vars
    PROVE  \A u \in asleep' : u \in Threads /\ SleepMove(u)
<1>1. AsleepMove /\ \A u \in Threads : u \in asleep => todo'[u] = todo[u]
  BY VarStep, TodoStep DEF VarMoves, ThreadMoves, TodoMoves
<1>2. \A u \in asleep : u \in Threads /\ SleepMove(u)
  BY <1>1 DEF SleepMove
<1>3. ASSUME NEW t \in Threads, BeginRun(t) \/ BeginWoken(t) PROVE \A u \in asleep' : u \in Threads /\ SleepMove(u)
  <2>1. \/ UNCHANGED asleep
        \/ asleep' = asleep \cup {t} /\ todo'[t] = <<Begin>> /\ ~Admits /\ UNCHANGED <<orchVars, limit>>
    <3>1. Publish(t) => UNCHANGED asleep
      BY DEF Publish
    <3>2. UNCHANGED limit
      BY <1>3 DEF BeginRun, BeginWoken, depthVars
    <3>3. QED
      BY <1>3, <3>1, <3>2, UserDoes DEF UserTable
  <2>2. QED
    BY <1>2, <2>1 DEF SleepMove, orchVars
<1>4. ASSUME NEW t \in Threads, NEW op, Announce(t, op) PROVE asleep' = {}
  BY <1>4 DEF Announce, StillAsleep
<1>5. ASSUME NEW t \in Threads, NEW r \in Runs, Await(t, r) PROVE \A u \in asleep' : u \in Threads /\ SleepMove(u)
  <2>1. \/ UNCHANGED asleep
        \/ /\ asleep' = asleep \cup {t} /\ At(t, Frame("await", r)) /\ active # r /\ ~Terminal(phase[r])
           /\ UNCHANGED <<todo, active, phase>>
    BY <1>5 DEF Await, orchVars, runVars
  <2>2. QED
    BY <1>2, <2>1 DEF SleepMove
<1>6. QED
  BY <1>1, <1>2, <1>3, <1>4, <1>5 DEF AsleepMove

(* FrameInv holds initially. *)
LEMMA FrameInit == Init => FrameInv
<1> SUFFICES ASSUME Init PROVE FrameInv
  OBVIOUS
<1>1. \A t \in Threads : todo[t] = <<>>
  BY DEF Init
<1>2. \A t : Shape(t, <<>>)
  BY SMTT(30) DEF Shape
<1>3. \A t \in Threads : \A f : ~Pending(t, f)
  BY <1>1, SMTT(30) DEF Pending
<1>4. \A r \in Runs, k \in Tasks : task[r][k] = "none"
  BY DEF Init
<1>5. task \in [Runs -> [Tasks -> TaskStates]]
  BY DEF Init, TaskStates
<1>6. active < nextRun
  BY SMTT(30) DEF Init, NoRun
<1>7. active = NoRun /\ asleep = {} /\ spc = "poll"
  BY DEF Init
<1>8. QED
  BY <1>1, <1>2, <1>3, <1>4, <1>5, <1>6, <1>7 DEF FrameInv, TaskTypes, Begun

(* A section pushed names a run that has begun. *)
LEMMA FrameBegun ==
    ASSUME LeaseInv, FrameInv, NEW t \in Threads, NEW f \in Frames, FrameMove(t, f), f[1] \notin Anonymous,
           f[2] \in Runs \cup {NoRun}
    PROVE  f[2] < nextRun
<1>1. building < nextRun /\ NoRun < nextRun
  BY RunNumbers, SMTT(30) DEF NoRun
<1>2. ASSUME NEW op \in Ops \ Anonymous, NEW u \in Threads, NEW r, At(u, Frame(op, r)) PROVE r < nextRun
  <2>1. Frame(op, r)[1] = op /\ Frame(op, r)[2] = r
    BY FrameParts
  <2>2. Frame(op, r) \in Frames /\ Pending(u, Frame(op, r))
    BY <1>2, AtPending
  <2>3. QED
    BY <1>2, <2>1, <2>2 DEF FrameInv
<1>3. ASSUME NEW u \in Threads, NEW r, NEW k, At(u, <<"consume", r, k>>) PROVE r < nextRun
  <2>1. <<"consume", r, k>>[1] = "consume" /\ <<"consume", r, k>>[2] = r
    BY FrameParts
  <2>2. <<"consume", r, k>> \in Frames /\ Pending(u, <<"consume", r, k>>)
    BY <1>3, AtPending
  <2>3. QED
    BY <2>1, <2>2 DEF FrameInv, Anonymous
<1>4. {"close", "drop", "publish", "finish", "cancel"} \subseteq Ops \ Anonymous
  BY DEF Ops, Anonymous
<1>5. CASE Close(t, f[2]) \/ Drop(t, f[2]) \/ PublishExecuting(t, f[2]) \/ Finish(t, f[2]) \/ Cancel(t, f[2])
  BY <1>2, <1>4, <1>5 DEF Close, Drop, PublishExecuting, Finish, Cancel
<1>6. CASE \E k \in Tasks : Consume(t, f[2], k)
  BY <1>3, <1>6 DEF Consume
<1>7. CASE ExecutionEnded(f[2])
  BY <1>1, <1>7 DEF ExecutionEnded, LeaseInv, Unused
<1>8. CASE f[3] \in Tasks /\ (LastRelease(t, f[2], f[3]) \/ TaskCompleted(f[2], f[3]))
  BY <1>1, <1>8 DEF LastRelease, TaskCompleted, FrameInv, Begun
<1>9. CASE Promotable /\ f[2] = FirstRun(fifo)
  BY <1>9, FifoHead DEF Promotable, LeaseInv, Unused
<1>10. QED
  BY <1>1, <1>5, <1>6, <1>7, <1>8, <1>9 DEF FrameMove

(* A step keeps the frame invariant. *)
LEMMA FrameStep == LeaseInv /\ FrameInv /\ [Next]_vars => FrameInv'
<1> SUFFICES ASSUME LeaseInv, FrameInv, [Next]_vars PROVE FrameInv'
  OBVIOUS
<1>1. TodoMoves /\ ShapesKeep /\ VarMoves /\ TasksMove
  BY TodoStep, VarStep, TaskStep DEF FrameInv
<1>2. \A t \in Threads : Shape(t, todo'[t])
  BY <1>1 DEF ShapesKeep, FrameInv
<1>3. \A x \in Nat : x < nextRun => x < nextRun'
  <2>1. UNCHANGED nextRun \/ nextRun' = nextRun + 1
    BY <1>1 DEF VarMoves, OrchMoves, NumberMove, Begins, Publish
  <2>2. nextRun \in Nat
    BY RunNumbers
  <2>3. QED
    BY <2>1, <2>2, SMTT(30)
<1>nats. /\ \A f \in Frames : f[2] \in Nat
         /\ \A r \in Runs : r \in Nat
         /\ NoRun \in Nat
  BY RunNumbers, SMTT(30) DEF NoRun
<1>4. \A u \in asleep' : u \in Threads /\ todo'[u] # <<>> /\ todo'[u][1][1] \in Waits
  <2> SUFFICES ASSUME NEW u \in asleep' PROVE u \in Threads /\ todo'[u] # <<>> /\ todo'[u][1][1] \in Waits
    OBVIOUS
  <2>1. u \in Threads /\ SleepMove(u)
    BY SleepStep DEF FrameInv
  <2>2. CASE u \in asleep /\ todo'[u] = todo[u]
    BY <2>1, <2>2 DEF FrameInv
  <2>3. CASE todo'[u] = <<Begin>>
    <3>1. <<Begin>> # <<>> /\ <<Begin>>[1] = Begin
      OBVIOUS
    <3>2. Begin[1] \in Waits
      BY FrameParts DEF Begin, Waits
    <3>3. QED
      BY <2>1, <2>3, <3>1, <3>2
  <2>4. ASSUME NEW r \in Runs, At(u, Frame("await", r)), UNCHANGED todo
        PROVE  todo'[u] # <<>> /\ todo'[u][1][1] \in Waits
    <3>1. Frame("await", r)[1] \in Waits
      BY FrameParts DEF Waits
    <3>2. QED
      BY <2>1, <2>4, <3>1, AtPending
  <2>5. QED
    BY <2>1, <2>2, <2>3, <2>4 DEF SleepMove
<1>5. \A t \in Threads, f \in Frames : Pending(t, f)' /\ f[1] \notin Anonymous => f[2] < nextRun'
  <2>1. \A t \in Threads, f \in Frames : Pending(t, f)' /\ f[1] \notin Anonymous => f[2] < nextRun
    BY <1>1, FrameBegun DEF TodoMoves, FrameInv
  <2>2. QED
    BY <1>3, <1>nats, <2>1
<1>6. ASSUME NEW t \in Threads, NEW r \in Runs, PublishExecuting(t, r) PROVE active' = r /\ r < nextRun
  <2>1. Frame("publish", r)[1] = "publish" /\ Frame("publish", r)[2] = r
    BY FrameParts
  <2>2. active' = r /\ At(t, Frame("publish", r))
    BY <1>6 DEF PublishExecuting
  <2>3. QED
    BY <2>1, <2>2, AtPending DEF FrameInv, Anonymous
<1>7. /\ active' \in Runs \cup {NoRun} /\ active' < nextRun'
      /\ spc' = "claim" => snap' \in Runs /\ snap' < nextRun'
  <2>1. NoRun < nextRun
    BY RunNumbers, SMTT(30) DEF NoRun
  <2>2. active' \in Runs \cup {NoRun} /\ active' < nextRun
    <3>1. \A t, r : Retire(t, r) => active' = active \/ active' = NoRun
      BY DEF Retire, Deactivated
    <3>2. ActiveMove
      BY <1>1 DEF VarMoves, OrchMoves
    <3>3. QED
      BY <1>6, <2>1, <3>1, <3>2 DEF ActiveMove, FrameInv, TaskTypes, Begun
  <2>3. spc' = "claim" => snap' \in Runs /\ snap' < nextRun
    <3>1. PassMove
      BY <1>1 DEF VarMoves, ThreadMoves
    <3>2. ClaimsDone \/ PassEnd => spc' # "claim"
      BY DEF ClaimsDone, PassEnd
    <3>3. PassStart(woken) /\ Dispatchable(active) => snap' = active /\ active # NoRun
      BY DEF PassStart, Dispatchable
    <3>4. QED
      BY <3>1, <3>2, <3>3 DEF PassMove, FrameInv, TaskTypes, Begun
  <2>4. QED
    BY <1>3, <1>nats, <2>2, <2>3
<1>8. ASSUME NEW r \in Runs, NEW k \in Tasks, task'[r][k] # "none" PROVE r < nextRun'
  <2>1. CASE task[r][k] # "none"
    BY <1>3, <1>nats, <2>1 DEF FrameInv, Begun
  <2>2. CASE r = building
    BY <1>3, <1>nats, <2>2, RunNumbers
  <2>3. ASSUME NEW t \in Threads, NEW op \in {"consume", "outcome"}, At(t, <<op, r, k>>) PROVE r < nextRun'
    <3>1. <<op, r, k>>[1] \notin Anonymous /\ <<op, r, k>>[2] = r
      BY FrameParts DEF Anonymous
    <3>2. QED
      BY <1>3, <1>nats, <2>3, <3>1, AtPending DEF FrameInv
  <2>4. Outcome(r, k) => At(Sched, <<"outcome", r, k>>) /\ Sched \in Threads
    BY DEF Outcome, Threads
  <2>5. \A t : Consume(t, r, k) => At(t, <<"consume", r, k>>)
    BY DEF Consume
  <2>6. TaskMove(r, k, task[r][k], task'[r][k])
    BY <1>1 DEF TasksMove
  <2>7. CASE task[r][k] = "none"
    BY <1>8, <2>2, <2>3, <2>4, <2>5, <2>6, <2>7 DEF TaskMove, Undispatched
  <2>8. QED
    BY <2>1, <2>7
<1>9. TaskTypes' /\ Begun'
  BY <1>1, <1>7, <1>8 DEF TasksMove, TaskTypes, Begun
<1>10. QED
  BY <1>2, <1>4, <1>5, <1>9 DEF FrameInv

-----------------------------------------------------------------------------
(* The Scheduler is woken for the ready tasks of the dispatchable run: a     *)
(* wake is pending, its pass over them is on, or a thread is to announce.    *)
Phases == {"RESERVED", "BUILDING", "PREPARED", "EXECUTING", "COMPLETED", "FAILED"}
Announcing == \E t \in Threads : Pending(t, Frame("announce", NoRun))
WakeInv ==
    Dispatchable(active) =>
        \A k \in Tasks : task[active][k] = "ready" => woken \/ (spc = "claim" /\ snap = active) \/ Announcing

(* A run that becomes dispatchable is announced. *)
LEMMA DispatchStep ==
    ASSUME LeaseInv, FrameInv, [Next]_vars, Dispatchable(active)'
    PROVE  (Dispatchable(active) /\ active' = active) \/ woken' \/ Announcing'
<1> SUFFICES ASSUME ~woken', ~Announcing' PROVE Dispatchable(active) /\ active' = active
  OBVIOUS
<1>1. VarMoves /\ LeaseInv'
  BY VarStep, LeaseStep
<1>2. ASSUME NEW t \in Threads, NEW r \in Runs PROVE ~PublishExecuting(t, r) /\ ~Refresh(t, r)
  <2>1. PublishExecuting(t, r) => Pending(t, Frame("announce", NoRun))'
    BY LendDoes DEF Does, LendTable
  <2>2. QED
    BY <2>1 DEF Announcing, Refresh
<1>3. active' # NoRun /\ active' \in known' /\ phase'[active'] = "EXECUTING" /\ Owns(active)'
  BY DEF Dispatchable
<1>4. active' = active
  <2>1. \A t, r : Retire(t, r) => active' = active \/ active' = NoRun
    BY DEF Retire, Deactivated
  <2>2. QED
    BY <1>1, <1>2, <1>3, <2>1 DEF VarMoves, OrchMoves, ActiveMove
<1>5. active \in Runs /\ active # nextRun
  <2>1. active \in Runs /\ active < nextRun
    BY <1>3, <1>4 DEF FrameInv, TaskTypes, Begun
  <2>2. QED
    BY <2>1, RunNumbers, SMTT(30)
<1>6. active \in known
  <2>1. \A t : Begins(t) => known' = known \cup {nextRun}
    BY DEF Begins, Publish
  <2>2. \A t, r : ReleaseRun(t, r) => known' = known \ {r}
    BY DEF ReleaseRun
  <2>3. QED
    BY <1>1, <1>3, <1>4, <1>5, <2>1, <2>2 DEF VarMoves, OrchMoves, KnownMove
<1>7. phase \in [Runs -> Phases] /\ lease \in [Runs -> Lease]
  BY DEF LeaseInv, RunTypes, ArenaTypes, Phases
<1>8. phase[active] = "EXECUTING"
  <2>1. \A t : Begins(t) => phase' = [phase EXCEPT ![nextRun] = "BUILDING"]
    BY DEF Begins, Publish
  <2>2. \A t, r : Close(t, r) => phase' = [phase EXCEPT ![r] = IF @ = "BUILDING" THEN "PREPARED" ELSE @]
    BY DEF Close
  <2>3. \A t, r : Finish(t, r) /\ Fenced(r) => \E st \in {"FAILED", "COMPLETED"} : phase' = [phase EXCEPT ![r] = st]
    BY DEF Finish
  <2>4. \A t, r : Forgets(t, r) => phase' = [phase EXCEPT ![r] = "RESERVED"]
    BY DEF Forgets, Forget
  <2>5. PhaseMove
    BY <1>1 DEF VarMoves, RunMoves
  <2>6. phase'[active] = "EXECUTING"
    BY <1>3, <1>4
  <2>7. \A t : ~Begins(t) \/ phase'[active] = phase[active]
    BY <1>5, <1>7, <2>1
  <2>8. \A t \in Threads, r \in Runs : Close(t, r) => phase[active] = "EXECUTING"
    BY <1>5, <1>7, <2>2, <2>6
  <2>9. \A t \in Threads, r \in Runs : Finish(t, r) /\ Fenced(r) => phase'[active] = phase[active]
    BY <1>5, <1>7, <2>3, <2>6
  <2>10. \A t \in Threads, r \in Runs : Forgets(t, r) => phase'[active] = phase[active]
    BY <1>5, <1>7, <2>4, <2>6
  <2>11. QED
    BY <1>2, <2>5, <2>6, <2>7, <2>8, <2>9, <2>10 DEF PhaseMove
<1>9. lease'[active] = lease[active]
  <2>1. ASSUME NEW t \in Threads, NEW r \in Runs, Retire(t, r) PROVE UNCHANGED lease
    <3>1. lease' # lease => Pending(t, Frame("announce", NoRun))'
      BY <2>1, LendDoes DEF Does, LendTable
    <3>2. QED
      BY <3>1 DEF Announcing
  <2>2. ASSUME NEW t \in Threads, Activate(t) PROVE UNCHANGED lease
    BY <1>3, <1>4, <2>2 DEF Activate, Promotable, arenaVars
  <2>3. \A t : Submits(t) => UNCHANGED lease
    BY DEF Submits, Submit
  <2>4. ASSUME NEW t \in Threads, NEW r \in Runs, Forgets(t, r) PROVE lease'[active] = lease[active]
    <3>1. phase' = [phase EXCEPT ![r] = "RESERVED"] /\ lease' = [lease EXCEPT ![r] = NoLease]
      BY <2>4 DEF Forgets, Forget
    <3>2. active # r
      BY <1>3, <1>4, <1>5, <1>7, <3>1
    <3>3. QED
      BY <1>5, <1>7, <3>1, <3>2
  <2>5. QED
    BY <1>1, <1>2, <2>1, <2>2, <2>3, <2>4 DEF VarMoves, RunMoves, LeaseMove
<1>10. active \in fifo
  <2>1. active \in fifo'
    <3>1. Exclusive(fifo, inUse)'
      BY <1>1 DEF LeaseInv
    <3>2. QED
      BY <1>3, <1>4, <1>5, <3>1 DEF Exclusive, Owns
  <2>2. \A t : Begins(t) => fifo' = fifo \cup {nextRun}
    BY DEF Begins, Publish
  <2>3. \A t, r : Retire(t, r) => fifo' = fifo \ {r}
    BY DEF Retire
  <2>4. QED
    BY <1>1, <1>5, <2>1, <2>2, <2>3 DEF VarMoves, OrchMoves, FifoMove
<1>11. lease[active] # NoLease
  <2>1. lease'[active].gen # 0
    BY <1>3, <1>4 DEF Owns, OwnsIn
  <2>2. QED
    BY <1>9, <2>1, SMTT(30) DEF NoLease
<1>12. Owns(active)
  BY <1>10, <1>11 DEF LeaseInv, Exclusive, Owns
<1>13. QED
  BY <1>3, <1>4, <1>6, <1>8, <1>12 DEF Dispatchable

(* A step keeps the wake of the Scheduler. *)
LEMMA WakeStep == LeaseInv /\ FrameInv /\ WakeInv /\ [Next]_vars => WakeInv'
<1> SUFFICES ASSUME LeaseInv, FrameInv, WakeInv, [Next]_vars, Dispatchable(active)',
                    NEW k \in Tasks, task'[active'][k] = "ready",
                    ~woken', ~Announcing'
             PROVE  spc' = "claim" /\ snap' = active'
  BY DEF WakeInv
<1>1. Dispatchable(active) /\ active' = active /\ active \in Runs
  BY DispatchStep DEF FrameInv, TaskTypes, Dispatchable
<1>2. task[active][k] = "ready"
  <2>1. TaskMove(active, k, task[active][k], task'[active][k])
    BY <1>1, TaskStep DEF FrameInv, TasksMove
  <2>2. \A j : ~Outcome(active, j)
    BY DEF Outcome
  <2>3. ASSUME NEW t, NEW depends \in BOOLEAN, Submit(t, k, depends), active = building PROVE FALSE
    <3>1. ~depends => woken'
      BY <2>3 DEF Submit
    <3>2. depends => task'[building][k] = "pending"
      BY <1>1, <2>3 DEF Submit, FrameInv, TaskTypes
    <3>3. QED
      BY <1>1, <2>3, <3>1, <3>2
  <2>4. QED
    BY <1>1, <2>1, <2>2, <2>3 DEF TaskMove
<1>3. VarMoves /\ TodoMoves
  BY VarStep, TodoStep
<1>4. CASE woken
  <2>1. PassStart(woken)
    BY <1>3, <1>4 DEF VarMoves, ThreadMoves, WokenMove
  <2>2. QED
    BY <1>1, <2>1 DEF PassStart
<1>5. CASE spc = "claim" /\ snap = active
  <2>1. ~PassStart(woken) /\ ~ClaimsDone /\ ~PassEnd
    BY <1>2, <1>5 DEF PassStart, Polling, ClaimsDone, PassEnd
  <2>2. QED
    BY <1>1, <1>3, <1>5, <2>1 DEF VarMoves, ThreadMoves, PassMove
<1>6. CASE Announcing
  <2>1. PICK t \in Threads : Pending(t, Frame("announce", NoRun))
    BY <1>6 DEF Announcing
  <2>2. Frame("announce", NoRun) \in Frames /\ Frame("announce", NoRun)[1] = "announce"
    <3>1. "announce" \in Ops /\ NoRun \in Runs \cup {NoRun}
      BY DEF Ops
    <3>2. QED
      BY <3>1, OpFrames
  <2>3. Pending(t, Frame("announce", NoRun))' \/ Announce(t, "announce")
    BY <1>3, <2>1, <2>2 DEF TodoMoves, FramePop
  <2>4. QED
    BY <2>3 DEF Announcing, Announce
<1>7. QED
  BY <1>1, <1>2, <1>4, <1>5, <1>6 DEF WakeInv

(* A sleeping thread has its wait to return to and nothing else. *)
LEMMA SleeperWaits ==
    ASSUME LeaseInv, FrameInv, NEW t \in asleep
    PROVE  /\ t \in Threads /\ todo[t] \in Seq(Frames) /\ todo[t] # <<>> /\ todo[t][1] = Head(todo[t])
           /\ todo[t][1] \in Frames /\ todo[t][1][1] \in Waits
           /\ \A f : Pending(t, f) => f = todo[t][1]
<1>1. t \in Threads /\ todo[t] \in Seq(Frames) /\ todo[t] # <<>> /\ todo[t][1][1] \in Waits /\ Shape(t, todo[t])
  BY DEF LeaseInv, TodoInv, FrameInv
<1>2. 1 \in 1 .. Len(todo[t]) /\ todo[t][1] = Head(todo[t]) /\ todo[t][1] \in Frames
  BY <1>1, SMTT(30)
<1>3. Len(todo[t]) = 1
  BY <1>1, <1>2 DEF Shape
<1>4. \A i \in 1 .. Len(todo[t]) : i = 1
  BY <1>3, SMTT(30)
<1>5. QED
  BY <1>1, <1>2, <1>4 DEF Pending

(* WakeNotLost: with no wake pending, no pass on and every call returned or  *)
(* waiting, the dispatchable run has no ready task for the Scheduler to      *)
(* sleep over.                                                               *)
THEOREM WakeIsNotLost == Spec => []WakeNotLost
<1>1. Init => LeaseInv /\ FrameInv /\ WakeInv
  <2>1. Init => ~Dispatchable(active)
    BY DEF Init, Dispatchable
  <2>2. QED
    BY <2>1, LeaseInit, FrameInit DEF WakeInv
<1>2. LeaseInv /\ FrameInv /\ WakeInv /\ [Next]_vars => LeaseInv' /\ FrameInv' /\ WakeInv'
  BY LeaseStep, FrameStep, WakeStep
<1>3. LeaseInv /\ FrameInv /\ WakeInv => WakeNotLost
  <2> SUFFICES ASSUME LeaseInv, FrameInv, WakeInv, Quiet, spc = "poll", ~woken, Dispatchable(active),
                      NEW k \in Tasks, task[active][k] = "ready"
               PROVE  FALSE
    BY DEF WakeNotLost
  <2>1. Announcing
    BY DEF WakeInv
  <2>2. PICK t \in Threads : Pending(t, Frame("announce", NoRun))
    BY <2>1 DEF Announcing
  <2>3. todo[t] # <<>>
    BY <2>2, SMTT(30) DEF Pending
  <2>4. t \in asleep
    BY <2>3 DEF Quiet
  <2>5. Frame("announce", NoRun)[1] \in Waits
    BY <2>2, <2>4, SleeperWaits
  <2>6. QED
    BY <2>5, FrameParts DEF Waits
<1>4. QED
  BY <1>1, <1>2, <1>3, PTL DEF Spec

-----------------------------------------------------------------------------
(* A sleeper whose condition holds is about to be notified, by a thread that *)
(* has the notification or the publication of an active run to run, or that  *)
(* retires a run next.                                                       *)
Notices == {"announce", "notify", "publish"}
Notified == \E t \in Threads, f \in Frames : Pending(t, f) /\ f[1] \in Notices
Retiring == \E t \in Threads, r \in Runs : At(t, Frame("retire", r))
WaitInv ==
    \A t \in asleep :
        /\ todo[t][1] = Begin /\ Admits => Notified
        /\ \A r \in Runs : todo[t][1] = Frame("await", r) =>
            /\ active = r => Notified
            /\ Terminal(phase[r]) => Notified \/ Retiring

(* Retirement and activation notify. *)
LEMMA NoticesPushed ==
    ASSUME LeaseInv, NEW t \in Threads, NEW r \in Runs, Retire(t, r) \/ PublishExecuting(t, r)
    PROVE  Notified'
<1>1. Retire(t, r) => \E op \in {"announce", "notify"} : Pending(t, Frame(op, NoRun))' /\ Frame(op, NoRun) \in Frames
  BY LendDoes DEF Does, LendTable
<1>2. PublishExecuting(t, r) => Pending(t, Frame("announce", NoRun))' /\ Frame("announce", NoRun) \in Frames
  BY LendDoes DEF Does, LendTable
<1>3. \A op \in {"announce", "notify"} : Frame(op, NoRun)[1] \in Notices
  BY FrameParts DEF Notices
<1>4. PICK op \in {"announce", "notify"} : Pending(t, Frame(op, NoRun))' /\ Frame(op, NoRun) \in Frames
  BY <1>1, <1>2
<1>5. QED
  BY <1>3, <1>4 DEF Notified

(* A notification that is due stays due until it is given. *)
LEMMA NoticesKept ==
    ASSUME LeaseInv, [Next]_vars, asleep' # {}
    PROVE  Notified => Notified'
<1> SUFFICES ASSUME NEW t \in Threads, NEW f \in Frames, Pending(t, f), f[1] \in Notices PROVE Notified'
  BY DEF Notified
<1>1. Pending(t, f)' \/ FramePop(t, f)
  BY TodoStep DEF TodoMoves
<1>2. \A op : ~Announce(t, op)
  BY DEF Announce, StillAsleep
<1>3. FramePop(t, f) => f[2] \in Runs /\ PublishExecuting(t, f[2])
  BY <1>2 DEF FramePop, Notices
<1>4. QED
  BY <1>1, <1>3, NoticesPushed DEF Notified

(* A thread that retires a run next stays so until it does. *)
LEMMA RetiringKept ==
    ASSUME LeaseInv, FrameInv, [Next]_vars
    PROVE  Retiring => Retiring' \/ Notified'
<1> SUFFICES ASSUME NEW t \in Threads, NEW r \in Runs, At(t, Frame("retire", r)) PROVE Retiring' \/ Notified'
  BY DEF Retiring
<1>1. t \notin asleep /\ todo[t] # <<>> /\ Head(todo[t]) = Frame("retire", r) /\ todo[t][1] = Frame("retire", r)
  BY AtPending DEF At
<1>2. todo'[t] = todo[t] \/ \E f : FramePop(t, f)
  BY <1>1, TodoStep DEF TodoMoves
<1>3. Frame("retire", r)[1] = "retire" /\ Frame("retire", r)[2] = r
  BY FrameParts
<1>4. ASSUME NEW f, FramePop(t, f) PROVE Notified'
  <2>1. f = Frame("retire", r)
    BY <1>1, <1>4 DEF FramePop, At
  <2>2. Retire(t, r)
    BY <1>3, <1>4, <2>1 DEF FramePop
  <2>3. QED
    BY <2>2, NoticesPushed
<1>5. ASSUME todo'[t] = todo[t] PROVE Retiring'
  <2>1. t \notin asleep'
    <3>1. ASSUME SleepMove(t) PROVE FALSE
      <4>1. CASE todo'[t] = <<Begin>>
        <5>1. <<Begin>>[1] = Begin
          OBVIOUS
        <5>2. Begin[1] = "begin"
          BY FrameParts DEF Begin
        <5>3. QED
          BY <1>1, <1>3, <1>5, <4>1, <5>1, <5>2
      <4>2. ASSUME NEW q \in Runs, At(t, Frame("await", q)) PROVE FALSE
        <5>1. Frame("await", q)[1] = "await"
          BY FrameParts
        <5>2. QED
          BY <1>1, <1>3, <4>2, <5>1 DEF At
      <4>3. QED
        BY <1>1, <3>1, <4>1, <4>2 DEF SleepMove
    <3>2. QED
      BY <3>1, SleepStep DEF FrameInv
  <2>2. QED
    BY <1>1, <1>5, <2>1 DEF Retiring, At
<1>6. QED
  BY <1>2, <1>4, <1>5

(* A step keeps the notifications of the sleepers. *)
LEMMA WaitStep == LeaseInv /\ FrameInv /\ WaitInv /\ [Next]_vars => WaitInv'
<1> SUFFICES ASSUME LeaseInv, FrameInv, WaitInv, [Next]_vars, NEW t \in asleep', ~Notified'
             PROVE  /\ todo'[t][1] = Begin => ~Admits'
                    /\ \A r \in Runs : todo'[t][1] = Frame("await", r) =>
                            /\ active' # r
                            /\ Terminal(phase'[r]) => Retiring'
  BY DEF WaitInv
<1>1. VarMoves /\ t \in Threads /\ SleepMove(t)
  BY VarStep, SleepStep DEF FrameInv
<1>2. ~Notified
  <2>1. asleep' # {}
    OBVIOUS
  <2>2. QED
    BY <2>1, NoticesKept
<1>3. \A u \in Threads, r \in Runs : ~Retire(u, r) /\ ~PublishExecuting(u, r)
  BY NoticesPushed
<1>4. UNCHANGED active
  BY <1>1, <1>3 DEF VarMoves, OrchMoves, ActiveMove
<1>5. todo'[t][1] = Begin => ~Admits'
  <2>1. ~Admits => ~Admits'
    <3>1. ASSUME ~Admits PROVE UNCHANGED <<fifo, limit>>
      <4>1. \A u : ~Begins(u)
        BY <3>1 DEF Begins
      <4>2. QED
        BY <1>1, <1>3, <4>1 DEF VarMoves, OrchMoves, FifoMove, LimitMove
    <3>2. QED
      BY <3>1 DEF Admits
  <2>2. CASE t \in asleep /\ todo'[t] = todo[t]
    BY <1>2, <2>1, <2>2 DEF WaitInv
  <2>3. ASSUME NEW r \in Runs, At(t, Frame("await", r)), UNCHANGED todo PROVE todo'[t][1] # Begin
    <3>1. todo'[t][1] = Frame("await", r)
      BY <1>1, <2>3, AtPending
    <3>2. Frame("await", r)[1] = "await" /\ Begin[1] = "begin"
      BY FrameParts DEF Begin
    <3>3. QED
      BY <3>1, <3>2
  <2>4. QED
    BY <1>1, <2>1, <2>2, <2>3 DEF SleepMove
<1>6. ASSUME NEW r \in Runs, todo'[t][1] = Frame("await", r)
      PROVE  active' # r /\ (Terminal(phase'[r]) => Retiring')
  <2>1. \/ t \in asleep /\ todo[t][1] = Frame("await", r)
        \/ active # r /\ ~Terminal(phase[r]) /\ UNCHANGED phase
    <3>1. CASE t \in asleep /\ todo'[t] = todo[t]
      BY <1>6, <3>1
    <3>2. CASE todo'[t] = <<Begin>>
      <4>1. <<Begin>>[1] = Begin
        OBVIOUS
      <4>2. Frame("await", r)[1] = "await" /\ Begin[1] = "begin"
        BY FrameParts DEF Begin
      <4>3. QED
        BY <1>6, <3>2, <4>1, <4>2
    <3>3. ASSUME NEW q \in Runs, At(t, Frame("await", q)), active # q, ~Terminal(phase[q]),
                 UNCHANGED <<todo, active, phase>>
          PROVE  active # r /\ ~Terminal(phase[r]) /\ UNCHANGED phase
      <4>1. todo'[t][1] = Frame("await", q)
        BY <1>1, <3>3, AtPending
      <4>2. Frame("await", q)[2] = q /\ Frame("await", r)[2] = r
        BY FrameParts
      <4>3. QED
        BY <1>6, <3>3, <4>1, <4>2
    <3>4. QED
      BY <1>1, <3>1, <3>2, <3>3 DEF SleepMove
  <2>2. active # r /\ (Terminal(phase[r]) => Retiring)
    BY <1>2, <2>1 DEF WaitInv
  <2>3. CASE Terminal(phase[r])
    BY <1>4, <2>2, <2>3, RetiringKept
  <2>4. ASSUME ~Terminal(phase[r]), Terminal(phase'[r]) PROVE Retiring'
    <3>1. phase \in [Runs -> Phases]
      BY DEF LeaseInv, RunTypes, Phases
    <3>2. \A u : ~Begins(u)
      BY <2>4, <3>1 DEF Begins, Publish, Terminal
    <3>3. \A u \in Threads, q \in Runs : ~Close(u, q)
      BY <2>4, <3>1 DEF Close, Terminal
    <3>4. \A u \in Threads, q \in Runs : ~Forgets(u, q)
      BY <2>4, <3>1 DEF Forgets, Forget, Terminal
    <3>5. PICK u \in Threads, q \in Runs : Finish(u, q) /\ Fenced(q)
      BY <1>1, <1>3, <2>4, <3>2, <3>3, <3>4 DEF VarMoves, RunMoves, PhaseMove
    <3>6. Then(u, <<Frame("retire", q)>>) /\ UNCHANGED asleep /\ u \notin asleep
      BY <3>5 DEF Finish, At
    <3>7. todo'[u] = <<Frame("retire", q)>> \o Tail(todo[u]) /\ todo[u] \in Seq(Frames)
      BY <3>6 DEF Then, LeaseInv, TodoInv
    <3>8. todo[u] # <<>>
      BY <3>5 DEF Finish, At
    <3>9. todo'[u] # <<>> /\ Head(todo'[u]) = Frame("retire", q)
      BY <3>7, <3>8, SMTT(30)
    <3>10. QED
      BY <3>6, <3>9 DEF Retiring, At
  <2>5. QED
    BY <1>4, <2>2, <2>3, <2>4
<1>7. QED
  BY <1>5, <1>6

(* NoStrandedWaiter: a begin_run or await_run_admission waiter whose         *)
(* condition holds is about to be notified: some thread has runs_cv_'s       *)
(* notification or an activation to finish, or retires a run next.           *)
THEOREM NoWaiterIsStranded == Spec => []NoStrandedWaiter
<1>1. Init => LeaseInv /\ FrameInv /\ WaitInv
  <2>1. Init => asleep = {}
    BY DEF Init
  <2>2. QED
    BY <2>1, LeaseInit, FrameInit DEF WaitInv
<1>2. LeaseInv /\ FrameInv /\ WaitInv /\ [Next]_vars => LeaseInv' /\ FrameInv' /\ WaitInv'
  BY LeaseStep, FrameStep, WaitStep
<1>3. LeaseInv /\ FrameInv /\ WaitInv => NoStrandedWaiter
  <2> SUFFICES ASSUME LeaseInv, FrameInv, WaitInv, NEW t \in asleep, Satisfied(t)
               PROVE  NotifyPending \/ Retiring
    BY DEF NoStrandedWaiter, Retiring
  <2>1. todo[t][1] = Head(todo[t])
    BY SleeperWaits
  <2>2. Notified \/ Retiring
    BY <2>1 DEF WaitInv, Satisfied, Begin
  <2>3. Notified => NotifyPending
    BY DEF Notified, NotifyPending, Pending, Notices
  <2>4. QED
    BY <2>2, <2>3
<1>4. QED
  BY <1>1, <1>2, <1>3, PTL DEF Spec
=============================================================================
