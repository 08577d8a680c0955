-------------------------- MODULE TensorMapProofs --------------------------
(***************************************************************************)
(* No program loses a dependency, whatever the overlap test is, as long as *)
(* its NONE and COVERED can be relied on.                                  *)
(*                                                                         *)
(* ReadsWaitForWriters says nothing of the map, so it is not inductive.    *)
(* Two facts carry it.  MapKeepsLast: the last task to have registered a   *)
(* byte so far is still in the map with an entry that has this byte, or is *)
(* consumed; an insert can only drop entries all of whose bytes it takes   *)
(* over itself, and an erase only those of a consumed task.  DepsTaken:    *)
(* the last writer of every byte the walk has looked up is among the       *)
(* task's producers, or has ended.                                         *)
(***************************************************************************)
EXTENDS TensorMap, TLAPS

States == {"FREE", "BUILDING", "LIVE", "ENDED", "CONSUMED", "ERASED"}
AllBytes == UNION {Touched(v) : v \in Views}

(* How far the walk over the arguments has come. *)
Registered(t, i) == t < cur \/ (t = cur /\ i < at.i)
LookedUp(t, i) == t < cur \/ (t = cur /\ (i < at.i \/ (i = at.i /\ at.looked)))
WroteSoFar(t, k, b) ==
    \E i \in DOMAIN prog[t].args :
      IsWrite(prog[t].args[i]) /\ Touches(prog[t].args[i], k, b) /\ Registered(t, i)
ReadSoFar(t, k, b) ==
    \E i \in DOMAIN prog[t].args :
      IsRead(prog[t].args[i]) /\ Touches(prog[t].args[i], k, b) /\ LookedUp(t, i)

TypeInv ==
    /\ prog \in Programs
    /\ cur \in 1..(Len(prog) + 1)
    /\ at = [i |-> at.i, looked |-> at.looked] /\ at.i \in Nat \ {0} /\ at.looked \in BOOLEAN
    /\ state \in [Tasks -> States]
    /\ deps \in [Tasks -> SUBSET Tasks] /\ kept \in [Tasks -> SUBSET Tasks]
    /\ \A e \in map : e.key \in Keys /\ e.view \in Views /\ e.producer \in Tasks
(* Tasks are submitted one after the other, and the walk over one starts at  *)
(* its first argument.                                                       *)
WalkInv ==
    /\ \A t \in Tasks : t < cur => state[t] \notin {"FREE", "BUILDING"}
    /\ \A t \in Tasks : t > cur => state[t] = "FREE"
    /\ cur \in Tasks => state[cur] \in {"FREE", "BUILDING"}
    /\ (cur \notin Tasks \/ state[cur] = "FREE") => at = FirstArg
    /\ cur \in Tasks => at.i <= Len(Args) + 1 /\ (at.looked => at.i \in DOMAIN Args)
MapKeepsLast ==
    \A k \in Keys : \A b \in AllBytes : \A w \in Tasks :
      (WroteSoFar(w, k, b) /\ \A v \in Tasks : v > w => ~WroteSoFar(v, k, b))
        => IsConsumed(w) \/ \E e \in map : e.producer = w /\ e.key = k /\ b \in Touched(e.view)
DepsTaken ==
    \A k \in Keys : \A b \in AllBytes : \A t, w \in Tasks :
      ReadSoFar(t, k, b) /\ LastWriter(w, t, k, b) => w \in deps[t] \/ HasEnded(w)

IInv == TypeInv /\ WalkInv /\ MapKeepsLast /\ DepsTaken /\ ReadsWaitForWriters

-----------------------------------------------------------------------------
(* What the assumption on programs says of the one being run: the keys and   *)
(* views of its arguments, and the order of reads and writes in a task.      *)
LEMMA ProgramFacts ==
    ASSUME prog \in Programs
    PROVE  /\ Len(prog) \in Nat
           /\ \A t \in Tasks :
                /\ Len(prog[t].args) \in Nat /\ DOMAIN prog[t].args = 1..Len(prog[t].args)
                /\ \A i \in DOMAIN prog[t].args :
                     prog[t].args[i].key \in Keys /\ prog[t].args[i].view \in Views
                /\ ReadsFirst(prog[t].args)
                /\ prog[t].after \subseteq Tasks /\ prog[t].keeps \subseteq Tasks
<1>1. Len(prog) \in Nat
  BY ProgramsAssumption, Zenon
<1>2. ASSUME NEW t \in Tasks
      PROVE  /\ Len(prog[t].args) \in Nat /\ DOMAIN prog[t].args = 1..Len(prog[t].args)
             /\ \A i \in DOMAIN prog[t].args :
                  prog[t].args[i].key \in Keys /\ prog[t].args[i].view \in Views
             /\ ReadsFirst(prog[t].args)
             /\ prog[t].after \subseteq Tasks /\ prog[t].keeps \subseteq Tasks
  <2>1. /\ Len(prog[t].args) \in Nat /\ DOMAIN prog[t].args = 1..Len(prog[t].args)
        /\ \A i \in DOMAIN prog[t].args :
             prog[t].args[i].key \in Keys /\ prog[t].args[i].view \in Views
        /\ ReadsFirst(prog[t].args)
        /\ prog[t].after \subseteq 1..(t - 1) /\ prog[t].keeps \subseteq prog[t].after
    BY <1>2, ProgramsAssumption, Zenon DEF Tasks
  <2>2. 1..(t - 1) \subseteq Tasks
    BY <1>1, <1>2 DEF Tasks
  <2> QED BY <2>1, <2>2
<1> QED BY <1>1, <1>2

(* An argument's key and bytes are ones the invariant speaks of.             *)
LEMMA ArgTouches ==
    ASSUME prog \in Programs, NEW t \in Tasks, NEW i \in DOMAIN prog[t].args,
           NEW k, NEW b, Touches(prog[t].args[i], k, b)
    PROVE  k \in Keys /\ b \in AllBytes
<1>1. prog[t].args[i].key \in Keys /\ prog[t].args[i].view \in Views
  BY ProgramFacts, Zenon
<1> QED BY <1>1 DEF Touches, AllBytes

(* The invariant holds initially.                                            *)
LEMMA InitInv == Init => IInv
<1> SUFFICES ASSUME Init PROVE IInv
  OBVIOUS
<1>1. Len(prog) \in Nat
  BY ProgramFacts, Zenon DEF Init
<1>2. TypeInv
  BY <1>1 DEF Init, TypeInv, FirstArg, Tasks, States
<1>3. \A t, i : ~(t \in Tasks /\ i \in DOMAIN prog[t].args /\ (Registered(t, i) \/ LookedUp(t, i)))
  <2> SUFFICES ASSUME NEW t \in Tasks, NEW i \in DOMAIN prog[t].args
               PROVE  ~Registered(t, i) /\ ~LookedUp(t, i)
    OBVIOUS
  <2>1. i \in Nat /\ i >= 1 /\ t \in Nat /\ t >= 1
    BY <1>1, ProgramFacts DEF Init, Tasks
  <2> QED BY <2>1 DEF Init, FirstArg, Registered, LookedUp
<1>4. WalkInv
  <2>1. \A t \in Tasks : t \in Nat /\ t >= 1
    BY <1>1 DEF Tasks
  <2>2. cur \in Tasks => Len(Args) \in Nat
    BY ProgramFacts, Zenon DEF Init, Args
  <2> QED BY <2>1, <2>2 DEF Init, WalkInv, FirstArg
<1>5. MapKeepsLast
  BY <1>3 DEF MapKeepsLast, WroteSoFar
<1>6. DepsTaken
  BY <1>3, Zenon DEF DepsTaken, ReadSoFar
<1>7. ReadsWaitForWriters
  BY Zenon DEF Init, ReadsWaitForWriters, HasEnded
<1> QED BY <1>2, <1>4, <1>5, <1>6, <1>7 DEF IInv

-----------------------------------------------------------------------------
(* The program does not change, so neither does who reads from whom.         *)
LEMMA SameProgram ==
    ASSUME prog' = prog
    PROVE  /\ Tasks' = Tasks
           /\ \A w, t, k, b : LastWriter(w, t, k, b)' <=> LastWriter(w, t, k, b)
           /\ \A t, w : ReadsFrom(t, w)' <=> ReadsFrom(t, w)
<1>1. Tasks' = Tasks
  BY Zenon DEF Tasks
<1>2. ASSUME NEW w, NEW t, NEW k, NEW b PROVE LastWriter(w, t, k, b)' <=> LastWriter(w, t, k, b)
  BY Zenon DEF LastWriter, Writes
<1>3. ASSUME NEW t, NEW w PROVE ReadsFrom(t, w)' <=> ReadsFrom(t, w)
  BY <1>2, Zenon DEF ReadsFrom
<1> QED BY <1>1, <1>2, <1>3

(* Steps on a task that is already submitted: the walk stands still.         *)
LEMMA EndPreserves ==
    ASSUME IInv, NEW t \in Tasks, End(t)
    PROVE  IInv'
<1> USE DEF IInv
<1>1. TypeInv'
  BY Zenon DEF TypeInv, End, Tasks, States
<1>2. \A u \in Tasks : (HasEnded(u) => HasEnded(u)') /\ (IsConsumed(u) => IsConsumed(u)')
  BY Zenon DEF TypeInv, End, HasEnded, IsConsumed
<1>3. t < cur
  BY ProgramFacts DEF TypeInv, WalkInv, End, Tasks
<1>4. WalkInv'
  BY <1>3, ProgramFacts, Zenon DEF TypeInv, WalkInv, End, Tasks, Args
<1>5. MapKeepsLast'
  BY <1>2 DEF MapKeepsLast, WroteSoFar, Registered, End, Tasks
<1>6. DepsTaken'
  BY <1>2, SameProgram DEF DepsTaken, ReadSoFar, LookedUp, End
<1>7. ReadsWaitForWriters'
  <2> SUFFICES ASSUME NEW u \in Tasks, NEW w \in Tasks, HasEnded(u)', ReadsFrom(u, w)
               PROVE  HasEnded(w)'
    BY SameProgram, Zenon DEF ReadsWaitForWriters, End
  <2>1. CASE HasEnded(u)
    BY <2>1, <1>2, Zenon DEF ReadsWaitForWriters
  <2>2. CASE ~HasEnded(u)
    <3>1. u = t
      BY <2>2, Zenon DEF HasEnded, End, TypeInv
    <3>2. PICK i \in DOMAIN prog[t].args :
            /\ IsRead(prog[t].args[i])
            /\ \E b \in Touched(prog[t].args[i].view) : LastWriter(w, t, prog[t].args[i].key, b)
      BY <3>1, Zenon DEF ReadsFrom
    <3>3. PICK b \in Touched(prog[t].args[i].view) : LastWriter(w, t, prog[t].args[i].key, b)
      BY <3>2, Zenon
    <3>4. Touches(prog[t].args[i], prog[t].args[i].key, b)
      BY <3>3, Zenon DEF Touches
    <3>5. ReadSoFar(t, prog[t].args[i].key, b)
      BY <3>2, <3>4, <1>3, Zenon DEF ReadSoFar, LookedUp
    <3>6. prog[t].args[i].key \in Keys /\ b \in AllBytes
      BY <3>4, ArgTouches, Zenon DEF TypeInv
    <3>7. w \in deps[t] \/ HasEnded(w)
      BY <3>3, <3>5, <3>6, Zenon DEF DepsTaken
    <3> QED BY <3>7, <1>2 DEF End
  <2> QED BY <2>1, <2>2
<1> QED BY <1>1, <1>4, <1>5, <1>6, <1>7

(* A consumed task may lose its entries, and only then.                      *)
LEMMA ConsumePreserves ==
    ASSUME IInv, NEW t \in Tasks, Consume(t)
    PROVE  IInv'
<1> USE DEF IInv
<1>1. TypeInv'
  BY Zenon DEF TypeInv, Consume, Tasks, States
<1>2. \A u \in Tasks : (HasEnded(u)' <=> HasEnded(u)) /\ (IsConsumed(u) => IsConsumed(u)')
  BY Zenon DEF TypeInv, Consume, HasEnded, IsConsumed
<1>3. t < cur
  BY ProgramFacts DEF TypeInv, WalkInv, Consume, Tasks
<1>4. WalkInv'
  BY <1>3, ProgramFacts, Zenon DEF TypeInv, WalkInv, Consume, Tasks, Args
<1>5. MapKeepsLast'
  BY <1>2 DEF MapKeepsLast, WroteSoFar, Registered, Consume, Tasks
<1>6. DepsTaken'
  BY <1>2, SameProgram DEF DepsTaken, ReadSoFar, LookedUp, Consume
<1>7. ReadsWaitForWriters'
  BY <1>2, SameProgram, Zenon DEF ReadsWaitForWriters, Consume
<1> QED BY <1>1, <1>4, <1>5, <1>6, <1>7

(* erase_task_outputs drops the entries of a consumed task.                  *)
LEMMA ErasePreserves ==
    ASSUME IInv, NEW t \in Tasks, Erase(t)
    PROVE  IInv'
<1> USE DEF IInv
<1>1. TypeInv'
  BY Zenon DEF TypeInv, Erase, Erased, Tasks, States
<1>2. \A u \in Tasks : (HasEnded(u)' <=> HasEnded(u)) /\ (IsConsumed(u)' <=> IsConsumed(u))
  BY Zenon DEF TypeInv, Erase, HasEnded, IsConsumed
<1>3. t < cur
  BY ProgramFacts DEF TypeInv, WalkInv, Erase, Tasks
<1>4. WalkInv'
  BY <1>3, ProgramFacts, Zenon DEF TypeInv, WalkInv, Erase, Tasks, Args
<1>5. MapKeepsLast'
  <2> SUFFICES ASSUME NEW k \in Keys, NEW b \in AllBytes, NEW w \in Tasks,
                      IsConsumed(w) \/ \E e \in map : e.producer = w /\ e.key = k /\ b \in Touched(e.view)
               PROVE  IsConsumed(w)' \/ \E e \in map' : e.producer = w /\ e.key = k /\ b \in Touched(e.view)
    BY SMTT(30) DEF MapKeepsLast, WroteSoFar, Registered, Erase, Tasks
  <2>1. CASE IsConsumed(w)
    BY <2>1, <1>2, Zenon
  <2>2. CASE ~IsConsumed(w)
    <3>1. w # t
      BY <2>2, Zenon DEF Erase, IsConsumed
    <3> QED BY <3>1, <2>2 DEF Erase, Erased
  <2> QED BY <2>1, <2>2
<1>6. DepsTaken'
  BY <1>2, SameProgram DEF DepsTaken, ReadSoFar, LookedUp, Erase
<1>7. ReadsWaitForWriters'
  BY <1>2, SameProgram, Zenon DEF ReadsWaitForWriters, Erase
<1> QED BY <1>1, <1>4, <1>5, <1>6, <1>7

-----------------------------------------------------------------------------
(* Steps of the walk.  An argument the walk passes is registered if it       *)
(* writes and looked up if it reads.                                         *)
LEMMA BeginPreserves ==
    ASSUME IInv, Begin
    PROVE  IInv'
<1> USE DEF IInv
<1>1. TypeInv'
  <2>1. prog[cur].after \subseteq Tasks /\ prog[cur].keeps \subseteq Tasks
    BY ProgramFacts, Zenon DEF TypeInv, Begin
  <2> QED BY <2>1 DEF TypeInv, Begin, Tasks, States
<1>2. \A u \in Tasks : (HasEnded(u)' <=> HasEnded(u)) /\ (IsConsumed(u)' <=> IsConsumed(u))
  BY Zenon DEF TypeInv, Begin, HasEnded, IsConsumed
<1>3. WalkInv'
  BY ProgramFacts, Zenon DEF TypeInv, WalkInv, Begin, Tasks, Args
<1>4. MapKeepsLast'
  BY <1>2 DEF MapKeepsLast, WroteSoFar, Registered, Begin, Tasks
<1>5. DepsTaken'
  <2> SUFFICES ASSUME NEW k \in Keys, NEW b \in AllBytes, NEW t \in Tasks, NEW w \in Tasks,
                      ReadSoFar(t, k, b), LastWriter(w, t, k, b)
               PROVE  w \in deps'[t] \/ HasEnded(w)'
    BY SameProgram DEF DepsTaken, ReadSoFar, LookedUp, Begin
  <2>1. t # cur
    <3> SUFFICES ASSUME t = cur PROVE FALSE
      OBVIOUS
    <3>1. at.i = 1 /\ ~at.looked
      BY DEF WalkInv, Begin, FirstArg
    <3>2. \A i \in DOMAIN prog[t].args : i \in Nat /\ i >= 1
      BY ProgramFacts DEF TypeInv
    <3>3. t \in Nat
      BY ProgramFacts DEF TypeInv, Tasks
    <3> QED BY <3>1, <3>2, <3>3 DEF ReadSoFar, LookedUp
  <2> QED BY <2>1, <1>2 DEF DepsTaken, Begin, TypeInv
<1>6. ReadsWaitForWriters'
  BY <1>2, SameProgram, Zenon DEF ReadsWaitForWriters, Begin
<1> QED BY <1>1, <1>3, <1>4, <1>5, <1>6

(* A lookup takes every producer whose entry may overlap the argument, the   *)
(* last writer of each of its bytes among them.                              *)
LEMMA TakeProducersPreserves ==
    ASSUME IInv, TakeProducers
    PROVE  IInv'
<1> USE DEF IInv
<1> DEFINE a == Args[at.i]
<1>0. /\ cur \in Tasks /\ state[cur] = "BUILDING" /\ at.i \in DOMAIN prog[cur].args
      /\ a = prog[cur].args[at.i] /\ IsRead(a) /\ ~at.looked
      /\ Len(prog[cur].args) \in Nat /\ DOMAIN prog[cur].args = 1..Len(prog[cur].args)
      /\ ReadsFirst(prog[cur].args) /\ a.key \in Keys /\ a.view \in Views
  BY ProgramFacts, Zenon DEF TakeProducers, Walking, Args, TypeInv
<1>1. /\ at' = [i |-> at'.i, looked |-> at'.looked]
      /\ at'.i = (IF IsWrite(a) THEN at.i ELSE at.i + 1) /\ (at'.looked <=> IsWrite(a))
      /\ at'.i \in Nat \ {0} /\ at'.looked \in BOOLEAN
  <2>1. CASE IsWrite(a)
    <3>1. at' = [i |-> at.i, looked |-> TRUE]
      BY <2>1, <1>0, Zenon DEF TypeInv, TakeProducers
    <3> QED BY <3>1, <2>1 DEF TypeInv
  <2>2. CASE ~IsWrite(a)
    <3>1. at' = [i |-> at.i + 1, looked |-> FALSE]
      BY <2>2, <1>0, Zenon DEF TypeInv, TakeProducers, NextArg
    <3> QED BY <3>1, <2>2 DEF TypeInv
  <2> QED BY <2>1, <2>2
<1>2. TypeInv'
  <2>1. Producers(a) \subseteq Tasks
    BY Zenon DEF Producers, TypeInv
  <2>2. deps' \in [Tasks -> SUBSET Tasks] /\ kept' \in [Tasks -> SUBSET Tasks]
    BY <2>1, Zenon DEF TypeInv, TakeProducers
  <2> QED BY <2>2, <1>1, SameProgram DEF TypeInv, TakeProducers
<1>3. \A u \in Tasks : (HasEnded(u)' <=> HasEnded(u)) /\ (IsConsumed(u)' <=> IsConsumed(u))
  BY Zenon DEF TakeProducers, HasEnded, IsConsumed
<1>4. WalkInv'
  <2>1. at'.i <= Len(prog[cur].args) + 1 /\ (at'.looked => at'.i \in DOMAIN prog[cur].args)
    BY <1>0, <1>1 DEF TypeInv
  <2> QED BY <2>1, <1>0, SameProgram DEF WalkInv, TakeProducers, Args
<1>5. \A t \in Tasks : \A k, b : WroteSoFar(t, k, b)' <=> WroteSoFar(t, k, b)
  <2> SUFFICES ASSUME NEW t \in Tasks, NEW i \in DOMAIN prog[t].args, IsWrite(prog[t].args[i])
               PROVE  Registered(t, i)' <=> Registered(t, i)
    BY DEF WroteSoFar, TakeProducers
  <2>1. t \in Nat /\ i \in Nat
    BY ProgramFacts DEF TypeInv, Tasks
  <2> QED BY <2>1, <1>0, <1>1 DEF Registered, TakeProducers, TypeInv
<1>6. MapKeepsLast'
  BY <1>3, <1>5, SameProgram DEF MapKeepsLast, TakeProducers
<1>7. DepsTaken'
  <2> SUFFICES ASSUME NEW k \in Keys, NEW b \in AllBytes, NEW t \in Tasks, NEW w \in Tasks,
                      ReadSoFar(t, k, b)', LastWriter(w, t, k, b)
               PROVE  w \in deps'[t] \/ HasEnded(w)
    BY <1>3, SameProgram, Zenon DEF DepsTaken, TakeProducers
  <2>1. CASE ReadSoFar(t, k, b)
    BY <2>1, Zenon DEF DepsTaken, TakeProducers, TypeInv
  <2>2. CASE ~ReadSoFar(t, k, b)
    <3>1. t = cur /\ Touches(a, k, b)
      <4>1. PICK i \in DOMAIN prog[t].args :
              IsRead(prog[t].args[i]) /\ Touches(prog[t].args[i], k, b) /\ LookedUp(t, i)'
        BY Zenon DEF ReadSoFar, TakeProducers
      <4>2. ~LookedUp(t, i)
        BY <4>1, <2>2, Zenon DEF ReadSoFar
      <4>3. t \in Nat /\ i \in Nat
        BY ProgramFacts DEF TypeInv, Tasks
      <4> QED BY <4>1, <4>2, <4>3, <1>0, <1>1 DEF LookedUp, TakeProducers, TypeInv
    <3>2. ~WroteSoFar(t, k, b)
      <4> SUFFICES ASSUME NEW j \in DOMAIN prog[t].args, IsWrite(prog[t].args[j]),
                          Touches(prog[t].args[j], k, b), Registered(t, j)
                   PROVE  FALSE
        BY Zenon DEF WroteSoFar
      <4>1. j < at.i
        BY <3>1, <1>0 DEF Registered, TypeInv, Tasks
      <4>2. CASE IsRead(prog[t].args[j])
        BY <4>1, <4>2, <3>1, <2>2, Zenon DEF ReadSoFar, LookedUp
      <4>3. CASE ~IsRead(prog[t].args[j])
        BY <4>1, <4>3, <3>1, <1>0, Zenon DEF ReadsFirst, Touches
      <4> QED BY <4>2, <4>3
    <3>3. WroteSoFar(w, k, b) /\ w < cur
      <4>1. w \in 1..(cur - 1) /\ Writes(w, k, b)
        BY <3>1, Zenon DEF LastWriter
      <4>2. w < cur
        BY <4>1 DEF TypeInv
      <4> QED BY <4>1, <4>2 DEF Writes, WroteSoFar, Registered
    <3>4. ASSUME NEW v \in Tasks, v > w PROVE ~WroteSoFar(v, k, b)
      <4>1. v \in Nat /\ w \in Nat /\ cur \in Nat
        BY ProgramFacts DEF TypeInv, Tasks
      <4>2. CASE v < cur
        <5>1. v \in (w + 1)..(t - 1)
          BY <4>1, <4>2, <3>1, <3>4
        <5> QED BY <5>1 DEF LastWriter, Writes, WroteSoFar
      <4>3. CASE v = cur
        BY <4>3, <3>1, <3>2, Zenon
      <4>4. CASE v > cur
        BY <4>1, <4>4 DEF WroteSoFar, Registered
      <4> QED BY <4>1, <4>2, <4>3, <4>4
    <3>5. CASE IsConsumed(w)
      BY <3>5, Zenon DEF IsConsumed, HasEnded
    <3>6. CASE ~IsConsumed(w)
      <4>1. PICK e \in map : e.producer = w /\ e.key = k /\ b \in Touched(e.view)
        BY <3>3, <3>4, <3>6 DEF MapKeepsLast
      <4>2. OverlapOf(a.view, e.view) # "NONE"
        BY <4>1, <3>1, <1>0, OverlapAssumption, Zenon DEF Touches, TypeInv
      <4>3. w \in Producers(a) /\ w # cur
        BY <4>1, <4>2, <3>1, <3>3, ProgramFacts DEF Producers, Touches, TypeInv, Tasks
      <4> QED BY <4>3, <3>1, <1>0 DEF TakeProducers, TypeInv
    <3> QED BY <3>5, <3>6
  <2> QED BY <2>1, <2>2
<1>8. ReadsWaitForWriters'
  BY <1>3, SameProgram, Zenon DEF ReadsWaitForWriters, TakeProducers
<1> QED BY <1>2, <1>4, <1>6, <1>7, <1>8

(* Passing an argument that is looked up if it reads: what has been read so  *)
(* far stays the same.                                                       *)
LEMMA PassArg ==
    ASSUME IInv, Walking, NextArg, prog' = prog, cur' = cur, state' = state,
           IsRead(Args[at.i]) => at.looked
    PROVE  /\ at' = [i |-> at.i + 1, looked |-> FALSE] /\ at.i \in Nat \ {0}
           /\ \A t \in Tasks : \A k, b : ReadSoFar(t, k, b)' => ReadSoFar(t, k, b)
           /\ WalkInv'
<1> USE DEF IInv
<1>1. /\ cur \in Tasks /\ state[cur] = "BUILDING" /\ at.i \in DOMAIN prog[cur].args
      /\ Len(prog[cur].args) \in Nat /\ DOMAIN prog[cur].args = 1..Len(prog[cur].args)
      /\ at' = [i |-> at.i + 1, looked |-> FALSE] /\ at.i \in Nat \ {0}
  BY ProgramFacts, Zenon DEF Walking, Args, TypeInv, NextArg
<1>2. ASSUME NEW t \in Tasks, NEW k, NEW b, ReadSoFar(t, k, b)' PROVE ReadSoFar(t, k, b)
  <2>1. PICK i \in DOMAIN prog[t].args :
          IsRead(prog[t].args[i]) /\ Touches(prog[t].args[i], k, b) /\ LookedUp(t, i)'
    BY <1>2, Zenon DEF ReadSoFar
  <2>2. t \in Nat /\ i \in Nat
    BY ProgramFacts DEF TypeInv, Tasks
  <2>3. LookedUp(t, i)
    BY <2>1, <2>2, <1>1, SMTT(30) DEF LookedUp, TypeInv, Args
  <2> QED BY <2>1, <2>3 DEF ReadSoFar
<1>3. WalkInv'
  <2>1. at'.i <= Len(prog[cur].args) + 1 /\ ~at'.looked
    BY <1>1
  <2> QED BY <2>1, <1>1, SameProgram DEF WalkInv, Args
<1> QED BY <1>1, <1>2, <1>3

(* An insert drops only entries it covers, and becomes the last writer of    *)
(* their bytes.                                                              *)
LEMMA InsertPreserves ==
    ASSUME IInv, Insert
    PROVE  IInv'
<1> USE DEF IInv
<1> DEFINE a == Args[at.i]
           new == [key |-> a.key, view |-> a.view, producer |-> cur]
<1>0. /\ cur \in Tasks /\ at.i \in DOMAIN prog[cur].args
      /\ a = prog[cur].args[at.i] /\ IsWrite(a) /\ a.key \in Keys /\ a.view \in Views
      /\ map' = (map \ Superseded(a)) \cup {new}
  BY ProgramFacts, Zenon DEF Insert, Walking, Args, TypeInv
<1>1. /\ at' = [i |-> at.i + 1, looked |-> FALSE] /\ at.i \in Nat \ {0}
      /\ \A t \in Tasks : \A k, b : ReadSoFar(t, k, b)' => ReadSoFar(t, k, b)
      /\ WalkInv'
  BY PassArg, Zenon DEF Insert
<1>2. TypeInv'
  <2>1. \A e \in map' : e.key \in Keys /\ e.view \in Views /\ e.producer \in Tasks
    BY <1>0 DEF TypeInv
  <2> QED BY <2>1, <1>1, SameProgram, SMTT(30) DEF TypeInv, Insert
<1>3. \A u : (HasEnded(u)' <=> HasEnded(u)) /\ (IsConsumed(u)' <=> IsConsumed(u))
  BY Zenon DEF Insert, HasEnded, IsConsumed
<1>4. MapKeepsLast'
  <2> SUFFICES ASSUME NEW k \in Keys, NEW b \in AllBytes, NEW w \in Tasks,
                      WroteSoFar(w, k, b)', \A v \in Tasks : v > w => ~WroteSoFar(v, k, b)'
               PROVE  IsConsumed(w) \/ \E e \in map' : e.producer = w /\ e.key = k /\ b \in Touched(e.view)
    BY <1>3, SameProgram DEF MapKeepsLast, Insert
  <2>0. \A v \in Tasks : v \in Nat /\ \A i \in DOMAIN prog[v].args : i \in Nat
    BY ProgramFacts DEF TypeInv, Tasks
  <2>1. ASSUME NEW v \in Tasks, WroteSoFar(v, k, b)' PROVE v <= cur
    BY <2>0, <2>1 DEF WroteSoFar, Registered, Insert, TypeInv
  <2>2. CASE Touches(a, k, b)
    <3>1. ASSUME NEW v \in Tasks, v = cur PROVE WroteSoFar(v, k, b)'
      BY <3>1, <2>2, <1>0, <1>1, SMTT(30) DEF WroteSoFar, Registered, Insert
    <3>2. ~(cur > w)
      BY <3>1, <1>0, Zenon
    <3>3. w <= cur
      BY <2>1, ZenonT(30)
    <3>4. w = cur
      BY <3>2, <3>3, <2>0, <1>0
    <3>5. new \in map' /\ new.producer = cur /\ new.key = a.key /\ new.view = a.view
      BY <1>0, Zenon
    <3> QED BY <3>4, <3>5, <2>2, SMTT(30) DEF Touches
  <2>3. CASE ~Touches(a, k, b)
    <3>1. \A v \in Tasks : WroteSoFar(v, k, b)' <=> WroteSoFar(v, k, b)
      <4> SUFFICES ASSUME NEW v \in Tasks, NEW i \in DOMAIN prog[v].args, Touches(prog[v].args[i], k, b)
                   PROVE  Registered(v, i)' <=> Registered(v, i)
        BY Zenon DEF WroteSoFar, Insert
      <4>1. ~(v = cur /\ i = at.i)
        BY <2>3, <1>0, Zenon
      <4> QED BY <4>1, <2>0, <1>1, SMTT(30) DEF Registered, Insert, TypeInv
    <3>2. CASE IsConsumed(w)
      BY <3>2, Zenon
    <3>3. CASE ~IsConsumed(w)
      <4>1. PICK e \in map : e.producer = w /\ e.key = k /\ b \in Touched(e.view)
        BY <3>1, <3>3 DEF MapKeepsLast
      <4>2. e \notin Superseded(a)
        BY <4>1, <2>3, <1>0, OverlapAssumption, Zenon DEF Superseded, Touches, TypeInv
      <4> QED BY <4>1, <4>2, <1>0
    <3> QED BY <3>2, <3>3
  <2> QED BY <2>2, <2>3
<1>5. DepsTaken'
  BY <1>1, <1>3, SameProgram, Zenon DEF DepsTaken, Insert
<1>6. ReadsWaitForWriters'
  BY <1>3, SameProgram, Zenon DEF ReadsWaitForWriters, Insert
<1> QED BY <1>1, <1>2, <1>4, <1>5, <1>6

(* An argument neither read nor written is neither looked up nor registered. *)
LEMMA SkipArgPreserves ==
    ASSUME IInv, SkipArg
    PROVE  IInv'
<1> USE DEF IInv
<1>1. /\ at' = [i |-> at.i + 1, looked |-> FALSE] /\ at.i \in Nat \ {0}
      /\ \A t \in Tasks : \A k, b : ReadSoFar(t, k, b)' => ReadSoFar(t, k, b)
      /\ WalkInv'
  BY PassArg, Zenon DEF SkipArg
<1>2. TypeInv'
  BY <1>1, SameProgram DEF TypeInv, SkipArg
<1>3. \A u : (HasEnded(u)' <=> HasEnded(u)) /\ (IsConsumed(u)' <=> IsConsumed(u))
  BY Zenon DEF SkipArg, HasEnded, IsConsumed
<1>4. \A t \in Tasks : \A k, b : WroteSoFar(t, k, b)' <=> WroteSoFar(t, k, b)
  <2> SUFFICES ASSUME NEW t \in Tasks, NEW i \in DOMAIN prog[t].args, IsWrite(prog[t].args[i])
               PROVE  Registered(t, i)' <=> Registered(t, i)
    BY DEF WroteSoFar, SkipArg
  <2>1. t \in Nat /\ i \in Nat
    BY ProgramFacts, SMTT(30) DEF TypeInv, Tasks
  <2>2. ~(t = cur /\ i = at.i)
    BY Zenon DEF SkipArg, Args
  <2> QED BY <2>1, <2>2, <1>1 DEF Registered, SkipArg, TypeInv
<1>5. MapKeepsLast'
  BY <1>3, <1>4, SameProgram DEF MapKeepsLast, SkipArg
<1>6. DepsTaken'
  BY <1>1, <1>3, SameProgram, Zenon DEF DepsTaken, SkipArg
<1>7. ReadsWaitForWriters'
  BY <1>3, SameProgram, Zenon DEF ReadsWaitForWriters, SkipArg
<1> QED BY <1>1, <1>2, <1>5, <1>6, <1>7

(* Publication hands over to the next task; what is dropped from the fanin   *)
(* has ended.                                                                *)
LEMMA PublishPreserves ==
    ASSUME IInv, Publish
    PROVE  IInv'
<1> USE DEF IInv
<1>0. /\ cur \in Tasks /\ at.i = Len(prog[cur].args) + 1
      /\ Len(prog[cur].args) \in Nat /\ DOMAIN prog[cur].args = 1..Len(prog[cur].args)
      /\ cur \in Nat /\ Len(prog) \in Nat /\ cur' = cur + 1 /\ at'.i = 1 /\ ~at'.looked
  BY ProgramFacts DEF Publish, Args, TypeInv, FirstArg
<1>1. TypeInv'
  <2>1. deps' \in [Tasks -> SUBSET Tasks] /\ kept' \in [Tasks -> SUBSET Tasks]
    BY Zenon DEF TypeInv, Publish
  <2>2. cur' \in 1..(Len(prog) + 1)
    BY <1>0 DEF Tasks
  <2>3. state' \in [Tasks -> States]
    BY Zenon DEF TypeInv, Publish, States
  <2>4. at' = [i |-> at'.i, looked |-> at'.looked] /\ at'.i \in Nat \ {0} /\ at'.looked \in BOOLEAN
    BY DEF Publish, FirstArg
  <2> QED BY <2>1, <2>2, <2>3, <2>4, SameProgram DEF TypeInv, Publish
<1>2. \A u \in Tasks : (HasEnded(u)' <=> HasEnded(u)) /\ (IsConsumed(u)' <=> IsConsumed(u))
  BY Zenon DEF Publish, HasEnded, IsConsumed, TypeInv
<1>3. WalkInv'
  <2>1. \A t \in Tasks : t \in Nat
    BY <1>0 DEF Tasks
  <2>2. \A t \in Tasks : t < cur' => state'[t] \notin {"FREE", "BUILDING"}
    BY <1>0, <2>1 DEF WalkInv, Publish, TypeInv
  <2>3. \A t \in Tasks : t >= cur' => state'[t] = "FREE"
    BY <1>0, <2>1 DEF WalkInv, Publish, TypeInv
  <2>4. cur' \in Tasks => Len(prog[cur'].args) \in Nat
    BY ProgramFacts, Zenon DEF TypeInv
  <2>5. cur' \in Tasks => state'[cur'] = "FREE"
    BY <2>1, <2>3, <1>0
  <2>6. cur' \in Tasks => at'.i <= Len(prog[cur'].args) + 1 /\ ~at'.looked
    BY <2>4, <1>0
  <2>7. \A t \in Tasks : t > cur' => state'[t] = "FREE"
    BY <2>1, <2>3, <1>0
  <2>8. Args' = prog[cur'].args /\ at' = FirstArg' /\ Tasks' = Tasks
    BY SameProgram, Zenon DEF Publish, Args, FirstArg
  <2> QED BY <2>2, <2>5, <2>6, <2>7, <2>8 DEF WalkInv
<1>4. ASSUME NEW t \in Tasks, NEW i \in DOMAIN prog[t].args
      PROVE  (Registered(t, i)' <=> Registered(t, i)) /\ (LookedUp(t, i)' => LookedUp(t, i))
  <2>1. t \in Nat /\ i \in Nat /\ i >= 1 /\ (t = cur => i < at.i)
    BY <1>0, ProgramFacts, SMTT(30) DEF TypeInv, Tasks
  <2> QED BY <2>1, <1>0 DEF Registered, LookedUp
<1>5. MapKeepsLast'
  <2>1. \A t \in Tasks : \A k, b : WroteSoFar(t, k, b)' <=> WroteSoFar(t, k, b)
    BY <1>4 DEF WroteSoFar, Publish
  <2> QED BY <2>1, <1>2, SameProgram DEF MapKeepsLast, Publish
<1>6. DepsTaken'
  <2>1. \A t \in Tasks : \A k, b : ReadSoFar(t, k, b)' => ReadSoFar(t, k, b)
    BY <1>4, Zenon DEF ReadSoFar, Publish
  <2>2. \A t, w \in Tasks : w \in deps[t] => w \in deps'[t] \/ HasEnded(w)
    BY Zenon DEF Publish, TypeInv, IsConsumed, HasEnded
  <2> QED BY <2>1, <2>2, <1>2, SameProgram DEF DepsTaken, Publish
<1>7. ReadsWaitForWriters'
  BY <1>2, SameProgram, Zenon DEF ReadsWaitForWriters, Publish
<1> QED BY <1>1, <1>3, <1>5, <1>6, <1>7

-----------------------------------------------------------------------------
(* IInv is inductive.                                                        *)
LEMMA NextPreserves == IInv /\ [Next]_vars => IInv'
<1> SUFFICES ASSUME IInv, [Next]_vars PROVE IInv'
  OBVIOUS
<1>1. CASE Begin
  BY <1>1, BeginPreserves, Zenon
<1>2. CASE TakeProducers
  BY <1>2, TakeProducersPreserves, Zenon
<1>3. CASE Insert
  BY <1>3, InsertPreserves, Zenon
<1>4. CASE SkipArg
  BY <1>4, SkipArgPreserves, Zenon
<1>5. CASE Publish
  BY <1>5, PublishPreserves, Zenon
<1>6. ASSUME NEW t \in Tasks, End(t) \/ Consume(t) \/ Erase(t) PROVE IInv'
  BY <1>6, EndPreserves, ConsumePreserves, ErasePreserves, Zenon
<1>7. CASE UNCHANGED vars
  <2>1. prog' = prog /\ state' = state /\ cur' = cur /\ at' = at /\ map' = map /\ deps' = deps /\ kept' = kept
    BY <1>7, Zenon DEF vars
  <2>2. \A u : (HasEnded(u)' <=> HasEnded(u)) /\ (IsConsumed(u)' <=> IsConsumed(u))
    BY <2>1, Zenon DEF HasEnded, IsConsumed
  <2>3. TypeInv' /\ WalkInv'
    BY <2>1, SameProgram, Zenon DEF IInv, TypeInv, WalkInv, Args
  <2>4. \A t, k, b : (WroteSoFar(t, k, b)' <=> WroteSoFar(t, k, b)) /\ (ReadSoFar(t, k, b)' <=> ReadSoFar(t, k, b))
    BY <2>1, SMTT(30) DEF WroteSoFar, ReadSoFar, Registered, LookedUp
  <2>5. MapKeepsLast' /\ DepsTaken' /\ ReadsWaitForWriters'
    BY <2>1, <2>2, <2>4, SameProgram DEF IInv, MapKeepsLast, DepsTaken, ReadsWaitForWriters
  <2> QED BY <2>3, <2>5 DEF IInv
<1> QED BY <1>1, <1>2, <1>3, <1>4, <1>5, <1>6, <1>7 DEF Next

(* For every program whose tasks do not read what they have just overwritten *)
(* and every conservative overlap test: infer_deps, insert and               *)
(* erase_task_outputs between them never lose the edge to the last writer of *)
(* a byte a task reads.                                                      *)
THEOREM NoDependencyLost == Spec => []ReadsWaitForWriters
<1>1. Init => IInv
  BY InitInv, Zenon
<1>2. IInv /\ [Next]_vars => IInv'
  BY NextPreserves, Zenon
<1>3. IInv => ReadsWaitForWriters
  BY Zenon DEF IInv
<1> QED BY <1>1, <1>2, <1>3, PTL DEF Spec
=============================================================================
