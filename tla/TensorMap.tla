----------------------------- MODULE TensorMap -----------------------------
(***************************************************************************)
(* Dependency inference: the orchestrator walks the tensor arguments of    *)
(* each submitted task, looks up the live producers of the bytes it reads  *)
(* and registers it as the producer of the bytes it writes, while tasks    *)
(* that are consumed take their entries out again on the scheduler's       *)
(* thread.  Lookup, insert and erase are each one hold of the map's mutex. *)
(*                                                                         *)
(* Touched and Overlap say which bytes a view has and what the overlap     *)
(* test answers; TensorOverlap holds the code's test.  One run's tasks are *)
(* modelled: entries of other runs have other keys.                        *)
(***************************************************************************)
EXTENDS Naturals, Sequences

CONSTANTS
    Keys,           \* TensorKeys: whole backings
    Views,
    Touched(_),     \* the bytes of a view
    OverlapOf(_, _),
    Programs        \* sequences of tasks: arguments (those of all members, for a
                    \* group), explicit dependencies, and which of them it keeps

Tags == {"INPUT", "INOUT", "OUTPUT", "OUTPUT_EXISTING", "NO_DEP"}
IsRead(a) == a.tag \in {"INPUT", "INOUT"}
IsWrite(a) == a.tag \in {"INOUT", "OUTPUT", "OUTPUT_EXISTING"}
Touches(a, k, b) == a.key = k /\ b \in Touched(a.view)

(* The overlap test is conservative: NONE and COVERED can be relied on.      *)
ASSUME OverlapAssumption ==
    \A p, e \in Views :
      /\ OverlapOf(p, e) = "NONE" => Touched(p) \cap Touched(e) = {}
      /\ OverlapOf(p, e) = "COVERED" => Touched(e) \subseteq Touched(p)
(* No argument reads bytes an earlier argument of its task only writes: its  *)
(* lookup would find the task itself.                                        *)
ReadsFirst(args) ==
    \A i, j \in DOMAIN args :
      (i < j /\ IsWrite(args[i]) /\ ~IsRead(args[i]) /\ IsRead(args[j]) /\ args[i].key = args[j].key)
        => Touched(args[i].view) \cap Touched(args[j].view) = {}
ASSUME ProgramsAssumption ==
    \A p \in Programs :
      /\ p = [t \in 1..Len(p) |-> p[t]] /\ Len(p) \in Nat
      /\ \A t \in 1..Len(p) :
           /\ Len(p[t].args) \in Nat /\ DOMAIN p[t].args = 1..Len(p[t].args)
           /\ \A i \in DOMAIN p[t].args :
                p[t].args[i].tag \in Tags /\ p[t].args[i].key \in Keys /\ p[t].args[i].view \in Views
           /\ ReadsFirst(p[t].args)
           /\ p[t].after \subseteq 1..(t - 1) /\ p[t].keeps \subseteq p[t].after

VARIABLES
    prog,    \* the tasks the orchestration submits, in order
    state,   \* per task: FREE, BUILDING, LIVE, ENDED, CONSUMED, ERASED
    cur,     \* the task being submitted
    at,      \* its next argument, and whether the producers for it are taken
    map,     \* entries: key, view, producer
    deps,    \* the producers a task waits for
    kept     \* those of them it keeps from being consumed

vars == <<prog, state, cur, at, map, deps, kept>>

Tasks == 1..Len(prog)
FirstArg == [i |-> 1, looked |-> FALSE]
Init ==
    /\ prog \in Programs
    /\ state = [t \in Tasks |-> "FREE"]
    /\ cur = 1 /\ at = FirstArg /\ map = {}
    /\ deps = [t \in Tasks |-> {}] /\ kept = [t \in Tasks |-> {}]

-----------------------------------------------------------------------------
(* infer_deps. *)
Begin ==
    /\ cur \in Tasks /\ state[cur] = "FREE"
    /\ state' = [state EXCEPT ![cur] = "BUILDING"]
    /\ deps' = [deps EXCEPT ![cur] = prog[cur].after]
    /\ kept' = [kept EXCEPT ![cur] = prog[cur].keeps]
    /\ UNCHANGED <<prog, cur, at, map>>

Args == prog[cur].args
Walking == cur \in Tasks /\ state[cur] = "BUILDING" /\ at.i \in DOMAIN Args
NextArg == at' = [i |-> at.i + 1, looked |-> FALSE]

(* lookup_overlapping; a task is not its own producer.                       *)
Producers(a) == {e.producer : e \in {f \in map : f.key = a.key /\ OverlapOf(a.view, f.view) # "NONE"}}
TakeProducers ==
    /\ Walking /\ IsRead(Args[at.i]) /\ ~at.looked
    /\ deps' = [deps EXCEPT ![cur] = @ \cup (Producers(Args[at.i]) \ {cur})]
    /\ kept' = [kept EXCEPT ![cur] = @ \cup (Producers(Args[at.i]) \ {cur})]
    /\ IF IsWrite(Args[at.i]) THEN at' = [at EXCEPT !.looked = TRUE] ELSE NextArg
    /\ UNCHANGED <<prog, state, cur, map>>

(* insert: what the new view covers whole is superseded.                     *)
Superseded_Reached(a) == {e \in map : e.key = a.key /\ OverlapOf(a.view, e.view) # "NONE"}
Superseded(a) == {e \in map : e.key = a.key /\ OverlapOf(a.view, e.view) = "COVERED"}
Insert ==
    /\ Walking /\ IsWrite(Args[at.i]) /\ (IsRead(Args[at.i]) => at.looked)
    /\ map' = (map \ Superseded(Args[at.i])) \cup
              {[key |-> Args[at.i].key, view |-> Args[at.i].view, producer |-> cur]}
    /\ NextArg
    /\ UNCHANGED <<prog, state, cur, deps, kept>>

SkipArg ==
    /\ Walking /\ ~IsRead(Args[at.i]) /\ ~IsWrite(Args[at.i])
    /\ NextArg
    /\ UNCHANGED <<prog, state, cur, map, deps, kept>>

HasEnded(t) == state[t] \in {"ENDED", "CONSUMED", "ERASED"}
IsConsumed(t) == state[t] \in {"CONSUMED", "ERASED"}
(* The fanin is wired against the producers that are not consumed yet, or,   *)
(* when they are not kept, that have not ended.                              *)
Publish ==
    /\ cur \in Tasks /\ state[cur] = "BUILDING" /\ at.i = Len(Args) + 1
    /\ LET gone == {p \in Tasks : IF p \in kept[cur] THEN IsConsumed(p) ELSE HasEnded(p)}
       IN  deps' = [deps EXCEPT ![cur] = @ \ gone] /\ kept' = [kept EXCEPT ![cur] = @ \ gone]
    /\ state' = [state EXCEPT ![cur] = "LIVE"]
    /\ cur' = cur + 1 /\ at' = FirstArg
    /\ UNCHANGED <<prog, map>>

-----------------------------------------------------------------------------
(* A task runs once its producers have ended. *)
End(t) ==
    /\ state[t] = "LIVE" /\ \A p \in deps[t] : HasEnded(p)
    /\ state' = [state EXCEPT ![t] = "ENDED"]
    /\ UNCHANGED <<prog, cur, at, map, deps, kept>>
(* on_consumed, once the last reference is gone: the state first, the        *)
(* entries after it.                                                         *)
Consume(t) ==
    /\ state[t] = "ENDED" /\ \A u \in Tasks : state[u] = "LIVE" => t \notin kept[u]
    /\ state' = [state EXCEPT ![t] = "CONSUMED"]
    /\ UNCHANGED <<prog, cur, at, map, deps, kept>>
(* erase_task_outputs, for the keys the task wrote.                          *)
OutputKeys(t) == {prog[t].args[i].key : i \in {j \in DOMAIN prog[t].args : IsWrite(prog[t].args[j])}}
Erased(t) == {e \in map : e.key \in OutputKeys(t) /\ e.producer = t}
Erase(t) ==
    /\ state[t] = "CONSUMED"
    /\ map' = map \ Erased(t)
    /\ state' = [state EXCEPT ![t] = "ERASED"]
    /\ UNCHANGED <<prog, cur, at, deps, kept>>

Next ==
    \/ Begin \/ TakeProducers \/ Insert \/ SkipArg \/ Publish
    \/ \E t \in Tasks : End(t) \/ Consume(t) \/ Erase(t)
Spec == Init /\ [][Next]_vars

-----------------------------------------------------------------------------
Writes(t, k, b) == \E i \in DOMAIN prog[t].args : IsWrite(prog[t].args[i]) /\ Touches(prog[t].args[i], k, b)
(* w is the last task before t to write byte b of the backing k.             *)
LastWriter(w, t, k, b) ==
    w \in 1..(t - 1) /\ Writes(w, k, b) /\ \A v \in (w + 1)..(t - 1) : ~Writes(v, k, b)
(* t reads a byte that w is the last to have written before it.              *)
ReadsFrom(t, w) ==
    \E i \in DOMAIN prog[t].args :
      /\ IsRead(prog[t].args[i])
      /\ \E b \in Touched(prog[t].args[i].view) : LastWriter(w, t, prog[t].args[i].key, b)

(* No dependency is lost: when a task has run, the last task submitted       *)
(* before it to write any byte it reads has run too, however views overlap,  *)
(* whatever was superseded and whoever was consumed in between.              *)
ReadsWaitForWriters ==
    \A t, w \in Tasks : HasEnded(t) /\ ReadsFrom(t, w) => HasEnded(w)
=============================================================================
