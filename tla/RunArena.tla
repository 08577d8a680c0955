------------------------------ MODULE RunArena ------------------------------
(***************************************************************************)
(* The pipeline-set leases of the runs: the RunResourceArena, and how the  *)
(* Orchestrator hands its sets to the runs of the FIFO under runs_mu_.  A  *)
(* lease names a set and its generation; a set is free, or in use by the   *)
(* run whose lease has the set's current generation.                       *)
(*                                                                         *)
(* An operator Op_Word stated before Op is Op with one bug of the kind the *)
(* code guards against; nothing uses it.                                   *)
(***************************************************************************)
EXTENDS Integers, FiniteSets

CONSTANTS
    Grant,         \* run-resource sets of the arena (granted_)
    MaxRuns,       \* runs begun
    MaxTasks       \* tasks of a run, one for each worker

ASSUME GrantAssumption == Grant \in Nat \ {0}
ASSUME BoundsAssumption == MaxRuns \in Nat /\ MaxTasks \in Nat

Runs == 1 .. MaxRuns
Tasks == 1 .. MaxTasks
Sets == 1 .. Grant
Lease == [set : 0 .. Grant, gen : Nat]
NoLease == [set |-> 0, gen |-> 0]

VARIABLES
    gen, inUse,    \* RunResourceArena: generation of a set, and that it is lent
    lease,         \* the lease of a run
    task, stamp    \* per task: life, pipeline_lease

arenaVars == <<gen, inUse, lease, stamp>>

-----------------------------------------------------------------------------
Terminal(p) == p \in {"COMPLETED", "FAILED"}
FirstRun(q) == CHOOSE r \in q : \A p \in q : r <= p
Rank(S, x) == Cardinality({y \in S : y < x})

(* RunResourceArena::owns, with the sets in use given. *)
OwnsIn(r, used) ==
    LET l == lease[r] IN l.gen # 0 /\ gen[l.set] = l.gen /\ used[l.set]
Owns(r) == OwnsIn(r, inUse)

(* refresh_leases_locked: the head unless terminal, then PREPARED runs in    *)
(* FIFO order, each taking the lowest free set, until one cannot.            *)
Walk_Skip(q, ph) == {r \in q : IF r = FirstRun(q) THEN ~Terminal(ph[r]) ELSE ph[r] = "PREPARED"}
Walk(q, ph) ==
    {r \in q : \A p \in q : p <= r =>
        IF p = FirstRun(q) THEN ~Terminal(ph[p]) ELSE ph[p] = "PREPARED"}
Needy(q, ph, used) == {r \in Walk(q, ph) : ~OwnsIn(r, used)}
FreeSets(d, used) == {s \in Sets : s <= d /\ ~used[s]}
Given(q, ph, d, used) ==
    {g \in Needy(q, ph, used) \X FreeSets(d, used) :
        Rank(Needy(q, ph, used), g[1]) = Rank(FreeSets(d, used), g[2])}

(* Publishing a lease and restamping the slots registered under it. *)
Restamped_New(G, r, k) == stamp[r][k]
Restamped(G, r, k) ==
    IF task[r][k] # "none" /\ \E s \in Sets : <<r, s>> \in G THEN lease'[r] ELSE stamp[r][k]
Lend(G, used) ==
    /\ gen' = [s \in Sets |-> IF \E r \in Runs : <<r, s>> \in G THEN gen[s] + 1 ELSE gen[s]]
    /\ inUse' = [s \in Sets |-> used[s] \/ \E r \in Runs : <<r, s>> \in G]
    /\ lease' = [r \in Runs |->
            IF \E s \in Sets : <<r, s>> \in G
            THEN LET s == CHOOSE s \in Sets : <<r, s>> \in G IN [set |-> s, gen |-> gen[s] + 1]
            ELSE lease[r]]
    /\ stamp' = [r \in Runs |-> [k \in Tasks |-> Restamped(G, r, k)]]

-----------------------------------------------------------------------------
(* The runs of q have the leases: theirs are owned, owners are among them    *)
(* and have different sets, and a set in use has an owner.                   *)
Exclusive(q, used) ==
    /\ \A r \in q : lease[r] # NoLease => OwnsIn(r, used)
    /\ \A r \in Runs : OwnsIn(r, used) => r \in q
    /\ \A r, p \in Runs : OwnsIn(r, used) /\ OwnsIn(p, used) /\ lease[r].set = lease[p].set => r = p
    /\ \A s \in Sets : used[s] => \E r \in q : OwnsIn(r, used) /\ lease[r].set = s

ArenaTypes ==
    /\ gen \in [Sets -> Nat]
    /\ lease \in [Runs -> Lease]
    /\ \A r \in Runs : lease[r] # NoLease => lease[r].set \in Sets /\ lease[r].gen \in 1 .. gen[lease[r].set]

(* No run of q owns a lease behind one that owns none. *)
PrefixIn(q, used) == \A p, r \in q : p < r /\ OwnsIn(r, used) => OwnsIn(p, used)
=============================================================================
