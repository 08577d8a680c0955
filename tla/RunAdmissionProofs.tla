------------------------- MODULE RunAdmissionProofs -------------------------
(***************************************************************************)
(* Leases are exclusive and follow the FIFO, for any number of users,      *)
(* runs, tasks and resource sets and every interleaving of the sections.   *)
(* Three parts: what lending and returning do, the invariant with the      *)
(* calls and sections that leave leases alone, and the sections that move  *)
(* them.                                                                   *)
(***************************************************************************)
EXTENDS RunAdmission, FiniteSetTheorems, WellFoundedInduction, TLAPS

(***************************************************************************)
(* Lending sets to runs and returning them: Given pairs runs without a     *)
(* lease and free sets by their ranks, one to one and from the lowest on.  *)
(***************************************************************************)

(* A run that owns its set has a lease, and the lease names a set.           *)
LEMMA OwnerLeased ==
    ASSUME ArenaTypes, NEW r \in Runs, NEW used, OwnsIn(r, used)
    PROVE  lease[r] # NoLease /\ lease[r].set \in Sets
<1>1. NoLease.gen = 0
  BY DEF NoLease
<1>2. lease[r].gen # 0
  BY Zenon DEF OwnsIn
<1>3. lease[r] # NoLease
  BY <1>1, <1>2, Zenon
<1>4. QED
  BY <1>3, Zenon DEF ArenaTypes

(* A finite set of naturals has a least element: the least of its initial    *)
(* segments belongs to it.                                                   *)
LEMMA FirstRunIn ==
    ASSUME NEW q \in SUBSET Nat, IsFiniteSet(q), q # {}
    PROVE  FirstRun(q) \in q /\ \A p \in q : FirstRun(q) <= p
<1> DEFINE Upto(x) == {y \in q : y <= x}
           T == {Upto(x) : x \in q}
<1>1. T \subseteq FiniteSubsetsOf(q) /\ T # {}
  <2>1. \A x \in q : Upto(x) \in SUBSET q /\ IsFiniteSet(Upto(x))
    BY FS_Subset, Zenon
  <2>2. QED
    BY <2>1, Zenon DEF FiniteSubsetsOf
<1>2. PICK U \in T : \A V \in T : ~(<<V, U>> \in StrictSubsetOrdering(q))
  <2> HIDE DEF T
  <2>1. QED
    BY <1>1, FS_StrictSubsetOrderingWellFounded, WFMin, Zenon
<1>3. PICK x \in q : U = Upto(x)
  OBVIOUS
<1>4. ASSUME NEW y \in q PROVE x <= y
  <2> SUFFICES ASSUME y < x PROVE FALSE
    OBVIOUS
  <2>1. \A z \in q : z <= y => z <= x
    OBVIOUS
  <2>2. Upto(y) \in SUBSET U /\ x \in U /\ x \notin Upto(y)
    <3>1. x <= x /\ ~(x <= y)
      OBVIOUS
    <3>2. QED
      BY <1>3, <2>1, <3>1, Zenon
  <2>3. Upto(y) \in SUBSET q /\ U \in SUBSET q /\ Upto(y) \in T
    BY <1>3, Zenon
  <2> HIDE DEF T, Upto
  <2>4. <<Upto(y), U>> \in StrictSubsetOrdering(q)
    BY <2>2, <2>3, Zenon DEF StrictSubsetOrdering
  <2>5. QED
    BY <1>2, <2>3, <2>4, Zenon
<1>5. QED
  BY <1>4, Zenon DEF FirstRun

(* Ranks in a finite set of naturals grow with the elements. *)
LEMMA RankGrows ==
    ASSUME NEW S \in SUBSET Nat, IsFiniteSet(S), NEW a \in S, NEW b \in S, a < b
    PROVE  Rank(S, a) \in Nat /\ Rank(S, b) \in Nat /\ Rank(S, a) < Rank(S, b)
<1> DEFINE A == {z \in S : z < a}
           B == {z \in S : z < b}
<1>1. IsFiniteSet(A) /\ IsFiniteSet(B)
  BY FS_Subset, Zenon
<1>2. A \in SUBSET B /\ a \in B /\ a \notin A
  <2>1. \A z \in S : z < a => z < b
    OBVIOUS
  <2>2. ~(a < a)
    OBVIOUS
  <2>3. QED
    BY <2>1, <2>2, Zenon
<1>3. Rank(S, a) = Cardinality(A) /\ Rank(S, b) = Cardinality(B)
  BY Zenon DEF Rank
<1> HIDE DEF A, B
<1>4. Cardinality(A) <= Cardinality(B) /\ Cardinality(A) # Cardinality(B)
  BY <1>1, <1>2, FS_Subset, Zenon
<1>5. Cardinality(A) \in Nat /\ Cardinality(B) \in Nat
  BY <1>1, FS_CardinalityType, Zenon
<1>6. QED
  BY <1>3, <1>4, <1>5

(* Elements of a finite set of naturals with equal ranks are equal. *)
LEMMA RankInjective ==
    ASSUME NEW S \in SUBSET Nat, IsFiniteSet(S), NEW x \in S, NEW y \in S, Rank(S, x) = Rank(S, y)
    PROVE  x = y
<1>1. x < y \/ y < x \/ x = y
  OBVIOUS
<1>2. QED
  BY <1>1, RankGrows

(* The ranks in a set of n naturals are 0 up to n - 1. *)
LEMMA RankOnto ==
    ASSUME NEW K \in SUBSET Nat, IsFiniteSet(K)
    PROVE  /\ Cardinality(K) \in Nat
           /\ \A k \in K : Rank(K, k) \in 0 .. Cardinality(K) - 1
           /\ \A j \in 0 .. Cardinality(K) - 1 : \E k \in K : Rank(K, k) = j
<1> DEFINE n == Cardinality(K)
           f == [k \in K |-> Rank(K, k)]
<1>1. n \in Nat
  BY FS_CardinalityType, Zenon
<1>2. ASSUME NEW k \in K PROVE Rank(K, k) \in 0 .. n - 1
  <2> DEFINE B == {y \in K : y < k}
  <2>1. B \in SUBSET K /\ k \notin B
    OBVIOUS
  <2> HIDE DEF B
  <2>2. IsFiniteSet(B) /\ Cardinality(B) <= n /\ Cardinality(B) # n
    BY <2>1, FS_Subset, Zenon
  <2>3. Cardinality(B) \in Nat
    BY <2>2, FS_CardinalityType, Zenon
  <2>4. Cardinality(B) \in 0 .. n - 1
    <3> HIDE DEF n
    <3>1. QED
      BY <1>1, <2>2, <2>3
  <2>5. QED
    BY <2>4, Zenon DEF Rank, B
<1>3. f \in Injection(K, 0 .. n - 1)
  <2>1. f \in [K -> 0 .. n - 1]
    BY <1>2, Zenon
  <2>2. \A a, b \in K : f[a] = f[b] => a = b
    BY RankInjective, Zenon
  <2> HIDE DEF f
  <2>3. QED
    BY <2>1, <2>2, Zenon DEF Injection, IsInjective
<1>4. f \in Surjection(K, 0 .. n - 1)
  <2> HIDE DEF f
  <2>1. IsFiniteSet(0 .. n - 1) /\ Cardinality(0 .. n - 1) = n
    <3> HIDE DEF n
    <3>1. QED
      BY <1>1, FS_Interval
  <2>2. QED
    BY <1>3, <2>1, FS_Injection, Zenon
<1>5. \A j \in 0 .. n - 1 : \E k \in K : f[k] = j
  <2> HIDE DEF f
  <2>1. QED
    BY <1>4, Zenon DEF Surjection
<1>6. QED
  BY <1>1, <1>2, <1>5, Zenon

-----------------------------------------------------------------------------
(* Given assigns sets and runs one to one. *)
LEMMA GivenMatches ==
    ASSUME NEW q \in SUBSET Runs, NEW ph, NEW d, NEW used
    PROVE  /\ Given(q, ph, d, used) \subseteq q \X Sets
           /\ \A g \in Given(q, ph, d, used) : ~OwnsIn(g[1], used) /\ ~used[g[2]]
           /\ \A g, h \in Given(q, ph, d, used) : g[1] = h[1] <=> g[2] = h[2]
<1> DEFINE N == Needy(q, ph, used)
           F == FreeSets(d, used)
<1>1. N \in SUBSET q /\ \A r \in N : ~OwnsIn(r, used)
  BY Zenon DEF Needy, Walk
<1>2. F \in SUBSET Sets /\ \A s \in F : ~used[s]
  BY Zenon DEF FreeSets
<1>3. IsFiniteSet(N) /\ N \in SUBSET Nat
  <2>1. IsFiniteSet(Runs) /\ Runs \in SUBSET Nat
    BY BoundsAssumption, FS_Interval DEF Runs
  <2>2. N \in SUBSET Runs
    BY <1>1, Zenon
  <2> HIDE DEF N
  <2>3. QED
    BY <2>1, <2>2, FS_Subset, Zenon
<1>4. IsFiniteSet(F) /\ F \in SUBSET Nat
  <2>1. IsFiniteSet(Sets) /\ Sets \in SUBSET Nat
    BY GrantAssumption, FS_Interval DEF Sets
  <2> HIDE DEF F
  <2>2. QED
    BY <1>2, <2>1, FS_Subset, Zenon
<1>5. ASSUME NEW g \in Given(q, ph, d, used)
      PROVE  g = <<g[1], g[2]>> /\ g[1] \in N /\ g[2] \in F /\ Rank(N, g[1]) = Rank(F, g[2])
  BY DEF Given
<1> HIDE DEF N, F
<1>6. ASSUME NEW g \in Given(q, ph, d, used), NEW h \in Given(q, ph, d, used) PROVE g[1] = h[1] <=> g[2] = h[2]
  BY <1>3, <1>4, <1>5, RankInjective
<1>7. QED
  BY <1>1, <1>2, <1>5, <1>6

-----------------------------------------------------------------------------
(* Exclusive in the next state, for a set q of this one. *)
ExclusiveNext(q) ==
    /\ \A r \in q : lease'[r] # NoLease => OwnsIn(r, inUse)'
    /\ \A r \in Runs : OwnsIn(r, inUse)' => r \in q
    /\ \A r, p \in Runs : OwnsIn(r, inUse)' /\ OwnsIn(p, inUse)' /\ lease'[r].set = lease'[p].set => r = p
    /\ \A s \in Sets : inUse'[s] => \E r \in q : OwnsIn(r, inUse)' /\ lease'[r].set = s

(* Lending keeps leases exclusive: a set given was free, so nobody loses it, *)
(* and its generation moves past every lease that names it.                  *)
LEMMA LendKeeps ==
    ASSUME ArenaTypes, NEW q \in SUBSET Runs, NEW p \in SUBSET q, NEW ph, NEW d, NEW used \in [Sets -> BOOLEAN],
           Exclusive(q, used), Lend(Given(p, ph, d, used), used)
    PROVE  /\ ArenaTypes' /\ inUse' \in [Sets -> BOOLEAN] /\ ExclusiveNext(q)
           /\ \A r \in Runs \ q : lease'[r] = lease[r]
           /\ \A r \in Runs : OwnsIn(r, inUse)' <=> OwnsIn(r, used) \/ \E s \in Sets : <<r, s>> \in Given(p, ph, d, used)
<1> DEFINE G == Given(p, ph, d, used)
           To(r, s) == <<r, s>> \in G
<1>1. /\ \A r \in Runs, s \in Sets : To(r, s) => r \in p /\ ~OwnsIn(r, used) /\ ~used[s]
      /\ \A r, x \in Runs, s \in Sets : To(r, s) /\ To(x, s) => r = x
      /\ \A r \in Runs, s, y \in Sets : To(r, s) /\ To(r, y) => s = y
  <2>1. /\ G \subseteq p \X Sets
        /\ \A g \in G : ~OwnsIn(g[1], used) /\ ~used[g[2]]
        /\ \A g, h \in G : g[1] = h[1] <=> g[2] = h[2]
    BY GivenMatches
  <2> HIDE DEF G
  <2>2. QED
    BY <2>1, Zenon
<1>2. /\ gen' = [s \in Sets |-> IF \E r \in Runs : To(r, s) THEN gen[s] + 1 ELSE gen[s]]
      /\ inUse' = [s \in Sets |-> used[s] \/ \E r \in Runs : To(r, s)]
      /\ lease' = [r \in Runs |->
            IF \E s \in Sets : To(r, s)
            THEN LET s == CHOOSE s \in Sets : To(r, s) IN [set |-> s, gen |-> gen[s] + 1]
            ELSE lease[r]]
  BY Zenon DEF Lend
<1> HIDE DEF G, To
<1>3. /\ gen \in [Sets -> Nat] /\ lease \in [Runs -> Lease]
      /\ \A r \in Runs : lease[r] # NoLease => lease[r].set \in Sets /\ lease[r].gen \in 1 .. gen[lease[r].set]
  BY Zenon DEF ArenaTypes
<1>4. \A r \in Runs, s \in Sets : To(r, s) =>
        /\ lease'[r] = [set |-> s, gen |-> gen[s] + 1] /\ lease'[r].set = s /\ lease'[r].gen = gen[s] + 1
        /\ gen'[s] = gen[s] + 1 /\ inUse'[s]
  <2> SUFFICES ASSUME NEW r \in Runs, NEW s \in Sets, To(r, s)
               PROVE  /\ lease'[r] = [set |-> s, gen |-> gen[s] + 1]
                      /\ gen'[s] = gen[s] + 1 /\ inUse'[s]
    OBVIOUS
  <2>1. (CHOOSE y \in Sets : To(r, y)) = s
    BY <1>1, Zenon
  <2>2. QED
    BY <1>2, <2>1, Zenon
<1>5. \A r \in Runs : (\A s \in Sets : ~To(r, s)) => lease'[r] = lease[r]
  BY <1>2, Zenon
<1>6. \A s \in Sets : (\A r \in Runs : ~To(r, s)) => gen'[s] = gen[s] /\ inUse'[s] = used[s]
  BY <1>2, Zenon
<1>7. gen' \in [Sets -> Nat] /\ inUse' \in [Sets -> BOOLEAN]
  BY SMTT(30), <1>2, <1>3
<1>8. \A s \in Sets : gen'[s] \in Nat /\ gen[s] \in Nat /\ gen[s] <= gen'[s]
  BY <1>2, <1>3
<1>9. ASSUME NEW r \in Runs
      PROVE  /\ lease'[r] \in Lease
             /\ lease'[r] # NoLease => lease'[r].set \in Sets /\ lease'[r].gen \in 1 .. gen'[lease'[r].set]
  <2>1. CASE \E s \in Sets : To(r, s)
    <3>1. PICK s \in Sets : To(r, s)
      BY <2>1, Zenon
    <3>2. /\ lease'[r] = [set |-> s, gen |-> gen[s] + 1] /\ lease'[r].set = s /\ lease'[r].gen = gen[s] + 1
          /\ gen'[s] = gen[s] + 1 /\ gen[s] \in Nat
      BY SMTT(30), <1>4, <1>8, <3>1
    <3>3. lease'[r] \in Lease
      BY <3>2, GrantAssumption, SMTT(30) DEF Lease, Sets
    <3>4. QED
      BY <3>2, <3>3
  <2>2. CASE \A s \in Sets : ~To(r, s)
    BY SMTT(30), <1>3, <1>5, <1>8, <2>2
  <2>3. QED
    BY <2>1, <2>2, Zenon
<1>10. ArenaTypes'
  <2>1. lease' \in [Runs -> Lease]
    BY <1>2, <1>9, Zenon
  <2>2. QED
    BY <1>7, <1>9, <2>1, Zenon DEF ArenaTypes
<1> DEFINE Own(r) == lease[r].gen # 0 /\ gen[lease[r].set] = lease[r].gen /\ used[lease[r].set]
           OwnNext(r) == lease'[r].gen # 0 /\ gen'[lease'[r].set] = lease'[r].gen /\ inUse'[lease'[r].set]
           Got(r) == \E s \in Sets : To(r, s)
<1>11. \A r \in Runs : Own(r) => lease[r] # NoLease
  BY DEF NoLease
<1>12. ASSUME NEW r \in Runs, Got(r) PROVE OwnNext(r) /\ r \in p /\ ~Own(r)
  <2>1. PICK s \in Sets : To(r, s)
    BY <1>12, Zenon
  <2>2. /\ lease'[r].set = s /\ lease'[r].gen = gen[s] + 1 /\ gen[s] \in Nat
        /\ gen'[s] = gen[s] + 1 /\ inUse'[s]
    BY <1>4, <1>8, <2>1, Zenon
  <2>3. OwnNext(r)
    BY <2>2
  <2>4. QED
    BY <1>1, <2>1, <2>3, Zenon DEF OwnsIn
<1>13. ASSUME NEW r \in Runs, ~Got(r)
       PROVE  lease'[r] = lease[r] /\ (OwnNext(r) <=> Own(r))
  <2>1. lease'[r] = lease[r]
    BY <1>5, <1>13, Zenon
  <2>2. CASE lease[r] = NoLease
    BY <2>1, <2>2 DEF NoLease
  <2>3. CASE lease[r] # NoLease /\ \E x \in Runs : To(x, lease[r].set)
    <3>1. lease[r].set \in Sets /\ lease[r].gen \in 1 .. gen[lease[r].set]
      BY <1>3, <2>3, Zenon
    <3>2. gen'[lease[r].set] = gen[lease[r].set] + 1 /\ ~used[lease[r].set]
      BY Zenon, <1>1, <1>4, <2>3, <3>1
    <3>3. gen'[lease[r].set] # lease[r].gen
      BY SMTT(30), <1>8, <3>1, <3>2
    <3>4. QED
      BY <2>1, <3>2, <3>3, Zenon
  <2>4. CASE lease[r] # NoLease /\ \A x \in Runs : ~To(x, lease[r].set)
    BY <1>3, <1>6, <2>1, <2>4
  <2>5. QED
    BY <2>2, <2>3, <2>4, Zenon
<1>14. /\ \A r \in q : lease[r] # NoLease => Own(r)
       /\ \A r \in Runs : Own(r) => r \in q
       /\ \A r, x \in Runs : Own(r) /\ Own(x) /\ lease[r].set = lease[x].set => r = x
       /\ \A s \in Sets : used[s] => \E r \in q : Own(r) /\ lease[r].set = s
  BY Zenon DEF Exclusive, OwnsIn
<1> HIDE DEF Own, OwnNext
<1>15. \A r \in q : lease'[r] # NoLease => OwnNext(r)
  BY <1>12, <1>13, <1>14, Zenon
<1>16. \A r \in Runs : OwnNext(r) => r \in q
  BY <1>12, <1>13, <1>14, Zenon
<1>17. ASSUME NEW r \in Runs, NEW x \in Runs, OwnNext(r), OwnNext(x), lease'[r].set = lease'[x].set PROVE r = x
  <2>1. ASSUME NEW a \in Runs, NEW c \in Runs, Got(a), ~Got(c), OwnNext(c), lease'[a].set = lease'[c].set PROVE FALSE
    <3>1. PICK s \in Sets : To(a, s)
      BY <2>1, Zenon
    <3>2. lease'[a].set = s /\ ~used[s]
      BY <1>1, <1>4, <3>1, Zenon
    <3>3. lease[c].set = s /\ Own(c)
      BY <1>13, <2>1, <3>2, Zenon
    <3>4. QED
      BY <3>2, <3>3, Zenon DEF Own
  <2>2. CASE Got(r) /\ Got(x)
    <3>1. PICK s \in Sets : To(r, s)
      BY <2>2, Zenon
    <3>2. PICK y \in Sets : To(x, y)
      BY <2>2, Zenon
    <3>3. lease'[r].set = s /\ lease'[x].set = y
      BY <1>4, <3>1, <3>2, Zenon
    <3>4. QED
      BY <1>1, <1>17, <3>1, <3>2, <3>3, Zenon
  <2>3. CASE ~Got(r) /\ ~Got(x)
    <3>1. Own(r) /\ Own(x) /\ lease[r].set = lease[x].set
      BY <1>13, <1>17, <2>3, Zenon
    <3>2. QED
      BY <1>14, <3>1, Zenon
  <2>4. QED
    BY <1>17, <2>1, <2>2, <2>3, Zenon
<1>18. ASSUME NEW s \in Sets, inUse'[s] PROVE \E r \in q : OwnNext(r) /\ lease'[r].set = s
  <2>1. CASE \E r \in Runs : To(r, s)
    <3>1. PICK r \in Runs : To(r, s)
      BY <2>1, Zenon
    <3>2. lease'[r].set = s /\ OwnNext(r) /\ r \in q
      BY <1>4, <1>12, <3>1, Zenon
    <3>3. QED
      BY <3>2, Zenon
  <2>2. CASE \A r \in Runs : ~To(r, s)
    <3>1. PICK r \in q : Own(r) /\ lease[r].set = s
      BY <1>6, <1>14, <1>18, <2>2, Zenon
    <3>2. OwnNext(r) /\ lease'[r].set = s
      BY <1>12, <1>13, <3>1, ZenonT(30)
    <3>3. QED
      BY <3>2, Zenon
  <2>3. QED
    BY <2>1, <2>2, Zenon
<1>19. ExclusiveNext(q)
  BY <1>15, <1>16, <1>17, <1>18 DEF ExclusiveNext, OwnsIn, OwnNext
<1>20. \A r \in Runs \ q : lease'[r] = lease[r]
  BY <1>12, <1>13, Zenon
<1>21. \A r \in Runs : OwnsIn(r, inUse)' <=> OwnsIn(r, used) \/ \E s \in Sets : <<r, s>> \in Given(p, ph, d, used)
  <2>1. \A r \in Runs : OwnNext(r) <=> Own(r) \/ Got(r)
    BY <1>12, <1>13, Zenon
  <2>2. QED
    BY <2>1, Zenon DEF OwnsIn, OwnNext, Own, To, G
<1>22. QED
  BY <1>7, <1>10, <1>19, <1>20, <1>21, Zenon

(* The sets in use once run r has left and back says that its lease went     *)
(* back to the arena.                                                        *)
UsedWithout(r, back) == [s \in Sets |-> inUse[s] /\ ~(back /\ s = lease[r].set)]

(* Returning a lease, if it is owned, and leaving the FIFO together keep     *)
(* leases exclusive.                                                         *)
LEMMA ReturnKeeps ==
    ASSUME ArenaTypes, inUse \in [Sets -> BOOLEAN], NEW q \in SUBSET Runs, Exclusive(q, inUse), NEW r \in Runs,
           NEW back \in BOOLEAN, OwnsIn(r, inUse) => back,
           back => lease[r].gen # 0 /\ gen[lease[r].set] = lease[r].gen
    PROVE  UsedWithout(r, back) \in [Sets -> BOOLEAN] /\ Exclusive(q \ {r}, UsedWithout(r, back))
<1> DEFINE used == UsedWithout(r, back)
<1>1. used \in [Sets -> BOOLEAN] /\ \A s \in Sets : used[s] <=> inUse[s] /\ ~(back /\ s = lease[r].set)
  BY Zenon DEF UsedWithout
<1> HIDE DEF used
<1>2. \A p \in Runs : lease[p].gen # 0 => lease[p] # NoLease
  BY DEF NoLease
<1>3. \A p \in Runs : lease[p] # NoLease => lease[p].set \in Sets
  BY Zenon DEF ArenaTypes
<1>4. \A p \in Runs : OwnsIn(p, used) => OwnsIn(p, inUse)
  BY <1>1, <1>2, <1>3, Zenon DEF OwnsIn
<1>6. ~OwnsIn(r, used)
  BY <1>1, <1>2, <1>3, <1>4, Zenon DEF OwnsIn
<1>7. ASSUME NEW p \in Runs, OwnsIn(p, inUse), p # r PROVE OwnsIn(p, used)
  <2>1. lease[p].set \in Sets /\ inUse[lease[p].set]
    BY <1>2, <1>3, <1>7 DEF OwnsIn
  <2>2. ASSUME back, lease[p].set = lease[r].set PROVE FALSE
    <3>1. OwnsIn(r, inUse)
      BY <2>1, <2>2, Zenon DEF OwnsIn
    <3>2. QED
      BY <1>7, <2>2, <3>1, Zenon DEF Exclusive
  <2>3. used[lease[p].set]
    BY <1>1, <2>1, <2>2, Zenon
  <2>4. QED
    BY <1>7, <2>3, Zenon DEF OwnsIn
<1>8. \A p \in q : p \in Runs
  OBVIOUS
<1>9. \A p \in q \ {r} : lease[p] # NoLease => OwnsIn(p, used)
  BY <1>7, <1>8, Zenon DEF Exclusive
<1>10. \A p \in Runs : OwnsIn(p, used) => p \in q \ {r}
  BY <1>4, <1>6, Zenon DEF Exclusive
<1>11. \A p, x \in Runs : OwnsIn(p, used) /\ OwnsIn(x, used) /\ lease[p].set = lease[x].set => p = x
  BY <1>4, Zenon DEF Exclusive
<1>12. ASSUME NEW s \in Sets, used[s] PROVE \E p \in q \ {r} : OwnsIn(p, used) /\ lease[p].set = s
  <2>1. inUse[s]
    BY <1>1, <1>12, Zenon
  <2>2. PICK p \in q : OwnsIn(p, inUse) /\ lease[p].set = s
    BY <2>1, Zenon DEF Exclusive
  <2>3. p # r
    BY <1>1, <1>12, <2>2, Zenon
  <2>4. QED
    BY <1>7, <1>8, <2>2, <2>3, Zenon
<1>13. Exclusive(q \ {r}, used)
  BY <1>9, <1>10, <1>11, <1>12, Zenon DEF Exclusive
<1>14. QED
  BY <1>1, <1>13, Zenon DEF used

-----------------------------------------------------------------------------
(* refresh_leases_locked serves the runs in FIFO order: a run ahead of one   *)
(* that got a set had a lease, or gets a set too.                            *)
LEMMA GivenInOrder ==
    ASSUME NEW q \in SUBSET Runs, NEW ph, NEW d, NEW used, NEW p \in q, NEW r \in q, p < r, ~OwnsIn(p, used),
           NEW s \in Sets, <<r, s>> \in Given(q, ph, d, used)
    PROVE  \E y \in Sets : <<p, y>> \in Given(q, ph, d, used)
<1> DEFINE N == Needy(q, ph, used)
           F == FreeSets(d, used)
<1>1. r \in N /\ s \in F /\ Rank(N, r) = Rank(F, s)
  BY Zenon DEF Given
<1>2. q \in SUBSET Nat
  BY BoundsAssumption DEF Runs
<1>3. p \in N
  <2>1. \A x \in q : x <= p => x <= r
    BY <1>2
  <2> DEFINE C(x) == IF x = FirstRun(q) THEN ~Terminal(ph[x]) ELSE ph[x] = "PREPARED"
  <2>2. N = {z \in Walk(q, ph) : ~OwnsIn(z, used)} /\ Walk(q, ph) = {z \in q : \A x \in q : x <= z => C(x)}
    BY Zenon DEF Needy, Walk
  <2> HIDE DEF N, C
  <2>3. \A x \in q : x <= r => C(x)
    BY <1>1, <2>2, Zenon
  <2>4. QED
    BY <2>1, <2>2, <2>3, Zenon
<1>4. IsFiniteSet(N) /\ N \in SUBSET Nat
  <2>1. IsFiniteSet(Runs)
    BY BoundsAssumption, FS_Interval DEF Runs
  <2>2. N \in SUBSET q
    BY Zenon DEF Needy, Walk
  <2> HIDE DEF N
  <2>3. N \in SUBSET Runs /\ N \in SUBSET Nat
    BY <1>2, <2>2, Zenon
  <2>4. QED
    BY <2>1, <2>3, FS_Subset, Zenon
<1>5. IsFiniteSet(F) /\ F \in SUBSET Nat /\ F \in SUBSET Sets
  <2>1. IsFiniteSet(Sets) /\ Sets \in SUBSET Nat /\ F \in SUBSET Sets
    BY GrantAssumption, FS_Interval, SMTT(30) DEF Sets, FreeSets
  <2> HIDE DEF F
  <2>2. QED
    BY <2>1, FS_Subset, Zenon
<1> HIDE DEF N, F
<1>6. Rank(N, p) \in Nat /\ Rank(N, r) \in Nat /\ Rank(N, p) < Rank(N, r)
  BY <1>1, <1>3, <1>4, RankGrows, Zenon
<1>7. Cardinality(F) \in Nat /\ Rank(F, s) \in 0 .. Cardinality(F) - 1
  BY <1>1, <1>5, RankOnto, Zenon
<1>8. Rank(N, p) \in 0 .. Cardinality(F) - 1
  BY <1>1, <1>6, <1>7
<1>9. PICK y \in F : Rank(F, y) = Rank(N, p)
  BY <1>5, <1>8, RankOnto, Zenon
<1>10. <<p, y>> \in Given(q, ph, d, used)
  BY <1>3, <1>9, Zenon DEF Given, N, F
<1>11. QED
  BY <1>5, <1>9, <1>10, Zenon

(* Lending to the whole FIFO, or to its head alone, keeps leases in order.   *)
LEMMA LendInOrder ==
    ASSUME ArenaTypes, NEW q \in SUBSET Runs, NEW p \in SUBSET q, NEW ph, NEW d, NEW used \in [Sets -> BOOLEAN],
           Exclusive(q, used), Lend(Given(p, ph, d, used), used), PrefixIn(q, used),
           p = q \/ \E h \in q : p = {h} /\ \A x \in q : h <= x
    PROVE  \A x, y \in q : x < y /\ OwnsIn(y, inUse)' => OwnsIn(x, inUse)'
<1> SUFFICES ASSUME NEW x \in q, NEW y \in q, x < y, OwnsIn(y, inUse)' PROVE OwnsIn(x, inUse)'
  OBVIOUS
<1>1. \A r \in Runs : OwnsIn(r, inUse)' <=> OwnsIn(r, used) \/ \E s \in Sets : <<r, s>> \in Given(p, ph, d, used)
  BY LendKeeps, Zenon
<1>2. x \in Runs /\ y \in Runs /\ x \in Nat /\ y \in Nat
  BY BoundsAssumption DEF Runs
<1>3. CASE OwnsIn(y, used)
  <2>1. OwnsIn(x, used)
    BY <1>3, Zenon DEF PrefixIn
  <2>2. QED
    BY <1>1, <1>2, <2>1, Zenon
<1>4. CASE \E s \in Sets : <<y, s>> \in Given(p, ph, d, used)
  <2>1. PICK s \in Sets : <<y, s>> \in Given(p, ph, d, used)
    BY <1>4, Zenon
  <2>2. p \in SUBSET Runs /\ y \in p
    <3>1. p \in SUBSET Runs
      OBVIOUS
    <3>2. Given(p, ph, d, used) \subseteq p \X Sets
      BY <3>1, GivenMatches, Zenon
    <3>3. QED
      BY <2>1, <3>1, <3>2, Zenon
  <2>3. p = q
    <3>1. ASSUME NEW h \in q, p = {h}, \A z \in q : h <= z PROVE FALSE
      BY <1>2, <2>2, <3>1
    <3>2. QED
      BY <3>1, Zenon
  <2>4. CASE OwnsIn(x, used)
    BY <1>1, <1>2, <2>4, Zenon
  <2>5. CASE ~OwnsIn(x, used)
    <3>1. \E z \in Sets : <<x, z>> \in Given(p, ph, d, used)
      BY <2>1, <2>2, <2>3, <2>5, GivenInOrder, Zenon
    <3>2. QED
      BY <1>1, <1>2, <3>1, Zenon
  <2>6. QED
    BY <2>4, <2>5, Zenon
<1>5. QED
  BY <1>1, <1>2, <1>3, <1>4, Zenon

(***************************************************************************)
(* The invariant, and what leaves the leases alone.                        *)
(*                                                                         *)
(* Exclusive breaks if a run returns its lease twice, loses it while it is *)
(* in the FIFO, or is forgotten there.  The rest of the invariant excludes *)
(* this; it is about the sections still pending on the threads, so most of *)
(* the argument follows what a section pushes.                             *)
(***************************************************************************)

(* The invariant.  Named and Unused say that nothing is known of a run that  *)
(* has not begun, RetirePending that a terminal run still in the FIFO is     *)
(* about to be retired, so that release_run does not forget it there.        *)
RunTypes ==
    /\ fifo \in SUBSET Runs /\ nextRun \in Nat /\ building \in Runs \cup {NoRun}
    /\ inUse \in [Sets -> BOOLEAN]
    /\ phase \in [Runs -> {"RESERVED", "BUILDING", "PREPARED", "EXECUTING", "COMPLETED", "FAILED"}]
    /\ closed \in [Runs -> BOOLEAN] /\ returned \in [Runs -> BOOLEAN]

Unused ==
    /\ building < nextRun
    /\ \A r \in fifo : r < nextRun
    /\ \A r \in Runs : closed[r] \/ returned[r] \/ lease[r] # NoLease => r < nextRun

Gone == \A r \in Runs : returned[r] => r \notin fifo

Pending(t, f) == \E i \in 1 .. Len(todo[t]) : todo[t][i] = f
Naming == {"retire", "close", "fail"}
Named == \A t \in Threads, f \in Frames : Pending(t, f) /\ f[1] \in Naming => f[2] < nextRun
BeginAlone == \A t \in Threads : Pending(t, Frame("begin", NoRun)) => todo[t] = <<Frame("begin", NoRun)>>
TodoInv == todo \in [Threads -> Seq(Frames)] /\ BeginAlone
RetirePending ==
    \A r \in fifo : Terminal(phase[r]) => \E t \in Threads : Pending(t, Frame("retire", r))

LeaseInv ==
    /\ ArenaTypes /\ RunTypes /\ Exclusive(fifo, inUse)
    /\ Unused /\ Gone
    /\ TodoInv /\ Named /\ RetirePending

-----------------------------------------------------------------------------
(* A thread returns from the section old and has the sections new to run:    *)
(* what Call and Then do to the sections that are pending.                   *)
Moves(old, new) ==
    /\ TodoInv'
    /\ \A u \in Threads, f \in Frames : Pending(u, f)' => Pending(u, f) \/ \E i \in 1 .. Len(new) : new[i] = f
    /\ \A u \in Threads, f \in Frames : Pending(u, f) /\ f # old => Pending(u, f)'

(* The part of the invariant that a thread's sections keep by themselves.    *)
LEMMA InvTodo == LeaseInv => TodoInv
BY Zenon DEF LeaseInv

(* Returning from the section at the head of todo, innermost first. *)
LEMMA ThenMoves ==
    ASSUME TodoInv, NEW t \in Threads, NEW old \in Frames, NEW new \in Seq(Frames), At(t, old), Then(t, new),
           \A i \in 1 .. Len(new) : new[i] # Frame("begin", NoRun)
    PROVE  Moves(old, new) /\ \A i \in 1 .. Len(new) : Pending(t, new[i])'
<1> DEFINE s == todo[t]
           z == new \o Tail(s)
<1>1. s \in Seq(Frames) /\ s # <<>> /\ Head(s) = old
  BY Zenon DEF TodoInv, At
<1>2. todo' = [todo EXCEPT ![t] = z] /\ todo \in [Threads -> Seq(Frames)]
  BY Zenon DEF Then, TodoInv
<1>3. Tail(s) \in Seq(Frames) /\ Len(Tail(s)) = Len(s) - 1 /\ \A i \in 1 .. Len(s) - 1 : Tail(s)[i] = s[i + 1]
  BY <1>1
<1>4. z \in Seq(Frames) /\ Len(z) = Len(new) + Len(s) - 1
  BY <1>3
<1>5. /\ \A i \in 1 .. Len(new) : z[i] = new[i]
      /\ \A i \in 1 .. Len(s) - 1 : z[Len(new) + i] = s[i + 1]
  BY <1>3
<1>6. todo'[t] = z /\ \A u \in Threads : u # t => todo'[u] = todo[u]
  BY <1>2, Zenon
<1>7. todo' \in [Threads -> Seq(Frames)]
  BY <1>2, <1>4, Zenon
<1>8. ASSUME NEW f \in Frames, NEW j \in 1 .. Len(z), z[j] = f
      PROVE  \/ \E i \in 1 .. Len(new) : new[i] = f
             \/ \E i \in 2 .. Len(s) : s[i] = f
  <2>1. CASE j <= Len(new)
    BY <1>5, <1>8, <2>1
  <2>2. CASE j > Len(new)
    <3>1. j - Len(new) \in 1 .. Len(s) - 1 /\ Len(new) + (j - Len(new)) = j
      BY <1>1, <1>4, <2>2
    <3>2. z[j] = s[j - Len(new) + 1]
      BY <1>5, <3>1, Zenon
    <3>3. j - Len(new) + 1 \in 2 .. Len(s)
      BY <1>1, <3>1
    <3>4. QED
      BY <1>8, <3>2, <3>3, Zenon
  <2>3. QED
    BY SMTT(30), <1>4, <2>1, <2>2
<1>9. ASSUME NEW f \in Frames, f # old, NEW j \in 1 .. Len(s), s[j] = f PROVE \E i \in 1 .. Len(z) : z[i] = f
  <2>1. j # 1
    BY SMTT(30), <1>1, <1>9
  <2>2. j - 1 \in 1 .. Len(s) - 1 /\ Len(new) + (j - 1) \in 1 .. Len(z) /\ (j - 1) + 1 = j
    BY <1>1, <1>4, <2>1
  <2>3. z[Len(new) + (j - 1)] = s[j]
    BY <1>5, <2>2, Zenon
  <2>4. QED
    BY <1>9, <2>2, <2>3, Zenon
<1>10. \A i \in 1 .. Len(new) : i \in 1 .. Len(z) /\ z[i] = new[i]
  BY SMTT(30), <1>1, <1>4, <1>5
<1> DEFINE b == Frame("begin", NoRun)
<1>11. ASSUME NEW i \in 2 .. Len(s), s[i] = b PROVE FALSE
  <2>1. s = <<b>>
    BY <1>1, <1>11, SMTT(30) DEF TodoInv, BeginAlone, Pending
  <2>2. Len(s) = 1
    BY <2>1
  <2>3. QED
    BY SMTT(30), <2>2
<1>12. b \in Frames
  BY BoundsAssumption DEF Frames, Frame, NoRun
<1> HIDE DEF z, s, b
<1>13. \A i \in 1 .. Len(z) : z[i] # b
  BY <1>8, <1>11, <1>12, Zenon DEF b
<1>14. BeginAlone'
  BY <1>6, <1>13, Zenon DEF BeginAlone, Pending, TodoInv, b
<1>15. \A f \in Frames : Pending(t, f)' => Pending(t, f) \/ \E i \in 1 .. Len(new) : new[i] = f
  <2>1. \A i \in 2 .. Len(s) : i \in 1 .. Len(s)
    BY <1>1
  <2>2. QED
    BY <1>6, <1>8, <2>1, Zenon DEF Pending, s
<1>16. \A f \in Frames : Pending(t, f) /\ f # old => Pending(t, f)'
  BY <1>6, <1>9, Zenon DEF Pending, s
<1>17. \A u \in Threads, f \in Frames : u # t => (Pending(u, f)' <=> Pending(u, f))
  BY <1>6, Zenon DEF Pending
<1>18. \A i \in 1 .. Len(new) : Pending(t, new[i])'
  BY <1>6, <1>10, Zenon DEF Pending
<1>19. TodoInv'
  BY <1>7, <1>14, Zenon DEF TodoInv
<1>20. QED
  BY <1>15, <1>16, <1>17, <1>18, <1>19, Zenon DEF Moves

(* Making a call: the thread has nothing pending but the wait it returns     *)
(* from.                                                                     *)
LEMMA CallMoves ==
    ASSUME TodoInv, NEW t \in Threads, NEW new \in Seq(Frames), Call(t, new),
           todo[t] = <<>> \/ todo[t] = <<Frame("begin", NoRun)>>,
           new = <<Frame("begin", NoRun)>> \/ \A i \in 1 .. Len(new) : new[i] # Frame("begin", NoRun)
    PROVE  Moves(Frame("begin", NoRun), new)
<1>1. todo'[t] = new /\ \A u \in Threads : u # t => todo'[u] = todo[u]
  BY Zenon DEF Call, TodoInv
<1>2. todo' \in [Threads -> Seq(Frames)]
  BY Zenon DEF Call, TodoInv
<1>3. \A f \in Frames : Pending(t, f) => f = Frame("begin", NoRun)
  BY DEF Pending
<1>4. BeginAlone'
  BY <1>1, Zenon DEF BeginAlone, TodoInv, Pending
<1>5. QED
  BY <1>1, <1>2, <1>3, <1>4, Zenon DEF Moves, TodoInv, Pending

-----------------------------------------------------------------------------
-----------------------------------------------------------------------------
(* Sections that leave the leases, the FIFO and the phases alone.            *)
kept == <<fifo, building, nextRun, gen, inUse, lease, phase, closed, returned>>

(* Sections that retire no run and close none. *)
Plain(new) == new \in Seq(Frames) /\ \A i \in 1 .. Len(new) : new[i][1] \notin Naming \cup {"begin"}

(* The frames that the sections push are frames. *)
LEMMA FrameType ==
    ASSUME NEW r \in Runs \cup {NoRun},
           NEW op \in {"begin", "await", "close", "refresh", "fail", "cancel", "consume", "drop", "retireExec",
                       "finish", "retire", "announce", "notify", "activate", "publish", "early", "over", "outcome"}
    PROVE  /\ Frame(op, r) \in Frames /\ Frame(op, r)[1] = op /\ Frame(op, r)[2] = r
           /\ \A k \in Tasks : <<op, r, k>> \in Frames
BY BoundsAssumption, SMTT(30) DEF Frame, Frames, Runs, Tasks, NoRun

(* The section that retires a run names the run. *)
LEMMA RetireFrame ==
    \A r \in Runs : Frame("retire", r) \in Frames /\ Frame("retire", r)[1] = "retire" /\ Frame("retire", r)[2] = r
BY FrameType, SMTT(30)

(* Sequences of plain sections. *)
LEMMA PlainSeq ==
    /\ Plain(<<>>)
    /\ \A f \in Frames : f[1] \notin Naming \cup {"begin"} => Plain(<<f>>)
    /\ \A f, g \in Frames : f[1] \notin Naming \cup {"begin"} /\ g[1] \notin Naming \cup {"begin"} => Plain(<<f, g>>)
    /\ \A a, b : Plain(a) /\ Plain(b) => Plain(a \o b)
<1>1. Plain(<<>>)
  BY DEF Plain
<1>2. \A f \in Frames : f[1] \notin Naming \cup {"begin"} => Plain(<<f>>)
  BY DEF Plain
<1>3. \A f, g \in Frames : f[1] \notin Naming \cup {"begin"} /\ g[1] \notin Naming \cup {"begin"} => Plain(<<f, g>>)
  BY DEF Plain
<1>4. ASSUME NEW a, NEW b, Plain(a), Plain(b) PROVE Plain(a \o b)
  <2>1. a \in Seq(Frames) /\ b \in Seq(Frames)
    BY <1>4, Zenon DEF Plain
  <2>2. a \o b \in Seq(Frames) /\ Len(a \o b) = Len(a) + Len(b)
    BY <2>1
  <2>3. ASSUME NEW i \in 1 .. Len(a \o b) PROVE (a \o b)[i][1] \notin Naming \cup {"begin"}
    <3>1. CASE i <= Len(a)
      <4>1. (a \o b)[i] = a[i] /\ i \in 1 .. Len(a)
        BY SMTT(30), <2>1, <2>2, <3>1
      <4>2. QED
        BY <1>4, <4>1, Zenon DEF Plain
    <3>2. CASE i > Len(a)
      <4>1. (a \o b)[i] = b[i - Len(a)] /\ i - Len(a) \in 1 .. Len(b)
        <5>1. Len(a) \in Nat /\ Len(b) \in Nat /\ i \in 1 .. Len(a) + Len(b)
          BY <2>1, <2>2
        <5>2. i - Len(a) \in 1 .. Len(b)
          BY SMTT(30), <3>2, <5>1
        <5>3. QED
          BY SMTT(30), <2>1, <3>2, <5>1, <5>2
      <4>2. QED
        BY <1>4, <4>1, Zenon DEF Plain
    <3>3. QED
      BY SMTT(30), <2>1, <2>2, <3>1, <3>2
  <2>4. QED
    BY <2>2, <2>3, Zenon DEF Plain
<1>5. QED
  BY <1>1, <1>2, <1>3, <1>4, Zenon

(* A step that changes none of the state of the invariant. *)
LEMMA Stays == LeaseInv /\ UNCHANGED <<kept, todo>> => LeaseInv'
<1> SUFFICES ASSUME LeaseInv, UNCHANGED <<kept, todo>> PROVE LeaseInv'
  BY Zenon
<1>1. UNCHANGED <<fifo, nextRun, building, phase, closed, returned, gen, inUse, lease, todo>>
  BY Zenon DEF kept
<1>2. ArenaTypes' /\ RunTypes' /\ Unused' /\ Gone'
  BY <1>1, Zenon DEF LeaseInv, ArenaTypes, RunTypes, Unused, Gone
<1>3. Exclusive(fifo, inUse)'
  BY <1>1, Zenon DEF LeaseInv, Exclusive, OwnsIn
<1>4. TodoInv' /\ Named' /\ RetirePending'
  BY <1>1, Zenon DEF LeaseInv, TodoInv, BeginAlone, Named, Pending, RetirePending
<1>5. QED
  BY <1>2, <1>3, <1>4, Zenon DEF LeaseInv

(* What the frames keep when a thread moves from one section to others.      *)
LEMMA FramesMove ==
    ASSUME LeaseInv, NEW old \in Frames, NEW new \in Seq(Frames), Moves(old, new),
           nextRun' \in Nat, nextRun <= nextRun',
           \A i \in 1 .. Len(new) : new[i][1] \in Naming => new[i][2] < nextRun',
           \A r \in fifo' : Terminal(phase'[r]) =>
               \/ r \in fifo /\ Terminal(phase[r]) /\ old # Frame("retire", r)
               \/ \E t \in Threads : Pending(t, Frame("retire", r))',
           fifo' \in SUBSET Runs
    PROVE  TodoInv' /\ Named' /\ RetirePending'
<1>1. TodoInv'
  BY Zenon DEF Moves
<1>2. Named'
  <2> SUFFICES ASSUME NEW t \in Threads, NEW f \in Frames, Pending(t, f)', f[1] \in Naming PROVE f[2] < nextRun'
    BY ZenonT(30) DEF Named
  <2>1. f[2] \in Nat /\ nextRun \in Nat
    <3>1. f[2] \in 0 .. MaxRuns
      BY SMTT(30) DEF Frames
    <3>2. nextRun \in Nat
      BY Zenon DEF LeaseInv, RunTypes
    <3>3. QED
      BY <3>1, <3>2, SMTT(30)
  <2>2. CASE Pending(t, f)
    <3>1. f[2] < nextRun
      BY <2>2, Zenon DEF LeaseInv, Named
    <3>2. QED
      BY <2>1, <3>1
  <2>3. CASE \E i \in 1 .. Len(new) : new[i] = f
    BY <2>3, Zenon
  <2>4. QED
    BY <2>2, <2>3, Zenon DEF Moves
<1>3. RetirePending'
  <2> SUFFICES ASSUME NEW r \in fifo', Terminal(phase'[r])
               PROVE  \E t \in Threads : Pending(t, Frame("retire", r))'
    BY Zenon DEF RetirePending, Terminal
  <2>1. Frame("retire", r) \in Frames
    BY FrameType, Zenon
  <2>2. CASE r \in fifo /\ Terminal(phase[r]) /\ old # Frame("retire", r)
    <3>1. PICK t \in Threads : Pending(t, Frame("retire", r))
      BY <2>2, Zenon DEF LeaseInv, RetirePending
    <3>2. Pending(t, Frame("retire", r))'
      BY <2>1, <2>2, <3>1, ZenonT(30) DEF Moves
    <3>3. QED
      BY <3>2, Zenon
  <2>3. QED
    BY <2>2, Zenon
<1>4. QED
  BY <1>1, <1>2, <1>3, Zenon

(* What the state of the runs keeps when leases and the FIFO do not change.  *)
LEMMA RunsKeep ==
    ASSUME LeaseInv, UNCHANGED <<fifo, nextRun, gen, inUse, lease, returned>>,
           phase' \in [Runs -> {"RESERVED", "BUILDING", "PREPARED", "EXECUTING", "COMPLETED", "FAILED"}],
           closed' \in [Runs -> BOOLEAN], \A r \in Runs : closed'[r] => closed[r] \/ r < nextRun,
           building' \in Runs \cup {NoRun}, building' < nextRun
    PROVE  ArenaTypes' /\ RunTypes' /\ Exclusive(fifo, inUse)' /\ Unused' /\ Gone'
BY ZenonT(30) DEF LeaseInv, ArenaTypes, RunTypes, Exclusive, OwnsIn, Unused, Gone

(* A thread moves on and nothing else changes. *)
LEMMA MovesOn ==
    ASSUME LeaseInv, UNCHANGED kept, NEW old \in Frames, NEW new \in Seq(Frames), Moves(old, new), old[1] # "retire",
           \A i \in 1 .. Len(new) : new[i][1] \in Naming => new[i][2] < nextRun
    PROVE  LeaseInv'
<1>1. ArenaTypes' /\ RunTypes' /\ Exclusive(fifo, inUse)' /\ Unused' /\ Gone'
  BY RunsKeep, Zenon DEF kept, LeaseInv, RunTypes, Unused
<1>2. \A r : old # Frame("retire", r)
  BY DEF Frame
<1>3. TodoInv' /\ Named' /\ RetirePending'
  <2>1. nextRun' = nextRun /\ nextRun \in Nat /\ fifo' = fifo /\ fifo \in SUBSET Runs /\ phase' = phase
    BY Zenon DEF kept, LeaseInv, RunTypes
  <2>2. nextRun <= nextRun'
    BY <2>1
  <2>3. QED
    BY <1>2, <2>1, <2>2, FramesMove, Zenon
<1>4. QED
  BY <1>1, <1>3, Zenon DEF LeaseInv

(* A section that pushes plain sections only. *)
LEMMA PlainThen ==
    ASSUME LeaseInv, UNCHANGED kept, NEW t \in Threads, NEW old \in Frames, NEW new, Plain(new),
           At(t, old), Then(t, new), old[1] # "retire"
    PROVE  LeaseInv'
<1>1. new \in Seq(Frames) /\ \A i \in 1 .. Len(new) : new[i] # Frame("begin", NoRun)
  BY DEF Plain, Frame
<1>2. Moves(old, new)
  BY <1>1, InvTodo, ThenMoves, Zenon
<1>3. QED
  BY <1>1, <1>2, MovesOn, Zenon DEF Plain

(* A call that pushes plain sections only. *)
LEMMA PlainCall ==
    ASSUME LeaseInv, UNCHANGED kept, NEW t \in Threads, NEW new, Plain(new), Call(t, new), todo[t] = <<>>
    PROVE  LeaseInv'
<1>1. new \in Seq(Frames) /\ \A i \in 1 .. Len(new) : new[i] # Frame("begin", NoRun)
  BY DEF Plain, Frame
<1>2. Moves(Frame("begin", NoRun), new)
  BY <1>1, InvTodo, CallMoves, Zenon
<1>3. Frame("begin", NoRun) \in Frames /\ Frame("begin", NoRun)[1] = "begin"
  BY FrameType
<1>4. QED
  BY <1>1, <1>2, <1>3, MovesOn, Zenon DEF Plain

-----------------------------------------------------------------------------
(* One lemma per group of actions.  Submission, the observation of a         *)
(* terminal run and the passes of the Scheduler touch tasks only.            *)
LEMMA PassKeeps ==
    ASSUME LeaseInv,
           \/ \E t \in Users, k \in Tasks, depends \in BOOLEAN : Submit(t, k, depends)
           \/ \E t \in Users, r \in Runs : WaitRun(t, r)
           \/ Loop
    PROVE  LeaseInv'
<1>1. UNCHANGED <<kept, todo>>
  <2>1. CASE \E t \in Users, k \in Tasks, depends \in BOOLEAN : Submit(t, k, depends)
    BY <2>1, Zenon DEF Submit, kept, orchVars
  <2>2. CASE \E t \in Users, r \in Runs : WaitRun(t, r)
    BY <2>2, Zenon DEF WaitRun, kept, orchVars, arenaVars, runVars
  <2>3. CASE Loop
    BY <2>3, Zenon DEF Loop, PassStart, ClaimsDone, PassEnd, Claim, Stage, kept, orchVars, arenaVars, runVars
  <2>4. QED
    BY <2>1, <2>2, <2>3, Zenon
<1>2. QED
  BY <1>1, Stays, Zenon

(* The callbacks of the endpoints and the release of the last reference make *)
(* the Scheduler or the builder call plain sections.                         *)
LEMMA EndpointKeeps ==
    ASSUME LeaseInv, NEW r \in Runs, NEW k \in Tasks,
           Endpoint(r, k) \/ \E t \in Threads : LastRelease(t, r, k)
    PROVE  LeaseInv'
<1>1. Sched \in Threads
  BY Zenon DEF Threads
<1>2. Plain(AcceptFrames(r))
  BY FrameType, PlainSeq, Zenon DEF AcceptFrames, Naming
<1>3. CASE TaskAccepted(r, k)
  BY <1>1, <1>2, <1>3, PlainCall, Zenon DEF TaskAccepted, Polling, Free, kept, orchVars, arenaVars
<1>4. CASE FrameStaged(r, k)
  <2>1. Plain(<<Frame("early", NoRun)>>)
    BY FrameType, PlainSeq, Zenon DEF Naming
  <2>2. QED
    BY <1>1, <1>4, <2>1, PlainCall, Zenon DEF FrameStaged, Polling, Free, kept, orchVars, arenaVars, runVars
<1>5. CASE \E sets \in Capacities : TaskEnded(r, k, sets)
  <2>1. Plain(<<Frame("retireExec", r)>>)
    BY FrameType, PlainSeq, ZenonT(30) DEF Naming
  <2>2. QED
    BY <1>1, <1>5, <2>1, PlainCall, Zenon DEF TaskEnded, Polling, Free, kept, orchVars, arenaVars, runVars
<1>6. CASE TaskCompleted(r, k)
  <2>1. Plain(<<<<"over", r, k>>, <<"outcome", r, k>>>>)
    BY FrameType, PlainSeq DEF Naming
  <2>2. Plain((IF k \in accepted[r] THEN <<>> ELSE AcceptFrames(r)) \o <<<<"over", r, k>>, <<"outcome", r, k>>>>)
    BY <1>2, <2>1, PlainSeq, Zenon
  <2>3. QED
    BY <1>1, <1>6, <2>2, PlainCall, Zenon DEF TaskCompleted, Polling, Free, kept, orchVars, arenaVars
<1>7. CASE \E t \in Threads : LastRelease(t, r, k)
  <2>1. PICK t \in Threads : LastRelease(t, r, k)
    BY <1>7, Zenon
  <2>2. Plain(<<<<"consume", r, k>>>>)
    BY FrameType, PlainSeq, Zenon DEF Naming
  <2>3. todo[t] = <<>> /\ Call(t, <<<<"consume", r, k>>>>) /\ UNCHANGED kept
    BY <2>1, Zenon DEF LastRelease, Polling, Free, kept, orchVars, arenaVars, runVars
  <2>4. QED
    BY <2>2, <2>3, PlainCall, Zenon
<1>8. QED
  BY <1>3, <1>4, <1>5, <1>6, <1>7, Zenon DEF Endpoint

(* Sections that name no run and change neither a lease nor a phase. *)
LEMMA PlainAloneKeeps ==
    ASSUME LeaseInv, NEW t \in Threads, Early(t) \/ \E op \in {"announce", "notify"} : Announce(t, op)
    PROVE  LeaseInv'
<1>1. Plain(<<>>)
  BY PlainSeq, Zenon
<1>2. CASE Early(t)
  <2>1. Frame("early", NoRun) \in Frames /\ Frame("early", NoRun)[1] = "early"
    BY FrameType
  <2>2. QED
    BY <1>1, <1>2, <2>1, PlainThen, Zenon DEF Early, kept, orchVars, arenaVars, runVars
<1>3. CASE \E op \in {"announce", "notify"} : Announce(t, op)
  <2>1. PICK op \in {"announce", "notify"} : Announce(t, op)
    BY <1>3, Zenon
  <2>2. Frame(op, NoRun) \in Frames /\ Frame(op, NoRun)[1] = op
    BY SMTT(30), FrameType
  <2>3. QED
    BY <1>1, <2>1, <2>2, PlainThen, Zenon DEF Announce, kept, orchVars, arenaVars, runVars
<1>4. QED
  BY <1>2, <1>3, Zenon

(* Sections that change neither a lease nor a phase of the run they name.    *)
(* retire_execution_if_ready pushes a retirement, of a run that is closed    *)
(* and so has begun.                                                         *)
LEMMA PlainSectionKeeps ==
    ASSUME LeaseInv, NEW t \in Threads, NEW r \in Runs,
           \/ Await(t, r) \/ Drop(t, r) \/ RetireExec(t, r)
           \/ \E k \in Tasks : Consume(t, r, k) \/ Report(r, k)
    PROVE  LeaseInv'
<1>1. Plain(<<>>)
  BY PlainSeq, Zenon
<1>2. CASE Await(t, r)
  <2>1. Frame("await", r) \in Frames /\ Frame("await", r)[1] = "await"
    BY FrameType
  <2>2. UNCHANGED kept /\ At(t, Frame("await", r)) /\ (Then(t, <<>>) \/ UNCHANGED todo)
    BY <1>2, Zenon DEF Await, kept, orchVars, arenaVars, runVars
  <2>3. QED
    BY <1>1, <2>1, <2>2, PlainThen, Stays, ZenonT(30)
<1>3. CASE Drop(t, r)
  <2>1. Frame("drop", r) \in Frames /\ Frame("drop", r)[1] = "drop"
    BY FrameType
  <2>2. Plain(IF live[r] = 1 THEN <<Frame("finish", r)>> ELSE <<>>)
    BY FrameType, PlainSeq, ZenonT(30) DEF Naming
  <2>3. QED
    BY <1>3, <2>1, <2>2, PlainThen, Zenon DEF Drop, kept, orchVars, arenaVars
<1>4. CASE RetireExec(t, r)
  <2>1. Frame("retireExec", r) \in Frames /\ Frame("retireExec", r)[1] = "retireExec"
    BY FrameType
  <2>2. At(t, Frame("retireExec", r)) /\ UNCHANGED kept
    BY <1>4, Zenon DEF RetireExec, kept, orchVars, arenaVars, runVars
  <2>3. CASE closed[r] /\ Then(t, <<Frame("retire", r)>>)
    <3>1. r < nextRun
      BY <2>3, Zenon DEF LeaseInv, Unused
    <3>2. Frame("retire", r) \in Frames /\ Frame("retire", r)[1] = "retire" /\ Frame("retire", r)[2] = r
      BY RetireFrame, Zenon
    <3> DEFINE new == <<Frame("retire", r)>>
    <3>3. new \in Seq(Frames) /\ \A i \in 1 .. Len(new) : new[i] = Frame("retire", r)
      BY <3>2
    <3>4. Frame("retire", r) # Frame("begin", NoRun)
      BY Zenon DEF Frame
    <3>5. Then(t, new)
      BY <2>3, Zenon
    <3> HIDE DEF new
    <3>6. new \in Seq(Frames) /\ \A i \in 1 .. Len(new) : new[i] # Frame("begin", NoRun)
      BY <3>3, <3>4, Zenon
    <3>7. Moves(Frame("retireExec", r), new)
      BY <2>1, <2>2, <3>5, <3>6, InvTodo, ThenMoves, ZenonT(30)
    <3>8. QED
      BY <2>1, <2>2, <3>1, <3>2, <3>3, <3>7, MovesOn, ZenonT(30)
  <2>4. CASE Then(t, <<>>)
    BY <1>1, <2>1, <2>2, <2>4, PlainThen, Zenon
  <2>5. QED
    BY <1>4, <2>3, <2>4, Zenon DEF RetireExec, ExecutionEnded
<1>5. CASE \E k \in Tasks : Consume(t, r, k)
  <2>1. PICK k \in Tasks : Consume(t, r, k)
    BY <1>5, Zenon
  <2>2. <<"consume", r, k>> \in Frames
    BY FrameType, ZenonT(30)
  <2>3. Plain(<<Frame("retireExec", r), Frame("drop", r)>>)
    BY FrameType, PlainSeq DEF Naming
  <2>4. QED
    BY <2>1, <2>2, <2>3, PlainThen, Zenon DEF Consume, kept, orchVars, arenaVars, runVars
<1>6. CASE \E k \in Tasks : Report(r, k)
  <2>1. PICK k \in Tasks : Over(r, k) \/ Outcome(r, k)
    BY <1>6, Zenon DEF Report
  <2>2. Sched \in Threads /\ <<"over", r, k>> \in Frames /\ <<"outcome", r, k>> \in Frames
    BY FrameType, Zenon DEF Threads
  <2>3. Plain(<<Frame("retireExec", r)>>)
    BY FrameType, PlainSeq, ZenonT(30) DEF Naming
  <2>4. CASE Over(r, k)
    BY <2>2, <2>3, <2>4, PlainThen, Zenon DEF Over, kept, orchVars, arenaVars, runVars
  <2>5. CASE Outcome(r, k)
    BY <1>1, <2>2, <2>5, PlainThen, Zenon DEF Outcome, kept, orchVars, arenaVars
  <2>6. QED
    BY <2>1, <2>4, <2>5, Zenon
<1>7. QED
  BY <1>2, <1>3, <1>4, <1>5, <1>6, Zenon

(* A run that begins has no lease and was never retired. *)
LEMMA PublishKeeps ==
    ASSUME LeaseInv, NEW t \in Threads, Publish(t), nextRun <= MaxRuns,
           todo[t] = <<>> \/ todo[t] = <<Frame("begin", NoRun)>>, UNCHANGED <<gen, inUse, lease, closed, returned>>
    PROVE  LeaseInv'
<1>1. nextRun \in Nat /\ nextRun \in Runs
  <2>1. nextRun \in Nat /\ building \in Nat /\ building < nextRun
    BY BoundsAssumption DEF LeaseInv, RunTypes, Unused, Runs, NoRun
  <2>2. QED
    BY <2>1, BoundsAssumption, SMTT(30) DEF Runs
<1>2. /\ nextRun' = nextRun + 1 /\ fifo' = fifo \cup {nextRun} /\ building' = nextRun
      /\ phase' = [phase EXCEPT ![nextRun] = "BUILDING"]
  BY Zenon DEF Publish
<1>3. lease[nextRun] = NoLease /\ ~returned[nextRun] /\ \A r \in fifo : r < nextRun
  BY <1>1 DEF LeaseInv, Unused
<1>4. ArenaTypes'
  BY Zenon DEF LeaseInv, ArenaTypes
<1>5. RunTypes'
  <2>1. RunTypes
    BY Zenon DEF LeaseInv
  <2>2. fifo' \in SUBSET Runs /\ nextRun' \in Nat /\ building' \in Runs \cup {NoRun}
    BY <1>1, <1>2, <2>1, SMTT(30) DEF RunTypes
  <2>3. phase' \in [Runs -> {"RESERVED", "BUILDING", "PREPARED", "EXECUTING", "COMPLETED", "FAILED"}]
    BY <1>2, <2>1, Zenon DEF RunTypes
  <2>4. QED
    BY <2>1, <2>2, <2>3, Zenon DEF RunTypes
<1>6. Exclusive(fifo, inUse)'
  <2>1. Exclusive(fifo, inUse) /\ fifo \in SUBSET Runs
    BY Zenon DEF LeaseInv, RunTypes
  <2>2. inUse' = inUse /\ lease' = lease /\ \A r \in Runs : OwnsIn(r, inUse)' <=> OwnsIn(r, inUse)
    <3>1. gen' = gen /\ inUse' = inUse /\ lease' = lease
      OBVIOUS
    <3>2. ASSUME NEW r \in Runs PROVE OwnsIn(r, inUse)' <=> OwnsIn(r, inUse)
      BY <3>1, Zenon DEF OwnsIn
    <3>3. QED
      BY <3>1, <3>2, Zenon
  <2>3. \A r \in fifo' : lease'[r] # NoLease => OwnsIn(r, inUse)'
    BY <1>2, <1>3, <2>1, <2>2, Zenon DEF Exclusive
  <2>4. \A r \in Runs : OwnsIn(r, inUse)' => r \in fifo'
    BY <1>2, <2>1, <2>2, Zenon DEF Exclusive
  <2>5. \A r, p \in Runs : OwnsIn(r, inUse)' /\ OwnsIn(p, inUse)' /\ lease'[r].set = lease'[p].set => r = p
    BY <2>1, <2>2, Zenon DEF Exclusive
  <2>6. \A s \in Sets : inUse'[s] => \E r \in fifo' : OwnsIn(r, inUse)' /\ lease'[r].set = s
    BY <1>2, <2>1, <2>2, ZenonT(30) DEF Exclusive
  <2>7. QED
    BY <2>3, <2>4, <2>5, <2>6, Zenon DEF Exclusive
<1>7. Unused'
  <2>1. \A r \in Runs : r \in Nat
    BY BoundsAssumption, SMTT(30) DEF Runs
  <2>2. \A r \in Runs : r < nextRun => r < nextRun + 1
    BY SMTT(30), <1>1, <2>1
  <2>3. nextRun < nextRun + 1
    BY <1>1
  <2>4. fifo \in SUBSET Runs
    BY Zenon DEF LeaseInv, RunTypes
  <2>5. QED
    BY <1>2, <1>3, <2>2, <2>3, <2>4, Zenon DEF LeaseInv, Unused
<1>8. Gone'
  BY <1>2, <1>3, Zenon DEF LeaseInv, Gone
<1> DEFINE new == <<Frame("activate", NoRun)>>
<1>9. Call(t, new)
  BY Zenon DEF Publish
<1>10. Plain(new)
  BY FrameType, PlainSeq, Zenon DEF Naming
<1> HIDE DEF new
<1>11. Frame("begin", NoRun) \in Frames /\ \A r : Frame("begin", NoRun) # Frame("retire", r)
  BY FrameType, Zenon DEF Frame
<1>12. new \in Seq(Frames) /\ \A i \in 1 .. Len(new) : new[i][1] \notin Naming /\ new[i] # Frame("begin", NoRun)
  BY <1>10 DEF Plain, Frame
<1>13. Moves(Frame("begin", NoRun), new)
  BY <1>9, <1>12, InvTodo, CallMoves, Zenon
<1>14. \A r \in fifo' : Terminal(phase'[r]) => r \in fifo /\ Terminal(phase[r])
  <2>1. phase \in [Runs -> {"RESERVED", "BUILDING", "PREPARED", "EXECUTING", "COMPLETED", "FAILED"}]
    BY Zenon DEF LeaseInv, RunTypes
  <2>2. fifo \in SUBSET Runs
    BY Zenon DEF LeaseInv, RunTypes
  <2>3. QED
    BY <1>1, <1>2, <2>1, <2>2, Zenon DEF Terminal
<1>15. nextRun' \in Nat /\ nextRun <= nextRun' /\ fifo' \in SUBSET Runs
  BY <1>1, <1>2 DEF LeaseInv, RunTypes
<1>16. TodoInv' /\ Named' /\ RetirePending'
  BY <1>11, <1>12, <1>13, <1>14, <1>15, FramesMove, Zenon
<1>17. QED
  BY <1>4, <1>5, <1>6, <1>7, <1>8, <1>16, ZenonT(30) DEF LeaseInv

(* begin_run, before and after its wait. *)
LEMMA BeginKeeps ==
    ASSUME LeaseInv, NEW t \in Threads, BeginRun(t) \/ BeginWoken(t)
    PROVE  LeaseInv'
<1>1. Frame("begin", NoRun) \in Frames /\ Frame("begin", NoRun)[1] = "begin"
  BY FrameType
<1>2. UNCHANGED <<gen, inUse, lease, closed, returned>>
  BY Zenon DEF BeginRun, BeginWoken, arenaVars
<1>3. todo[t] = <<>> \/ todo[t] = <<Frame("begin", NoRun)>>
  <2>1. CASE BeginRun(t)
    BY <2>1, Zenon DEF BeginRun, Free
  <2>2. CASE BeginWoken(t)
    <3>1. todo[t] \in Seq(Frames) /\ todo[t] # <<>> /\ Head(todo[t]) = Frame("begin", NoRun)
      BY <2>2, Zenon DEF BeginWoken, At, LeaseInv, TodoInv
    <3>2. 1 \in 1 .. Len(todo[t]) /\ todo[t][1] = Frame("begin", NoRun)
      BY <3>1
    <3>3. QED
      BY <3>2, Zenon DEF LeaseInv, TodoInv, BeginAlone, Pending
  <2>3. QED
    BY <2>1, <2>2, Zenon
<1>4. CASE Publish(t) /\ nextRun <= MaxRuns
  BY <1>2, <1>3, <1>4, PublishKeeps, Zenon
<1>5. CASE (Call(t, <<Frame("begin", NoRun)>>) \/ Call(t, <<>>)) /\ UNCHANGED <<orchVars, phase>>
  <2>1. UNCHANGED kept
    BY <1>2, <1>5, Zenon DEF kept, orchVars
  <2>2. CASE Call(t, <<Frame("begin", NoRun)>>)
    <3> DEFINE new == <<Frame("begin", NoRun)>>
    <3>1. new \in Seq(Frames) /\ \A i \in 1 .. Len(new) : new[i][1] = "begin"
      BY <1>1
    <3>2. Moves(Frame("begin", NoRun), new)
      <4>1. new = <<Frame("begin", NoRun)>> /\ Call(t, new)
        BY <2>2, Zenon
      <4> HIDE DEF new
      <4>2. QED
        BY <1>3, <3>1, <4>1, InvTodo, CallMoves, Zenon
    <3> HIDE DEF new
    <3>3. QED
      BY <1>1, <2>1, <3>1, <3>2, MovesOn, Zenon DEF Naming
  <2>3. CASE Call(t, <<>>)
    <3>1. <<>> \in Seq(Frames) /\ \A i \in 1 .. Len(<<>>) : FALSE
      OBVIOUS
    <3>2. Moves(Frame("begin", NoRun), <<>>)
      BY <1>3, <2>3, <3>1, InvTodo, CallMoves, Zenon
    <3>3. QED
      BY <1>1, <2>1, <3>1, <3>2, MovesOn, Zenon
  <2>4. QED
    BY <1>5, <2>2, <2>3, Zenon
<1>6. CASE UNCHANGED <<orchVars, phase, todo>>
  BY <1>2, <1>6, Stays, Zenon DEF kept, orchVars
<1>7. QED
  BY <1>4, <1>5, <1>6, Zenon DEF BeginRun, BeginWoken

(* await_run_admission, and closing or failing the run that is being built.  *)
LEMMA BuildKeeps ==
    ASSUME LeaseInv, NEW t \in Threads, AwaitCall(t) \/ CloseRun(t) \/ FailRun(t)
    PROVE  LeaseInv'
<1>1. building \in Runs \cup {NoRun} /\ building < nextRun /\ nextRun \in Nat /\ fifo \in SUBSET Runs
  BY Zenon DEF LeaseInv, RunTypes, Unused
<1>2. CASE AwaitCall(t)
  <2>1. Plain(<<Frame("await", building)>>)
    BY <1>1, FrameType, PlainSeq DEF Naming
  <2>2. QED
    BY <1>2, <2>1, PlainCall, Zenon DEF AwaitCall, Free, kept, orchVars, arenaVars, runVars
<1>3. ASSUME NEW new \in Seq(Frames), Call(t, new), todo[t] = <<>>, building' = NoRun,
             \A i \in 1 .. Len(new) : new[i][1] # "begin" /\ new[i][2] = building,
             UNCHANGED <<fifo, nextRun, gen, inUse, lease, phase, closed, returned>>
      PROVE  LeaseInv'
  <2>1. Frame("begin", NoRun) \in Frames /\ \A r : Frame("begin", NoRun) # Frame("retire", r)
    BY FrameType, Zenon DEF Frame
  <2>2. \A i \in 1 .. Len(new) : new[i] # Frame("begin", NoRun)
    BY <1>3 DEF Frame
  <2>3. Moves(Frame("begin", NoRun), new)
    BY <1>3, <2>2, InvTodo, CallMoves, Zenon
  <2>4. nextRun' = nextRun /\ nextRun <= nextRun' /\ fifo' = fifo /\ phase' = phase
    BY <1>1, <1>3
  <2>5. TodoInv' /\ Named' /\ RetirePending'
    BY <1>1, <1>3, <2>1, <2>3, <2>4, FramesMove, Zenon
  <2>6. NoRun < nextRun
    BY <1>1, BoundsAssumption DEF NoRun, Runs
  <2>7. ArenaTypes' /\ RunTypes' /\ Exclusive(fifo, inUse)' /\ Unused' /\ Gone'
    BY <1>3, <2>6, RunsKeep, Zenon DEF LeaseInv, RunTypes
  <2>8. QED
    BY <2>5, <2>7, Zenon DEF LeaseInv
<1>4. CASE CloseRun(t)
  <2> DEFINE new == <<Frame("close", building)>>
  <2>1. new \in Seq(Frames) /\ \A i \in 1 .. Len(new) : new[i][1] # "begin" /\ new[i][2] = building
    BY <1>1, FrameType
  <2>2. /\ Call(t, new) /\ todo[t] = <<>> /\ building' = NoRun
        /\ UNCHANGED <<fifo, nextRun, gen, inUse, lease, phase, closed, returned>>
    BY <1>4, Zenon DEF CloseRun, Free, arenaVars, runVars
  <2> HIDE DEF new
  <2>3. QED
    BY <1>3, <2>1, <2>2, Zenon
<1>5. CASE FailRun(t)
  <2> DEFINE new == <<Frame("fail", building), Frame("cancel", building), Frame("finish", building)>>
  <2>1. new \in Seq(Frames) /\ \A i \in 1 .. Len(new) : new[i][1] # "begin" /\ new[i][2] = building
    <3> DEFINE Ok(f) == f \in Frames /\ f[1] # "begin" /\ f[2] = building
    <3>1. Ok(Frame("fail", building)) /\ Ok(Frame("cancel", building)) /\ Ok(Frame("finish", building))
      BY <1>1, FrameType
    <3>2. QED
      BY SMTT(30), <3>1
  <2>2. /\ Call(t, new) /\ todo[t] = <<>> /\ building' = NoRun
        /\ UNCHANGED <<fifo, nextRun, gen, inUse, lease, phase, closed, returned>>
    BY <1>5, Zenon DEF FailRun, Free, arenaVars, runVars
  <2> HIDE DEF new
  <2>3. QED
    BY <1>3, <2>1, <2>2, Zenon
<1>6. QED
  BY <1>2, <1>4, <1>5, Zenon

(* close_run_submission and fail_run_submission close the run; the terminal  *)
(* fence pushes the retirement that a terminal phase calls for.              *)
LEMMA CloseKeeps ==
    ASSUME LeaseInv, NEW t \in Threads, NEW r \in Runs, Close(t, r) \/ Fail(t, r) \/ Finish(t, r)
    PROVE  LeaseInv'
<1> DEFINE Phases == {"RESERVED", "BUILDING", "PREPARED", "EXECUTING", "COMPLETED", "FAILED"}
<1>1. /\ fifo \in SUBSET Runs /\ nextRun \in Nat /\ phase \in [Runs -> Phases] /\ closed \in [Runs -> BOOLEAN]
      /\ building \in Runs \cup {NoRun} /\ building < nextRun
  BY Zenon DEF LeaseInv, RunTypes, Unused
<1>2. ASSUME NEW old \in Frames, At(t, old), old[1] \in Naming, old[2] = r PROVE r < nextRun
  <2>1. todo[t] \in Seq(Frames) /\ todo[t] # <<>> /\ Head(todo[t]) = old
    BY <1>2, Zenon DEF At, LeaseInv, TodoInv
  <2>2. 1 \in 1 .. Len(todo[t]) /\ todo[t][1] = old
    BY <2>1
  <2>3. QED
    BY <1>2, <2>2, Zenon DEF LeaseInv, Named, Pending
<1>3. CASE Close(t, r) \/ Fail(t, r)
  <2>1. PICK old \in {Frame("close", r), Frame("fail", r)} : At(t, old)
    BY <1>3, Zenon DEF Close, Fail
  <2>2. old \in Frames /\ old[1] \in Naming /\ old[1] # "retire" /\ old[2] = r
    BY <2>1, FrameType, SMTT(30) DEF Naming
  <2>3. r < nextRun
    BY <1>2, <2>1, <2>2, Zenon
  <2>4. PICK new \in {<<>>, <<Frame("refresh", r), Frame("activate", NoRun), Frame("retireExec", r), Frame("finish", r)>>} :
          Then(t, new)
    BY <1>3, Zenon DEF Close, Fail
  <2>5. Plain(new)
    <3> DEFINE Ok(f) == f \in Frames /\ f[1] \notin Naming \cup {"begin"}
    <3>1. Ok(Frame("refresh", r)) /\ Ok(Frame("activate", NoRun)) /\ Ok(Frame("retireExec", r)) /\ Ok(Frame("finish", r))
      BY FrameType DEF Naming
    <3>2. Plain(<<Frame("refresh", r), Frame("activate", NoRun)>>) /\ Plain(<<Frame("retireExec", r), Frame("finish", r)>>)
      BY <3>1, PlainSeq, Zenon
    <3>3. <<Frame("refresh", r), Frame("activate", NoRun), Frame("retireExec", r), Frame("finish", r)>> =
          <<Frame("refresh", r), Frame("activate", NoRun)>> \o <<Frame("retireExec", r), Frame("finish", r)>>
      OBVIOUS
    <3>4. QED
      BY <2>4, <3>2, <3>3, PlainSeq, ZenonT(30)
  <2>6. new \in Seq(Frames) /\ \A i \in 1 .. Len(new) : new[i][1] \notin Naming /\ new[i] # Frame("begin", NoRun)
    BY <2>5 DEF Plain, Frame
  <2>7. Moves(old, new)
    <3>1. new \in Seq(Frames) /\ \A i \in 1 .. Len(new) : new[i] # Frame("begin", NoRun)
      BY <2>6, Zenon
    <3>2. QED
      BY <2>1, <2>2, <2>4, <3>1, InvTodo, ThenMoves, Zenon
  <2>8. /\ UNCHANGED <<fifo, nextRun, building, gen, inUse, lease, returned>>
        /\ closed' = [closed EXCEPT ![r] = TRUE]
        /\ phase' = phase \/ phase' = [phase EXCEPT ![r] = IF @ = "BUILDING" THEN "PREPARED" ELSE @]
    BY <1>3, Zenon DEF Close, Fail, orchVars, arenaVars
  <2>9. phase' \in [Runs -> Phases] /\ \A p \in Runs : Terminal(phase'[p]) => Terminal(phase[p])
    BY <1>1, <2>8, Zenon DEF Terminal
  <2>10. closed' \in [Runs -> BOOLEAN] /\ \A p \in Runs : closed'[p] => closed[p] \/ p < nextRun
    BY <1>1, <2>3, <2>8, Zenon
  <2>11. ArenaTypes' /\ RunTypes' /\ Exclusive(fifo, inUse)' /\ Unused' /\ Gone'
    BY <1>1, <2>8, <2>9, <2>10, RunsKeep, ZenonT(30)
  <2>12. nextRun' \in Nat /\ nextRun <= nextRun' /\ fifo' = fifo /\ \A p : old # Frame("retire", p)
    BY <1>1, <2>2, <2>8, SMTT(30) DEF Frame
  <2>13. TodoInv' /\ Named' /\ RetirePending'
    BY <1>1, <2>2, <2>6, <2>7, <2>9, <2>12, FramesMove, Zenon
  <2>14. QED
    BY <2>11, <2>13, Zenon DEF LeaseInv
<1>4. CASE Finish(t, r)
  <2>1. Frame("finish", r) \in Frames /\ Frame("finish", r)[1] = "finish"
    BY FrameType
  <2>2. CASE Then(t, <<>>) /\ UNCHANGED phase
    <3>1. UNCHANGED kept /\ At(t, Frame("finish", r))
      BY <1>4, <2>2, Zenon DEF Finish, kept, orchVars, arenaVars
    <3>2. QED
      BY <2>1, <2>2, <3>1, PlainSeq, PlainThen, Zenon
  <2>3. CASE /\ Fenced(r) /\ Then(t, <<Frame("retire", r)>>)
             /\ phase' = [phase EXCEPT ![r] = IF failed[r] \/ error[r] THEN "FAILED" ELSE "COMPLETED"]
    <3> DEFINE new == <<Frame("retire", r)>>
    <3>1. r < nextRun
      BY <2>3, Zenon DEF Fenced, LeaseInv, Unused
    <3>2. Frame("retire", r) \in Frames /\ Frame("retire", r)[1] = "retire" /\ Frame("retire", r)[2] = r
      BY RetireFrame, Zenon
    <3>3. /\ new \in Seq(Frames) /\ \A i \in 1 .. Len(new) : new[i] = Frame("retire", r)
          /\ 1 \in 1 .. Len(new) /\ Then(t, new) /\ At(t, Frame("finish", r))
      BY <1>4, <2>3, <3>2, SMTT(30) DEF Finish
    <3>4. \A p : Frame("finish", r) # Frame("retire", p) /\ Frame("retire", r) # Frame("begin", NoRun)
      BY Zenon DEF Frame
    <3> HIDE DEF new
    <3>5. Moves(Frame("finish", r), new) /\ \A i \in 1 .. Len(new) : Pending(t, new[i])'
      BY <2>1, <3>3, <3>4, InvTodo, ThenMoves, Zenon
    <3>6. Pending(t, Frame("retire", r))'
      BY <3>3, <3>5, Zenon
    <3>7. UNCHANGED <<fifo, nextRun, building, gen, inUse, lease, closed, returned>>
      BY <1>4, Zenon DEF Finish, orchVars, arenaVars
    <3>8. phase' \in [Runs -> Phases] /\ \A p \in Runs : p # r => phase'[p] = phase[p]
      BY <1>1, <2>3, Zenon
    <3>9. ArenaTypes' /\ RunTypes' /\ Exclusive(fifo, inUse)' /\ Unused' /\ Gone'
      BY <1>1, <3>7, <3>8, RunsKeep, Zenon
    <3>10. \A p \in fifo' : Terminal(phase'[p]) =>
             \/ p \in fifo /\ Terminal(phase[p]) /\ Frame("finish", r) # Frame("retire", p)
             \/ \E u \in Threads : Pending(u, Frame("retire", p))'
      BY <1>1, <3>4, <3>6, <3>7, <3>8, ZenonT(30)
    <3>11. nextRun' \in Nat /\ nextRun <= nextRun' /\ fifo' \in SUBSET Runs
      BY SMTT(30), <1>1, <3>7
    <3>12. \A i \in 1 .. Len(new) : new[i][1] \in Naming => new[i][2] < nextRun'
      BY <3>1, <3>2, <3>3, <3>7, Zenon
    <3>13. TodoInv' /\ Named' /\ RetirePending'
      BY <2>1, <3>3, <3>5, <3>10, <3>11, <3>12, FramesMove, ZenonT(30)
    <3>14. QED
      BY <3>9, <3>13, Zenon DEF LeaseInv
  <2>4. QED
    BY <1>4, <2>2, <2>3, Zenon DEF Finish
<1>5. QED
  BY <1>3, <1>4, Zenon

(***************************************************************************)
(* The sections that lend, return and forget leases, and the theorems.     *)
(***************************************************************************)

(* Each of the frames that cancel_unstarted_run leaves behind names a task.  *)
LEMMA ConsumeFramesType ==
    ASSUME NEW r \in Runs, NEW K \in SUBSET Tasks
    PROVE  /\ ConsumeFrames(r, K) \in Seq(Frames)
           /\ \A i \in 1 .. Len(ConsumeFrames(r, K)) : ConsumeFrames(r, K)[i][1] = "consume"
<1> DEFINE n == Cardinality(K)
<1>1. IsFiniteSet(K) /\ K \in SUBSET Nat
  <2>1. IsFiniteSet(Tasks) /\ Tasks \in SUBSET Nat
    BY BoundsAssumption, FS_Interval, SMTT(30) DEF Tasks
  <2>2. QED
    BY <2>1, FS_Subset, Zenon
<1>2. n \in Nat /\ \A j \in 0 .. n - 1 : \E k \in K : Rank(K, k) = j
  BY <1>1, RankOnto, Zenon
<1>3. \A i \in 1 .. n : i - 1 \in 0 .. n - 1
  <2> HIDE DEF n
  <2>1. QED
    BY <1>2
<1>4. \A i \in 1 .. n : \E k \in K : Rank(K, k) = i - 1
  BY <1>2, <1>3, Zenon
<1>5. \A i \in 1 .. n : (CHOOSE k \in K : Rank(K, k) = i - 1) \in K
  BY <1>4, Zenon
<1>6. \A k \in K : <<"consume", r, k>> \in Frames
  BY BoundsAssumption DEF Frames, Runs, Tasks
<1> HIDE DEF n
<1>7. ConsumeFrames(r, K) = [i \in 1 .. n |-> <<"consume", r, CHOOSE k \in K : Rank(K, k) = i - 1>>]
  BY Zenon DEF ConsumeFrames, n
<1>8. ConsumeFrames(r, K) \in [1 .. n -> Frames]
  BY <1>5, <1>6, <1>7, Zenon
<1>9. \A c \in [1 .. n -> Frames] : c \in Seq(Frames) /\ Len(c) = n
  BY <1>2
<1>10. QED
  BY SMTT(30), <1>7, <1>8, <1>9

(* cancel_unstarted_run pushes the consumption of the tasks it found. *)
LEMMA CancelKeeps ==
    ASSUME LeaseInv, NEW t \in Threads, NEW r \in Runs, Cancel(t, r)
    PROVE  LeaseInv'
<1> DEFINE K == {k \in Tasks : task[r][k] \in Undispatched}
<1>1. Frame("cancel", r) \in Frames /\ Frame("cancel", r)[1] = "cancel"
  BY FrameType
<1>2. Plain(ConsumeFrames(r, K))
  BY ConsumeFramesType, Zenon DEF Plain, Naming
<1>3. UNCHANGED kept /\ At(t, Frame("cancel", r)) /\ Then(t, ConsumeFrames(r, K))
  BY Zenon DEF Cancel, kept, orchVars, arenaVars, runVars
<1> HIDE DEF K
<1>4. QED
  BY <1>1, <1>2, <1>3, PlainThen, Zenon

(* Lending among runs of the FIFO keeps the state of the runs. *)
LEMMA LendRuns ==
    ASSUME LeaseInv, UNCHANGED <<fifo, building, nextRun, closed, returned>>,
           phase' \in [Runs -> {"RESERVED", "BUILDING", "PREPARED", "EXECUTING", "COMPLETED", "FAILED"}],
           NEW p \in SUBSET fifo, NEW ph, NEW d, Lend(Given(p, ph, d, inUse), inUse)
    PROVE  ArenaTypes' /\ RunTypes' /\ Exclusive(fifo, inUse)' /\ Unused' /\ Gone'
<1>1. /\ ArenaTypes /\ fifo \in SUBSET Runs /\ inUse \in [Sets -> BOOLEAN] /\ Exclusive(fifo, inUse)
  BY Zenon DEF LeaseInv, RunTypes
<1>2. /\ ArenaTypes' /\ inUse' \in [Sets -> BOOLEAN] /\ \A r \in Runs \ fifo : lease'[r] = lease[r]
      /\ Exclusive(fifo, inUse)'
  <2>1. ArenaTypes' /\ inUse' \in [Sets -> BOOLEAN] /\ ExclusiveNext(fifo) /\ \A r \in Runs \ fifo : lease'[r] = lease[r]
    BY <1>1, LendKeeps, Zenon
  <2>2. Exclusive(fifo, inUse)'
    BY <2>1, Zenon DEF Exclusive, ExclusiveNext
  <2>3. QED
    BY <2>1, <2>2, Zenon
<1>3. RunTypes'
  BY <1>2, Zenon DEF LeaseInv, RunTypes
<1>4. Unused'
  BY <1>1, <1>2, Zenon DEF LeaseInv, Unused
<1>5. Gone'
  BY Zenon DEF LeaseInv, Gone
<1>6. QED
  BY <1>2, <1>3, <1>4, <1>5, Zenon

(* The sections that lend: the refresh of close_run_submission and both      *)
(* halves of an activation.                                                  *)
LEMMA LendSectionKeeps ==
    ASSUME LeaseInv, NEW t \in Threads,
           Activate(t) \/ \E r \in Runs : Refresh(t, r) \/ PublishExecuting(t, r)
    PROVE  LeaseInv'
<1> DEFINE Phases == {"RESERVED", "BUILDING", "PREPARED", "EXECUTING", "COMPLETED", "FAILED"}
<1>1. fifo \in SUBSET Runs /\ nextRun \in Nat /\ phase \in [Runs -> Phases]
  BY Zenon DEF LeaseInv, RunTypes
<1>2. ASSUME NEW old \in Frames, NEW new, Plain(new), At(t, old), Then(t, new), old[1] # "retire",
             UNCHANGED <<fifo, nextRun>>, \A r \in Runs : Terminal(phase'[r]) => Terminal(phase[r])
      PROVE  TodoInv' /\ Named' /\ RetirePending'
  <2>1. new \in Seq(Frames) /\ \A i \in 1 .. Len(new) : new[i][1] \notin Naming /\ new[i] # Frame("begin", NoRun)
    BY <1>2 DEF Plain, Frame
  <2>2. Moves(old, new)
    BY <1>2, <2>1, InvTodo, ThenMoves, ZenonT(30)
  <2>3. \A r : old # Frame("retire", r)
    BY <1>2, SMTT(30) DEF Frame
  <2>4. nextRun' \in Nat /\ nextRun <= nextRun' /\ fifo' \in SUBSET Runs
    BY <1>1, <1>2
  <2>5. QED
    BY <1>1, <1>2, <2>1, <2>2, <2>3, <2>4, FramesMove, ZenonT(30)
<1>3. Plain(<<>>)
  BY PlainSeq, Zenon
<1>4. ASSUME NEW r \in Runs, Refresh(t, r) PROVE LeaseInv'
  <2>1. Frame("refresh", r) \in Frames /\ Frame("refresh", r)[1] = "refresh"
    BY FrameType
  <2>2. /\ At(t, Frame("refresh", r)) /\ Then(t, <<>>) /\ Lend(Given(fifo, phase, depth, inUse), inUse)
        /\ UNCHANGED <<fifo, building, nextRun, closed, returned, phase>>
    BY <1>4, Zenon DEF Refresh, orchVars, runVars
  <2>3. TodoInv' /\ Named' /\ RetirePending'
    BY <1>2, <1>3, <2>1, <2>2, Zenon
  <2>4. ArenaTypes' /\ RunTypes' /\ Exclusive(fifo, inUse)' /\ Unused' /\ Gone'
    BY <1>1, <2>2, LendRuns, Zenon
  <2>5. QED
    BY <2>3, <2>4, Zenon DEF LeaseInv
<1>5. ASSUME NEW r \in Runs, PublishExecuting(t, r) PROVE LeaseInv'
  <2>1. Frame("publish", r) \in Frames /\ Frame("publish", r)[1] = "publish"
    BY FrameType
  <2>2. /\ At(t, Frame("publish", r)) /\ Then(t, Promoted(r)) /\ Lend(Given(fifo, phase', depth, inUse), inUse)
        /\ phase' = [phase EXCEPT ![r] = "EXECUTING"]
        /\ UNCHANGED <<fifo, building, nextRun, closed, returned>>
    BY <1>5, Zenon DEF PublishExecuting
  <2>3. Plain(Promoted(r))
    <3>1. Plain(<<Frame("announce", NoRun)>>) /\ Plain(<<Frame("retireExec", r), Frame("finish", r)>>)
      BY FrameType, PlainSeq, SMTT(30) DEF Naming
    <3>2. Promoted(r) = <<Frame("announce", NoRun)>> \o <<Frame("retireExec", r), Frame("finish", r)>>
      BY DEF Promoted
    <3>3. QED
      BY <3>1, <3>2, PlainSeq, Zenon
  <2>4. phase' \in [Runs -> Phases] /\ \A p \in Runs : Terminal(phase'[p]) => Terminal(phase[p])
    BY <1>1, <2>2, Zenon DEF Terminal
  <2>5. TodoInv' /\ Named' /\ RetirePending'
    BY <1>2, <2>1, <2>2, <2>3, <2>4, Zenon
  <2>6. ArenaTypes' /\ RunTypes' /\ Exclusive(fifo, inUse)' /\ Unused' /\ Gone'
    BY <2>2, <2>4, LendRuns, Zenon
  <2>7. QED
    BY <2>5, <2>6, Zenon DEF LeaseInv
<1>6. ASSUME Activate(t) PROVE LeaseInv'
  <2>1. Frame("activate", NoRun) \in Frames /\ Frame("activate", NoRun)[1] = "activate"
    BY FrameType
  <2>2. CASE Then(t, <<>>) /\ UNCHANGED arenaVars
    <3>1. UNCHANGED kept /\ At(t, Frame("activate", NoRun))
      BY <1>6, <2>2, Zenon DEF Activate, kept, orchVars, arenaVars, runVars
    <3>2. QED
      BY <1>3, <2>1, <2>2, <3>1, PlainThen, Zenon
  <2>3. CASE LET r == FirstRun(fifo)
             IN  Promotable /\ Lend(Given({r}, phase, depth, inUse), inUse) /\ Then(t, <<Frame("publish", r)>>)
    <3> DEFINE r == FirstRun(fifo)
    <3>1. r \in fifo
      <4>1. IsFiniteSet(Runs) /\ Runs \in SUBSET Nat
        BY BoundsAssumption, FS_Interval, SMTT(30) DEF Runs
      <4>2. IsFiniteSet(fifo) /\ fifo \in SUBSET Nat /\ fifo # {}
        BY <1>1, <2>3, <4>1, FS_Subset, Zenon DEF Promotable
      <4>3. QED
        BY <4>2, FirstRunIn, Zenon
    <3>2. /\ At(t, Frame("activate", NoRun)) /\ Then(t, <<Frame("publish", r)>>)
          /\ Lend(Given({r}, phase, depth, inUse), inUse)
          /\ UNCHANGED <<fifo, building, nextRun, closed, returned, phase>>
      BY <1>6, <2>3, Zenon DEF Activate, orchVars, runVars
    <3> HIDE DEF r
    <3>3. r \in Runs /\ {r} \in SUBSET fifo
      BY <1>1, <3>1, Zenon
    <3>4. Plain(<<Frame("publish", r)>>)
      BY <3>3, FrameType, PlainSeq, Zenon DEF Naming
    <3>5. TodoInv' /\ Named' /\ RetirePending'
      BY <1>2, <2>1, <3>2, <3>4, Zenon
    <3>6. ArenaTypes' /\ RunTypes' /\ Exclusive(fifo, inUse)' /\ Unused' /\ Gone'
      BY <1>1, <3>2, <3>3, LendRuns, Zenon
    <3>7. QED
      BY <3>5, <3>6, Zenon DEF LeaseInv
  <2>4. QED
    BY <1>6, <2>2, <2>3, Zenon DEF Activate
<1>7. QED
  BY <1>4, <1>5, <1>6, Zenon

(* A run that owns its lease is in the FIFO, so no retirement of it is       *)
(* behind it and it returns the lease: the first retirement returns it, and  *)
(* a second returns nothing.                                                 *)
LEMMA ReturnInv ==
    ASSUME LeaseInv, NEW r \in Runs
    PROVE  /\ UsedWithout(r, Returns(r)) \in [Sets -> BOOLEAN]
           /\ Exclusive(fifo \ {r}, UsedWithout(r, Returns(r)))
<1>1. ArenaTypes /\ inUse \in [Sets -> BOOLEAN] /\ fifo \in SUBSET Runs /\ Exclusive(fifo, inUse)
  BY Zenon DEF LeaseInv, RunTypes
<1>2. Returns(r) \in BOOLEAN /\ (Returns(r) => lease[r].gen # 0 /\ gen[lease[r].set] = lease[r].gen)
  BY Zenon DEF Returns
<1>3. OwnsIn(r, inUse) => Returns(r)
  BY <1>1, Zenon DEF LeaseInv, Gone, Exclusive, OwnsIn, Returns
<1>4. QED
  BY <1>1, <1>2, <1>3, ReturnKeeps, Zenon

(* retire_terminal_run: the run leaves the FIFO with its lease, and what is  *)
(* free is lent to the runs behind it.                                       *)
LEMMA RetireKeeps ==
    ASSUME LeaseInv, NEW t \in Threads, NEW r \in Runs, Retire(t, r)
    PROVE  LeaseInv'
<1> DEFINE old == Frame("retire", r)
           rest == fifo \ {r}
<1>1. /\ ArenaTypes /\ RunTypes /\ Exclusive(fifo, inUse) /\ Gone /\ fifo \in SUBSET Runs /\ nextRun \in Nat
      /\ \A p \in fifo : p < nextRun
  BY Zenon DEF LeaseInv, RunTypes, Unused
<1>2. /\ At(t, old) /\ fifo' = rest /\ returned' = [returned EXCEPT ![r] = TRUE]
      /\ Lend(Given(rest, phase, Folded, UsedWithout(r, Returns(r))), UsedWithout(r, Returns(r)))
      /\ UNCHANGED <<building, nextRun, phase, closed>>
  BY Zenon DEF Retire, UsedWithout
<1>3. old \in Frames /\ old[1] = "retire" /\ old[2] = r
  BY FrameType
<1>4. r < nextRun
  <2>1. todo[t] \in Seq(Frames) /\ todo[t] # <<>> /\ Head(todo[t]) = old
    BY <1>2, Zenon DEF At, LeaseInv, TodoInv
  <2>2. 1 \in 1 .. Len(todo[t]) /\ todo[t][1] = old
    BY <2>1
  <2>3. QED
    BY <1>3, <2>2, Zenon DEF LeaseInv, Named, Pending, Naming
<1>5. /\ ArenaTypes' /\ inUse' \in [Sets -> BOOLEAN] /\ ExclusiveNext(rest)
      /\ \A p \in Runs \ rest : lease'[p] = lease[p]
  <2>1. UsedWithout(r, Returns(r)) \in [Sets -> BOOLEAN] /\ Exclusive(rest, UsedWithout(r, Returns(r)))
    BY ReturnInv, Zenon
  <2>2. rest \in SUBSET Runs
    BY <1>1, Zenon
  <2> HIDE DEF rest
  <2>3. QED
    BY <1>1, <1>2, <2>1, <2>2, LendKeeps, Zenon
<1>6. Exclusive(fifo, inUse)'
  BY <1>2, <1>5, Zenon DEF Exclusive, ExclusiveNext
<1>7. RunTypes'
  BY <1>1, <1>2, <1>5, Zenon DEF RunTypes
<1>8. Unused'
  <2>1. \A p \in Runs : lease'[p] # NoLease => p < nextRun
    BY <1>1, <1>5, Zenon DEF LeaseInv, Unused
  <2>2. \A p \in Runs : returned'[p] => p < nextRun
    BY <1>1, <1>2, <1>4, Zenon DEF LeaseInv, Unused, RunTypes
  <2>3. QED
    BY <1>1, <1>2, <2>1, <2>2, Zenon DEF LeaseInv, Unused
<1>9. Gone'
  BY <1>1, <1>2, Zenon DEF Gone, RunTypes
<1>10. PICK new : Plain(new) /\ Then(t, new)
  <2>1. PICK op \in {"announce", "notify"} : Then(t, <<Frame(op, NoRun), Frame("activate", NoRun)>>)
    BY Zenon DEF Retire
  <2>2. Plain(<<Frame(op, NoRun), Frame("activate", NoRun)>>)
    BY FrameType, PlainSeq, SMTT(30) DEF Naming
  <2>3. QED
    BY <2>1, <2>2, Zenon
<1>11. new \in Seq(Frames) /\ \A i \in 1 .. Len(new) : new[i][1] \notin Naming /\ new[i] # Frame("begin", NoRun)
  BY <1>10 DEF Plain, Frame
<1>12. Moves(old, new)
  BY <1>2, <1>3, <1>10, <1>11, InvTodo, ThenMoves, ZenonT(30)
<1>13. \A p \in fifo' : p \in fifo /\ old # Frame("retire", p)
  BY <1>2, Zenon DEF Frame
<1>14. nextRun' \in Nat /\ nextRun <= nextRun' /\ fifo' \in SUBSET Runs
  BY SMTT(30), <1>1, <1>2
<1> HIDE DEF old
<1>15. TodoInv' /\ Named' /\ RetirePending'
  BY <1>2, <1>3, <1>11, <1>12, <1>13, <1>14, FramesMove, ZenonT(30)
<1>16. QED
  BY <1>5, <1>6, <1>7, <1>8, <1>9, <1>15, ZenonT(30) DEF LeaseInv

(* A terminal run that no call holds is not in the FIFO: its retirement is   *)
(* behind it.                                                                *)
LEMMA ForgottenIsGone ==
    ASSUME LeaseInv, NEW r \in Runs, Terminal(phase[r]), ~Held(r)
    PROVE  r \notin fifo
<1> SUFFICES ASSUME r \in fifo PROVE FALSE
  OBVIOUS
<1>1. PICK u \in Threads : Pending(u, Frame("retire", r))
  BY Zenon DEF LeaseInv, RetirePending
<1>2. Frame("retire", r)[2] = r
  BY FrameType, Zenon
<1>3. QED
  BY <1>1, <1>2, Zenon DEF Held, Pending

(* release_run forgets a terminal run that no call holds. *)
LEMMA ReleaseKeeps ==
    ASSUME LeaseInv, NEW t \in Users, NEW r \in Runs, ReleaseRun(t, r)
    PROVE  LeaseInv'
<1>1. UNCHANGED <<fifo, building, nextRun, todo>> /\ Terminal(phase[r])
  BY Zenon DEF ReleaseRun
<1>2. CASE Held(r)
  <2>1. UNCHANGED <<kept, todo>>
    BY <1>1, <1>2, Zenon DEF ReleaseRun, kept, arenaVars, runVars
  <2>2. QED
    BY <2>1, Stays, Zenon
<1>3. CASE ~Held(r)
  <2>1. r \notin fifo
    BY <1>1, <1>3, ForgottenIsGone, Zenon
  <2>2. /\ phase' = [phase EXCEPT ![r] = "RESERVED"] /\ closed' = [closed EXCEPT ![r] = FALSE]
        /\ returned' = [returned EXCEPT ![r] = FALSE] /\ lease' = [lease EXCEPT ![r] = NoLease]
        /\ UNCHANGED <<gen, inUse>>
    BY <1>3, Zenon DEF ReleaseRun, Forget
  <2>3. ArenaTypes /\ RunTypes /\ Exclusive(fifo, inUse) /\ Unused /\ Gone
    BY Zenon DEF LeaseInv
  <2>4. NoLease \in Lease /\ NoLease.gen = 0
    BY GrantAssumption DEF NoLease, Lease
  <2>5. lease'[r] = NoLease /\ \A p \in Runs : p # r => lease'[p] = lease[p]
    BY <2>2, <2>3, Zenon DEF ArenaTypes
  <2>6. ArenaTypes'
    BY <2>2, <2>3, <2>4, <2>5, Zenon DEF ArenaTypes
  <2>7. RunTypes'
    BY <1>1, <2>2, <2>3, Zenon DEF RunTypes
  <2>8. ~OwnsIn(r, inUse)' /\ ~OwnsIn(r, inUse)
    BY <2>1, <2>3, <2>4, <2>5, ZenonT(30) DEF OwnsIn, Exclusive
  <2>9. \A p \in Runs : p # r => (OwnsIn(p, inUse)' <=> OwnsIn(p, inUse))
    BY <2>2, <2>5, Zenon DEF OwnsIn
  <2>10. fifo \in SUBSET Runs
    BY <2>3, Zenon DEF RunTypes
  <2>11. Exclusive(fifo, inUse)'
    <3>1. \A p \in fifo : p # r /\ p \in Runs /\ lease'[p] = lease[p]
      BY <2>1, <2>5, <2>10, Zenon
    <3>2. \A p \in fifo : lease'[p] # NoLease => OwnsIn(p, inUse)'
      BY <2>3, <2>9, <3>1, Zenon DEF Exclusive
    <3>3. \A p \in Runs : OwnsIn(p, inUse)' => p \in fifo /\ OwnsIn(p, inUse)
      BY <2>3, <2>8, <2>9, ZenonT(30) DEF Exclusive
    <3>4. \A p, q \in Runs : OwnsIn(p, inUse)' /\ OwnsIn(q, inUse)' /\ lease'[p].set = lease'[q].set => p = q
      BY <2>3, <3>1, <3>3, ZenonT(30) DEF Exclusive
    <3>5. \A s \in Sets : inUse'[s] => \E p \in fifo : OwnsIn(p, inUse)' /\ lease'[p].set = s
      BY <2>2, <2>3, <2>9, <3>1, ZenonT(30) DEF Exclusive
    <3>6. QED
      BY <1>1, <3>2, <3>3, <3>4, <3>5, ZenonT(30) DEF Exclusive
  <2>12. Unused' /\ Gone'
    BY <1>1, <2>1, <2>2, <2>3, <2>5, Zenon DEF Unused, Gone, RunTypes
  <2>13. TodoInv' /\ Named'
    BY <1>1, Zenon DEF LeaseInv, TodoInv, BeginAlone, Named, Pending
  <2>14. RetirePending'
    BY <1>1, <2>1, <2>2, <2>3, Zenon DEF LeaseInv, RetirePending, Pending, RunTypes
  <2>15. QED
    BY <2>6, <2>7, <2>11, <2>12, <2>13, <2>14, ZenonT(30) DEF LeaseInv
<1>4. QED
  BY <1>2, <1>3, Zenon

-----------------------------------------------------------------------------
(* Nothing has begun and no section is pending. *)
LEMMA LeaseInit == Init => LeaseInv
<1> SUFFICES ASSUME Init PROVE LeaseInv
  OBVIOUS
<1>1. /\ fifo = {} /\ building = NoRun /\ nextRun = 1
      /\ gen = [s \in Sets |-> 0] /\ inUse = [s \in Sets |-> FALSE]
      /\ phase = [r \in Runs |-> "RESERVED"] /\ closed = [r \in Runs |-> FALSE]
      /\ lease = [r \in Runs |-> NoLease] /\ returned = [r \in Runs |-> FALSE]
      /\ todo = [t \in Threads |-> <<>>]
  BY Zenon DEF Init
<1>2. NoLease \in Lease /\ NoLease.gen = 0
  BY GrantAssumption DEF NoLease, Lease
<1>3. ArenaTypes
  BY <1>1, <1>2, Zenon DEF ArenaTypes
<1>4. RunTypes
  BY <1>1, Zenon DEF RunTypes
<1>5. Exclusive(fifo, inUse)
  BY <1>1, <1>2, Zenon DEF Exclusive, OwnsIn
<1>6. Unused /\ Gone
  BY <1>1, SMTT(30) DEF Unused, Gone, NoRun
<1>7. todo \in [Threads -> Seq(Frames)] /\ \A t \in Threads : \A f : ~Pending(t, f)
  BY <1>1 DEF Pending
<1>8. TodoInv /\ Named /\ RetirePending
  BY <1>1, <1>7, Zenon DEF TodoInv, BeginAlone, Named, RetirePending
<1>9. QED
  BY <1>3, <1>4, <1>5, <1>6, <1>8, Zenon DEF LeaseInv

(* Every step keeps the invariant. *)
LEMMA LeaseStep == LeaseInv /\ [Next]_vars => LeaseInv'
<1> SUFFICES ASSUME LeaseInv, [Next]_vars PROVE LeaseInv'
  OBVIOUS
<1>1. CASE UNCHANGED vars
  <2>1. UNCHANGED <<kept, todo>>
    BY <1>1, Zenon DEF vars, kept, orchVars, arenaVars, runVars
  <2>2. QED
    BY <2>1, Stays, Zenon
<1>2. ASSUME NEW t \in Threads, Sections(t) PROVE LeaseInv'
  <2>1. CASE BeginWoken(t)
    BY <2>1, BeginKeeps, Zenon
  <2>2. CASE Activate(t)
    BY <2>2, LendSectionKeeps, Zenon
  <2>3. CASE Early(t) \/ \E op \in {"announce", "notify"} : Announce(t, op)
    BY <2>3, PlainAloneKeeps, Zenon
  <2>4. CASE \E r \in Runs :
          \/ Await(t, r) \/ Cancel(t, r) \/ Drop(t, r) \/ RetireExec(t, r)
          \/ \E k \in Tasks : Consume(t, r, k)
    BY <2>4, CancelKeeps, PlainSectionKeeps, Zenon
  <2>5. CASE \E r \in Runs : Close(t, r) \/ Fail(t, r) \/ Finish(t, r)
    BY <2>5, CloseKeeps, Zenon
  <2>6. CASE \E r \in Runs : Refresh(t, r) \/ PublishExecuting(t, r)
    BY <2>6, LendSectionKeeps, Zenon
  <2>7. CASE \E r \in Runs : Retire(t, r)
    BY <2>7, RetireKeeps, Zenon
  <2>8. QED
    BY <1>2, <2>1, <2>2, <2>3, <2>4, <2>5, <2>6, <2>7, ZenonT(30) DEF Sections
<1>3. ASSUME NEW t \in Users, User(t) PROVE LeaseInv'
  <2>1. t \in Threads
    BY Zenon DEF Threads
  <2>2. QED
    BY <1>3, <2>1, BeginKeeps, BuildKeeps, PassKeeps, ReleaseKeeps, ZenonT(30) DEF User
<1>4. ASSUME NEW r \in Runs, NEW k \in Tasks,
             Endpoint(r, k) \/ Report(r, k) \/ \E t \in Threads : LastRelease(t, r, k)
      PROVE  LeaseInv'
  <2>1. Sched \in Threads
    BY Zenon DEF Threads
  <2>2. QED
    BY <1>4, <2>1, EndpointKeeps, CancelKeeps, PlainSectionKeeps, Zenon
<1>5. QED
  BY <1>1, <1>2, <1>3, <1>4, PassKeeps, Zenon DEF Next

(* Leases are exclusive in every reachable state, for any number of users,   *)
(* runs, tasks and resource sets: a set in use has one holder, which is in   *)
(* the FIFO, and a run there keeps the lease it was given, although any of   *)
(* several threads may retire it, more than once, while others lend.         *)
THEOREM LeasesExclusive == Spec => []LeaseExclusive
<1>1. LeaseInv => LeaseExclusive
  <2> SUFFICES ASSUME LeaseInv PROVE LeaseExclusive
    OBVIOUS
  <2>1. Exclusive(fifo, inUse) /\ fifo \in SUBSET Runs
    BY Zenon DEF LeaseInv, RunTypes
  <2>2. ASSUME NEW s \in Sets, inUse[s]
        PROVE  \E r \in fifo : {q \in Runs : Owns(q) /\ lease[q].set = s} = {r}
    <3>1. PICK r \in fifo : OwnsIn(r, inUse) /\ lease[r].set = s
      BY <2>1, <2>2, Zenon DEF Exclusive
    <3>2. \A q \in Runs : Owns(q) /\ lease[q].set = s <=> q = r
      BY <2>1, <3>1, Zenon DEF Exclusive, Owns
    <3>3. QED
      BY <2>1, <3>1, <3>2, Zenon
  <2>3. ASSUME NEW s \in Sets, NEW r \in fifo, {q \in Runs : Owns(q) /\ lease[q].set = s} = {r} PROVE inUse[s]
    <3>1. Owns(r) /\ lease[r].set = s
      BY <2>3, Zenon
    <3>2. QED
      BY <3>1, Zenon DEF Owns, OwnsIn
  <2>4. QED
    BY <2>1, <2>2, <2>3, Zenon DEF LeaseExclusive, Exclusive, Owns
<1>2. QED
  BY <1>1, LeaseInit, LeaseStep, PTL DEF Spec

-----------------------------------------------------------------------------
(* Leases along the FIFO *)

(* Every step keeps leases in FIFO order. *)
LEMMA PrefixStep == LeaseInv /\ LeasesArePrefix /\ [Next]_vars => LeasesArePrefix'
<1> SUFFICES ASSUME LeaseInv, LeasesArePrefix, [Next]_vars PROVE LeasesArePrefix'
  OBVIOUS
<1>1. /\ ArenaTypes /\ RunTypes /\ Exclusive(fifo, inUse) /\ Gone /\ fifo \in SUBSET Runs
      /\ inUse \in [Sets -> BOOLEAN]
  BY Zenon DEF LeaseInv, RunTypes
<1>2. PrefixIn(fifo, inUse)
  BY Zenon DEF PrefixIn, LeasesArePrefix, Owns
<1>3. CASE UNCHANGED <<fifo, gen, inUse, lease>>
  BY <1>3, Zenon DEF LeasesArePrefix, Owns, OwnsIn
<1>4. ASSUME NEW t \in Threads, Publish(t), nextRun <= MaxRuns, UNCHANGED arenaVars PROVE LeasesArePrefix'
  <2>1. fifo' = fifo \cup {nextRun} /\ UNCHANGED <<gen, inUse, lease>>
    BY <1>4, Zenon DEF Publish, arenaVars
  <2>2. \A r \in fifo : r < nextRun /\ r \in Nat
    <3>1. Runs \subseteq Nat
      BY BoundsAssumption, SMT DEF Runs
    <3>2. QED
      BY <1>1, <3>1, Zenon DEF LeaseInv, Unused
  <2>3. nextRun \in Nat /\ nextRun \in Runs
    <3>1. nextRun \in Nat /\ building \in Nat /\ building < nextRun
      <4>1. nextRun \in Nat /\ building \in Runs \cup {NoRun} /\ building < nextRun
        BY Zenon DEF LeaseInv, RunTypes, Unused
      <4>2. Runs \cup {NoRun} \subseteq Nat
        BY BoundsAssumption, SMT DEF Runs, NoRun
      <4>3. QED
        BY <4>1, <4>2, Zenon
    <3>2. QED
      BY <1>4, <3>1, BoundsAssumption, SMTT(30) DEF Runs
  <2>4. ~OwnsIn(nextRun, inUse)
    <3>1. ~(nextRun < nextRun)
      BY <2>3, SMT
    <3>2. QED
      BY <1>1, <2>3, <3>1, OwnerLeased, Zenon DEF LeaseInv, Unused
  <2>5. \A p, r \in fifo' : p < r /\ OwnsIn(r, inUse) => OwnsIn(p, inUse)
    <3> SUFFICES ASSUME NEW p \in fifo', NEW r \in fifo', p < r, OwnsIn(r, inUse) PROVE OwnsIn(p, inUse)
      OBVIOUS
    <3>1. r \in fifo
      BY <2>1, <2>4, Zenon
    <3>2. p \in fifo
      BY SMTT(30), <2>1, <2>2, <2>3, <3>1
    <3>3. QED
      BY <1>2, <3>1, <3>2, Zenon DEF PrefixIn
  <2>6. QED
    BY <2>1, <2>5, Zenon DEF LeasesArePrefix, Owns, OwnsIn
<1>5. ASSUME NEW ph, NEW d, Lend(Given(fifo, ph, d, inUse), inUse), UNCHANGED fifo PROVE LeasesArePrefix'
  <2>1. \A x, y \in fifo : x < y /\ OwnsIn(y, inUse)' => OwnsIn(x, inUse)'
    BY <1>1, <1>2, <1>5, LendInOrder, Zenon
  <2>2. QED
    BY <1>5, <2>1, Zenon DEF LeasesArePrefix, Owns
<1>6. ASSUME NEW t \in Threads, Activate(t) PROVE LeasesArePrefix'
  <2>1. CASE UNCHANGED arenaVars
    BY <1>3, <1>6, <2>1, Zenon DEF Activate, orchVars, arenaVars
  <2>2. CASE Promotable /\ Lend(Given({FirstRun(fifo)}, phase, depth, inUse), inUse)
    <3>1. FirstRun(fifo) \in fifo /\ \A x \in fifo : FirstRun(fifo) <= x
      <4>1. IsFiniteSet(Runs) /\ Runs \in SUBSET Nat
        BY BoundsAssumption, FS_Interval, SMTT(30) DEF Runs
      <4>2. IsFiniteSet(fifo) /\ fifo \in SUBSET Nat /\ fifo # {}
        BY <1>1, <2>2, <4>1, FS_Subset, Zenon DEF Promotable
      <4>3. QED
        BY <4>2, FirstRunIn, Zenon
    <3>2. {FirstRun(fifo)} \in SUBSET fifo
      BY <3>1, Zenon
    <3>3. \A x, y \in fifo : x < y /\ OwnsIn(y, inUse)' => OwnsIn(x, inUse)'
      BY <1>1, <1>2, <2>2, <3>1, <3>2, LendInOrder, Zenon
    <3>4. UNCHANGED fifo
      BY <1>6, Zenon DEF Activate, orchVars
    <3>5. QED
      BY <3>3, <3>4, Zenon DEF LeasesArePrefix, Owns
  <2>3. QED
    BY <1>6, <2>1, <2>2, Zenon DEF Activate
<1>7. ASSUME NEW t \in Threads, NEW r \in Runs, Retire(t, r) PROVE LeasesArePrefix'
  <2> DEFINE rest == fifo \ {r}
  <2>1. fifo' = rest /\ Lend(Given(rest, phase, Folded, UsedWithout(r, Returns(r))), UsedWithout(r, Returns(r)))
    BY <1>7, Zenon DEF Retire, UsedWithout
  <2>2. UsedWithout(r, Returns(r)) \in [Sets -> BOOLEAN] /\ Exclusive(rest, UsedWithout(r, Returns(r)))
    BY ReturnInv, Zenon
  <2>3. rest \in SUBSET Runs /\ rest \in SUBSET fifo
    BY <1>1, Zenon
  <2> HIDE DEF rest
  <2>4. PrefixIn(rest, UsedWithout(r, Returns(r)))
    <3> SUFFICES ASSUME NEW x \in rest, NEW y \in rest, x < y, OwnsIn(y, UsedWithout(r, Returns(r)))
                 PROVE  OwnsIn(x, UsedWithout(r, Returns(r)))
      BY Zenon DEF PrefixIn
    <3>1. lease[y] # NoLease /\ lease[y].set \in Sets
      BY <1>1, <2>3, OwnerLeased, Zenon
    <3>2. OwnsIn(y, inUse)
      BY <3>1, Zenon DEF OwnsIn, UsedWithout
    <3>3. OwnsIn(x, inUse)
      BY <1>2, <2>3, <3>2, ZenonT(30) DEF PrefixIn
    <3>4. lease[x] # NoLease
      BY <1>1, <2>3, <3>3, OwnerLeased, Zenon
    <3>5. QED
      BY <2>2, <3>4, Zenon DEF Exclusive
  <2>5. \A x, y \in rest : x < y /\ OwnsIn(y, inUse)' => OwnsIn(x, inUse)'
    BY <1>1, <2>1, <2>2, <2>3, <2>4, LendInOrder, Zenon
  <2>6. QED
    BY <2>1, <2>5, Zenon DEF LeasesArePrefix, Owns
<1>8. ASSUME NEW t \in Users, NEW r \in Runs, ReleaseRun(t, r) PROVE LeasesArePrefix'
  <2>1. UNCHANGED fifo
    BY <1>8, Zenon DEF ReleaseRun
  <2>2. CASE Held(r)
    BY <1>3, <1>8, <2>2, Zenon DEF ReleaseRun, arenaVars
  <2>3. CASE ~Held(r)
    <3>1. lease' = [lease EXCEPT ![r] = NoLease] /\ UNCHANGED <<gen, inUse>>
      BY <1>8, <2>3, Zenon DEF ReleaseRun, Forget
    <3>2. r \notin fifo
      BY <1>8, <2>3, ForgottenIsGone, Zenon DEF ReleaseRun
    <3>3. \A p \in fifo : lease'[p] = lease[p]
      BY <1>1, <3>1, <3>2, Zenon DEF ArenaTypes
    <3>4. \A p \in fifo : OwnsIn(p, inUse)' <=> OwnsIn(p, inUse)
      BY <3>1, <3>3, Zenon DEF OwnsIn
    <3>5. QED
      BY <1>2, <2>1, <3>4, Zenon DEF LeasesArePrefix, Owns, PrefixIn
  <2>4. QED
    BY <2>2, <2>3, Zenon
<1>9. ASSUME NEW t \in Threads, Sections(t) PROVE LeasesArePrefix'
  <2>1. CASE BeginWoken(t)
    BY <1>3, <1>4, <2>1, Zenon DEF BeginWoken, orchVars, arenaVars
  <2>2. CASE Early(t) \/ \E op \in {"announce", "notify"} : Announce(t, op)
    BY <1>3, <2>2, Zenon DEF Early, Announce, orchVars, arenaVars
  <2>3. CASE \E r \in Runs :
          \/ Await(t, r) \/ Cancel(t, r) \/ Drop(t, r) \/ RetireExec(t, r) \/ Close(t, r) \/ Fail(t, r) \/ Finish(t, r)
          \/ \E k \in Tasks : Consume(t, r, k)
    BY <1>3, <2>3, ZenonT(30) DEF Await, Cancel, Drop, RetireExec, Close, Fail, Finish, Consume, orchVars, arenaVars
  <2>4. CASE \E r \in Runs : Refresh(t, r) \/ PublishExecuting(t, r)
    BY <1>5, <2>4, Zenon DEF Refresh, PublishExecuting, orchVars
  <2>5. QED
    BY <1>6, <1>7, <1>9, <2>1, <2>2, <2>3, <2>4, ZenonT(30) DEF Sections
<1>10. ASSUME NEW t \in Users, User(t) PROVE LeasesArePrefix'
  <2>1. CASE BeginRun(t)
    BY <1>3, <1>4, <2>1, Zenon DEF BeginRun, orchVars, arenaVars, Threads
  <2>2. CASE AwaitCall(t) \/ CloseRun(t) \/ FailRun(t)
    BY <1>3, <2>2, Zenon DEF AwaitCall, CloseRun, FailRun, orchVars, arenaVars
  <2>3. CASE \/ \E k \in Tasks, depends \in BOOLEAN : Submit(t, k, depends)
             \/ \E r \in Runs : WaitRun(t, r)
    BY <1>3, <2>3, Zenon DEF Submit, WaitRun, orchVars, arenaVars
  <2>4. QED
    BY <1>8, <1>10, <2>1, <2>2, <2>3, Zenon DEF User
<1>11. CASE Loop
  BY <1>3, <1>11, Zenon DEF Loop, PassStart, ClaimsDone, PassEnd, Claim, Stage, orchVars, arenaVars
<1>12. ASSUME NEW r \in Runs, NEW k \in Tasks,
              Endpoint(r, k) \/ Report(r, k) \/ \E t \in Threads : LastRelease(t, r, k)
       PROVE  LeasesArePrefix'
  BY Zenon, <1>3, <1>12
     DEF Endpoint, TaskAccepted, FrameStaged, TaskEnded, TaskCompleted, Report, Over, Outcome, LastRelease, orchVars, arenaVars
<1>13. CASE UNCHANGED vars
  BY <1>3, <1>13, Zenon DEF vars, orchVars, arenaVars
<1>14. QED
  BY <1>9, <1>10, <1>11, <1>12, <1>13, Zenon DEF Next

(* Leases follow the FIFO in every reachable state: none is held behind a    *)
(* run that has none, so the sets in use never keep the head of the FIFO     *)
(* from being activated.                                                     *)
THEOREM LeasesInOrder == Spec => []LeasesArePrefix
<1>1. Init => LeasesArePrefix
  BY Zenon DEF Init, LeasesArePrefix
<1>2. QED
  BY <1>1, LeaseInit, LeaseStep, PrefixStep, PTL DEF Spec
=============================================================================
