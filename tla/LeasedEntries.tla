--------------------------- MODULE LeasedEntries ---------------------------
(***************************************************************************)
(* What the credit call gate promises its users: calls into the runtime    *)
(* are leases.  A closing gate leases to nobody but its own cancellation,  *)
(* and the entries are detached in one step, when no lease is out, once.   *)
(***************************************************************************)
CONSTANT Threads

VARIABLES
    state,     \* "Open", "Closing" or "Detached"
    leased     \* threads that may be inside the runtime

Init == state = "Open" /\ leased = {}

Lease(t) == state = "Open" /\ t \notin leased /\ leased' = leased \cup {t} /\ state' = state

(* The owner of the teardown holds a lease while it cancels the waits. *)
Claim(t) == state = "Open" /\ t \notin leased /\ leased' = leased \cup {t} /\ state' = "Closing"

Return(t) == t \in leased /\ leased' = leased \ {t} /\ state' = state

Detach == state = "Closing" /\ leased = {} /\ leased' = leased /\ state' = "Detached"

(* The owner returns its lease and, being the last, detaches in one step. *)
ReturnAndDetach(t) == state = "Closing" /\ leased = {t} /\ leased' = {} /\ state' = "Detached"

Next == Detach \/ \E t \in Threads : Lease(t) \/ Claim(t) \/ Return(t) \/ ReturnAndDetach(t)

Spec == Init /\ [][Next]_<<state, leased>>
=============================================================================
