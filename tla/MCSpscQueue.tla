---------------------------- MODULE MCSpscQueue ----------------------------
EXTENDS SpscQueue

(* Seven messages carry a counter (range 6) over its wrap; the others mix    *)
(* sizes so that payloads straddle the end of a three-byte arena.            *)
Scenario(in, out, sizes, window, events) ==
    [in |-> in, out |-> out, sizes |-> sizes, window |-> window, events |-> events]
QueueScenarios ==
    {Scenario(7, 0, {2}, 1, {}), Scenario(0, 7, {2}, 1, {}),
     Scenario(4, 0, {0, 1, 2}, 2, {}), Scenario(0, 4, {0, 1, 2}, 1, {}),
     Scenario(3, 1, {2}, 2, {"stop"}), Scenario(2, 0, {1}, 1, {"stop", "free"}),
     Scenario(1, 1, {1}, 1, {"fault", "free"}), Scenario(1, 1, {1}, 1, {"misuse"})}

(* A payload as large as the two-byte arena, behind a smaller one. *)
EmptyArena == {Scenario(2, 0, {1, 2}, 1, {})}
=============================================================================
