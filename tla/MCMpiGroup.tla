----------------------------- MODULE MCMpiGroup -----------------------------
(* Instances of MpiGroup: each scenario sets up one of the cases.            *)
EXTENDS MpiGroup

Single(slot, r) == [kind |-> "single", slot |-> slot, members |-> {r}]
Group(slot, rs) == [kind |-> "next", slot |-> slot, members |-> rs]
SubGroup(slot, n) == [kind |-> "sub", slot |-> slot, members |-> 0..(n - 1)]
Base == [tasks |-> <<>>, world |-> {0, 1}, control |-> 99, rejects |-> {}, stop |-> FALSE,
         faults |-> {}, events |-> {}]
Three == [Base EXCEPT !.world = {0, 1, 2}]
MCScenarios == {
    \* two batches and a single behind them, with application errors
    [Base EXCEPT !.tasks = <<Group(1, {0, 1}), Group(2, {0, 1}), Single(3, 0)>>, !.faults = {"failed"}],
    \* the same slot again, over a job that breaks or dies
    [Base EXCEPT !.tasks = <<Group(1, {0, 1}), Group(1, {0, 1})>>, !.faults = {"broken"}, !.events = {"die"}],
    \* close with a batch and a control call in flight
    [Base EXCEPT !.tasks = <<Group(1, {0, 1})>>, !.control = 1, !.stop = TRUE],
    \* a rendezvous of three that one rank never reaches
    [Three EXCEPT !.tasks = <<Group(1, {0, 1, 2}), Group(2, {0, 1})>>, !.rejects = {<<1, 0>>}],
    \* control and close over a job that may break or be dead
    [Base EXCEPT !.tasks = <<Single(1, 0)>>, !.control = 1, !.stop = TRUE, !.faults = {"broken"}, !.events = {"die"}],
    \* a partial group beside a single, and answers nobody collects in time
    [Three EXCEPT !.tasks = <<Group(1, {0, 1}), Single(2, 2)>>, !.events = {"stall"}],
    \* a SUB group, and a single that its failure may cancel
    [Base EXCEPT !.tasks = <<SubGroup(1, 3), Single(2, 0)>>],
    \* a batch of three
    [Three EXCEPT !.tasks = <<Group(1, {0, 1, 2})>>, !.faults = {"failed"}]}
=============================================================================
