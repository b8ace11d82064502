------------------------------- MODULE MCStep -------------------------------
(***************************************************************************)
(* Small executions.  Each plan makes one family of cases happen; a         *)
(* behaviour meets the faults of one plan only.                             *)
(***************************************************************************)
EXTENDS StepExecution

Fork == [count |-> 2, max |-> 2]
Single == [count |-> 1, max |-> 1]
OneByOne == [count |-> 2, max |-> 1]

Plan(moves, fanouts, budget, frames, deadline, faults) ==
    [moves |-> moves, fanouts |-> fanouts, budget |-> budget,
     frames |-> frames, deadline |-> deadline, faults |-> faults]

Flat(f) == [d \in {0} |-> {f}]
Nested == [d \in {0, 1} |-> IF d = 0 THEN {Fork} ELSE {Single}]

MCPlans == {
    \* a branch fails, or the execution is stopped, while a nested round is open
    Plan({"Succeed", "Fail", "FanOut"}, Nested, 5, 4, 1, {"stop"}),
    Plan({"Task", "FanOut"}, Nested, 3, 4, 1, {}),
    \* two tasks in parallel, one may fail while the other runs
    Plan({"Fail", "Task", "FanOut"}, Flat(Fork), 3, 3, 1, {"stop"}),
    \* one task that times out, is refused, or whose cleanup is uncertain
    Plan({"Task"}, Flat(Fork), 2, 1, 2, {"reject", "history", "stop"}),
    Plan({"Task"}, Flat(Fork), 3, 1, 1, {"dirty"}),
    \* timers, a full journal, too few frame slots
    Plan({"Pass", "Wait", "FanOut"}, Flat(OneByOne), 4, 2, 2, {"history", "others"}),
    Plan({"Wait", "FanOut"}, Flat(Fork), 3, 3, 2, {"others"}),
    \* branches that cannot be prepared and results that cannot be kept
    Plan({"Succeed", "FanOut"}, Flat(OneByOne), 4, 3, 1, {"store", "memory", "branch"}),
    Plan({"Succeed", "FanOut"}, Flat(Fork), 3, 3, 2, {"evaluation"}),
    \* a call is abandoned below a round whose own result cannot be evaluated
    Plan({"Succeed", "Task", "FanOut"}, Flat(Single), 3, 2, 2, {"evaluation"}) }
=============================================================================
