------------------------------- MODULE MCScheduler ------------------------------
(* Programs for two workers or one, each small enough to look at every         *)
(* behavior: what workers do to each other, then what happens to a task.       *)
EXTENDS Scheduler

CONSTANTS w1, w2, k1, k2

Program(habits, workers, tasks, budget) ==
    [habits |-> habits, workers |-> workers, tasks |-> tasks, budget |-> budget]

Programs == {
    Program({}, {w1, w2}, {k1, k2}, 0),
    Program({"wake"}, {w1, w2}, {k1}, 1),
    Program({"shutdown"}, {w1, w2}, {}, 0),
    Program({"driver"}, {w1}, {k1, k2}, 2),
    Program({"driver"}, {w1, w2}, {k1}, 1),
    Program({"block", "shutdown"}, {w1}, {k1}, 1),
    Program({"block", "wake"}, {w1}, {k1, k2}, 2),
    Program({"join", "repoll", "abort", "register"}, {w1}, {k1}, 1),
    Program({"join", "repoll", "abort", "shutdown"}, {w1}, {k1}, 1),
    Program({"abort", "register", "shutdown"}, {w1}, {k1}, 1)}
=============================================================================
