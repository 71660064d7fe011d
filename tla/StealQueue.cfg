CONSTANTS
    w1 = w1
    w2 = w2
    w3 = w3
    Workers = {w1, w2, w3}
    Pushers = {w1}
    Capacity = 4
    Indices = 8
    Starts = {6}
    Pushes = 5
    NoTask = NoTask
SPECIFICATION Spec
SYMMETRY Thieves
INVARIANTS AssertionsHold NoRacingWrite
PROPERTY ImplementsRunQueues
CHECK_DEADLOCK FALSE
