SPECIFICATION Spec
CONSTANTS
    Idle = Idle
    Orders = {o1, o2}
    Situations = {"warning"}
    MaxRuns = 2
INVARIANTS NeverPlacedTwice
CHECK_DEADLOCK FALSE
