\* Three starts let a restarted process restart again; two are enough for the
\* rough installation, whose reconnects are further sessions.
SPECIFICATION MCSpec
CONSTANTS
    o1 = o1
    o2 = o2
    Idle = Idle
    Orders <- MCOrders
    Situations = {"torn", "resubmit"}
    MaxRuns = 3
    RoughSituations = {"torn", "reconnect", "warning", "resubmit", "reset"}
    RoughRuns = 2
SYMMETRY Symmetry
INVARIANTS NeverPlacedTwice WriteBeforeWire IdsNeverReused RoughNothingSentUnrecorded
CHECK_DEADLOCK FALSE
