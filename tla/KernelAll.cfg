\* Two intents per walk: the second is what an escalation on the first leaves.
SPECIFICATION MCSpec
CONSTANTS
    Mode = "PAPER_TRADING_MODE"
    Layers = {"sensors", "signals", "portfolio"}
    Situations = {"latency"}
    EdgeGate = TRUE
    RoughSituations = {"fault", "callback", "cost", "latency", "halt"}
    MaxIntents = 2
    Days = {"rough", "early", "calm"}
INVARIANTS TickLeavesNothing LockdownMeansLocked CalmDayKeepsItsBook
PROPERTIES ReleasedFlat CalmDayOpensSafely SessionProgress
