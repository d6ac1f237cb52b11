SPECIFICATION Spec
CONSTANTS
    Mode = "PAPER_TRADING_MODE"
    Layers = {"sensors", "signals", "portfolio"}
    Situations = {"halt"}
    EdgeGate = TRUE
    MaxIntents = 0
INVARIANT NoFillDropped
