\* Horizons of two and four units: with six units of time every event may
\* cross one, both or none of the grids, on the boundary or after it.
SPECIFICATION Spec
CONSTANTS
    s1 = s1
    s2 = s2
    a1 = a1
    a2 = a2
    None = None
    Universe = Universe
    Symbols <- MCSymbols
    Alphas <- MCAlphas
    AlphaHorizon <- MCAlphaHorizon
    Horizons = {2, 4}
    Upstream = {a2}
    Decoupled = {}
    ContextHorizons = {4}
    MinSignals = 2
    SessionOpens = {2, None}
    Regimes = {"on", "off", "hold", "error"}
    MaxTime = 6
    MaxEvents = 3
SYMMETRY Symmetry
INVARIANTS SnapshotsFaithful BindingServed NoEntryAfterClose
PROPERTIES ClosesAnnounced OpensSafely
\* A session ends: MaxEvents is the only thing that stops it.
CHECK_DEADLOCK FALSE
