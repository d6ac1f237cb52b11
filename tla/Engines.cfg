\* The nine programs of MCEngines.  One alpha, one crash and five ledger lines;
\* two runs over tapes of five quotes; tapes of up to eight bars; five events of
\* a sensor and four readings of a feature; one trade; one boundary of a
\* portfolio; four entries in the books; boundaries of one gate, any number.
SPECIFICATION EnginesSpec
CONSTANTS
    Programs = {"promotion", "regime", "study", "sensors", "features", "costs", "portfolio",
                "accounts", "gates"}
    a1 = a1
    None = None
    NaN = NaN
    Garbled = Garbled
    Alphas = {a1}
    Platforms <- MCPlatforms
    Manifests <- MCManifests
    Submissions <- MCSubmissions
    LegacyForms <- MCLegacyForms
    ClockReadings <- MCClockReadings
    BreakerRows <- MCBreakerRows
    MaxLines = 5
    MaxFaults = 1
    RegimeTapes <- MCRegimeTapes
    MinSamples = 2
    FloorTenths = 7
    MaxRuns = 2
    MaxBars = 8
    MaxGroups = 5
    MaxHorizon = 2
    MaxEmbargo = 2
    QuotesOf <- MCQuotesOf
    TradesOf <- MCTradesOf
    Gaps = {1, 3}
    MaxPrints = 5
    Window = 3
    MaxGap = 2
    WarmAfter = 2
    BufferSize = 2
    BucketVolume = 3
    WindowBuckets = 2
    DriftFloor = 30
    BarLengths <- MCBarLengths
    Calendar <- MCCalendar
    Tariffs <- MCTariffs
    NBBOs <- MCNBBOs
    ShareCounts = {0, 1, 100, 300}
    Edges = {100, 900}
    FeatureKinds = {"windowed", "rolling", "passthrough", "imbalance"}
    Samples <- MCSamples
    Horizon = 2
    MinSamplesOf = 2
    MaxSamples = 2
    MaxHeard = 4
    GateBlocks <- MCGateBlocks
    Snapshots <- MCSnapshots
    SensorCaches <- MCSensorCaches
    RegimeCaches <- MCRegimeCaches
    FeatureSensor <- MCFeatureSensor
    StateNames = {"normal", "breakout"}
    DerivedNames = {"ofi_zscore"}
    Literals <- MCLiterals
    MinDiscriminability = 50
    Universe = {"s1", "s2", "s3"}
    FamilyOf <- MCFamilyOf
    Unattributed = "none"
    ExitOnly <- MCExitOnly
    Answers <- MCAnswers
    Funds <- MCAllFunds
    Contexts <- MCContexts
    Strategies = {"A", "B"}
    StrategyOrder <- MCStrategyOrder
    Deals <- MCDeals
    Quotes <- MCAccountQuotes
    MaxHolding = 2
    MaxEntries = 4
INVARIANTS
    PromotionSound
    DeparturesCalledOnce ResetReplaysRun
    StudySound
    ValuesAreDefined
    EstimateCoversFills
    IntentWithinCaps
    AccountsBalance
CHECK_DEADLOCK FALSE
