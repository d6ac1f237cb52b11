\* The four programs of MCPlatform.  Two backtests with one crash; one symbol, a
\* queue of one event, two messages and one disturbance or restart of the feed;
\* two calls of ingest for one symbol.
SPECIFICATION PlatformSpec
CONSTANTS
    Absent = Absent
    Bad = Bad
    Starts <- MCStarts
    ConfigFiles <- MCConfigFiles
    Programs = {"startup", "live", "replay", "ingest"}
    Symbols = {"s1"}
    MaxQueue = 1
    MaxMessages = 2
    MaxFaults = 1
    DegradeOnGap = FALSE
    FeedSituations = {"lost", "repeated", "unnumbered", "corrupt", "halts", "broken", "restart", "absent"}
    Backtests = {"p1", "p2"}
    StoreSymbols <- MCSymbols
    Days = 1
    Tapes <- MCTapes
    Requests <- MCRequests
    RTH = {1}
    Schema = "new"
    MaxCrashes = 1
    IngestCalls <- MCIngestCalls
    MaxCalls = 2
INVARIANTS PlatformServesAlphas ReplayFaithful CompletedIsHeld LossTold
PROPERTIES HaltsRespected EndsWhenStopped
CHECK_DEADLOCK FALSE
