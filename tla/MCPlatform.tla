------------------------------ MODULE MCPlatform ------------------------------
(***************************************************************************)
(* What runs before and beside the kernel: the builders of build_platform, *)
(* the live feed of a paper session, the backtests that share a cache      *)
(* directory, and an ingest that is called again.  They share no state, so *)
(* one behaviour explores one of them, chosen at the start.                *)
(***************************************************************************)
EXTENDS MCStartup, LiveFeed, EventStore, Ingestor

CONSTANT Programs

\* The harness asks for one symbol at a time; the class takes several.
MCIngestCalls == {<<"a">>, <<"b">>}
TwoAtOnce == {<<"a", "b">>}

-----------------------------------------------------------------------------
(***************************************************************************)
(* Two backtests of two symbols: one may ask for them in either order.     *)
(* The day of a has a quote and a trade at one time, and comes back with   *)
(* a corrupt record from the vendor's second answer; b's day is one quote  *)
(* at the same time.                                                       *)
(***************************************************************************)
Wire(type, ts, seq) ==
    [type |-> type, ts |-> ts, seq |-> seq, body |-> "a", price |-> "positive", time |-> "far",
     marks |-> {}, ticker |-> "none"]

MCSymbols == <<"a", "b">>

GoodA == <<Wire("trade", 1, 1), Wire("quote", 1, 1), Wire("quote", 2, 2)>>
BadA == Append(GoodA, [Wire("quote", 3, 3) EXCEPT !.price = "bad"])
GoodB == <<Wire("quote", 1, 1), [Wire("quote", 2, 2) EXCEPT !.ticker = "a"]>>

MCTapes == (<<"a", 1>> :> <<GoodA, BadA>>) @@ (<<"b", 1>> :> <<GoodB>>)

Request(symbols, cached, offline, healthy) ==
    [symbols |-> symbols, cached |-> cached, offline |-> offline, healthy |-> healthy,
     rth |-> FALSE, gaps |-> FALSE, latency |-> 1]

MCRequests ==
    {[Request(<<"b">>, FALSE, FALSE, FALSE) EXCEPT !.rth = TRUE, !.gaps = TRUE],
     Request(<<"a", "b">>, TRUE, FALSE, TRUE), Request(<<"b", "a">>, TRUE, FALSE, FALSE),
     Request(<<"a">>, TRUE, TRUE, TRUE)}

-----------------------------------------------------------------------------
VARIABLE program

platformVars == <<program, startupVars, feedVars, storeVars, ingestVars>>

PlatformInit ==
    /\ program \in Programs
    /\ IF program = "startup" THEN StartupInit
       ELSE env = Absent /\ chain = <<>> /\ config = Absent /\ pc = "raised" /\ Nothing
    /\ FeedInit
    /\ IF program = "replay" THEN StoreInit
       ELSE /\ files = [k \in Keys |-> EmptyDay] /\ bt = [p \in Backtests |-> NotStarted]
            /\ crashes = 0 /\ fetched = [k \in Keys |-> {}]
    /\ IngestInit

PlatformNext ==
    /\ UNCHANGED program
    /\ \/ program = "startup" /\ StartupNext /\ UNCHANGED <<feedVars, storeVars, ingestVars>>
       \/ program = "live" /\ FeedNext /\ UNCHANGED <<startupVars, storeVars, ingestVars>>
       \/ program = "replay" /\ StoreNext /\ UNCHANGED <<startupVars, feedVars, ingestVars>>
       \/ program = "ingest" /\ IngestNext /\ UNCHANGED <<startupVars, feedVars, storeVars>>

PlatformSpec == PlatformInit /\ [][PlatformNext]_platformVars /\ FeedFairness
=============================================================================
