------------------------------- MODULE MCData -------------------------------
(***************************************************************************)
(* Instances of what is made of the vendors' data, and shown, for TLC: the   *)
(* events, their prices, the figures of the desktop and of a team, the usage *)
(* that Cursor reports, the plans that pay for it, the settings and the      *)
(* views.  They share no state here, so that a behaviour exercises one of    *)
(* them.                                                                    *)
(***************************************************************************)
EXTENDS Ingest, Pricing, Aggregation, CursorUsage, TeamFigures, Plans, Settings, Views

VARIABLE part   \* what a behaviour exercises

showVars == <<planVars, settingsVars, viewVars>>
dataVars == <<ingestVars, priceVars, aggVars, cursorVars, teamVars>>
vars     == <<part, dataVars, showVars>>

-----------------------------------------------------------------------------
\* No change of the clocks at UTC, a zone without one, and one with either.
Calendar(ahead, shift) == [zone |-> ahead, shiftDay |-> IF shift = 0 THEN 9 ELSE 1, shift |-> shift]
MCCalendars == {Calendar(0, 0), Calendar(1, 0), Calendar(1, -1), Calendar(1, 1)}

\* The month begins at 6 or 7: events on its first and its last days, on the day
\* before, on two days and on more.
At(t, p)   == [at |-> t, provider |-> p]
MCTables   == { {}, {At(5, "p"), At(6, "q"), At(8, "p"), At(9, "q"), At(11, "p")},
                {At(7, "p"), At(8, "q"), At(10, "q"), At(12, "p")} }
MCArrivals == {At(9, "p"), At(12, "q")}

\* Entries with a prefix, without the price of cache reads, of output, of both.
Entry(key, in, out, read) == [key |-> key, rate |-> [in |-> in, out |-> out, read |-> read]]
Samples  == { Entry(<<"gpt", "5">>, 2, 4, None), Entry(<<"openai", "gpt", "5">>, 2, 5, 1),
              Entry(<<"gpt", "5", "mini">>, 1, 2, 1), Entry(<<"opus">>, 6, 9, 2),
              Entry(<<"gpt", "free">>, 1, None, None), Entry(<<"sample">>, None, None, None) }
MCFiles  == { f \in UNION {[1 .. n -> Samples] : n \in 0 .. 3} :
                \A i, j \in DOMAIN f : f[i].key = f[j].key => i = j }
MCModels == { <<"gpt", "5">>, <<"gpt", "5", "mini", "d">>, <<"gpt", "9">>, <<"opus", "4">>,
              <<"other">>, <<>> }
MCPrefix  == <<"anthropic", "openai">>
MCAlias   == <<"us.anthropic", "anthropic", "openai">>
MCKeyword == <<"opus", "gpt">>

\* Two events of a day and a model, and one of the day before on another machine.
Ev(n, t, m, p) == [node |-> n, at |-> t, model |-> m, project |-> p]
MCWork  == {Ev("mac", 2, "a", "p"), Ev("mac", 3, "a", NoProject), Ev("mbp", 1, "b", "p")}

\* West and east of UTC.
MCZones == {-1, 1}

-----------------------------------------------------------------------------
\* A part at rest starts in one way only.
PricesRest  == prices = <<>> /\ bill = NoBill
FiguresRest == table = {} /\ day = 0 /\ cal = Calendar(0, 0)
UsageRests  == account = CHOOSE a \in Account : TRUE
TeamRests   == zone = CHOOSE z \in Zones : TRUE
PlansRest   == vendor = (CHOOSE v \in Vendors : TRUE) /\ ~apiKey /\ tier = [u \in Payer |-> "free"]
ViewRests   == view = "app" /\ want = CHOOSE s \in Selection : TRUE

Init == /\ part \in {"ingest", "prices", "figures", "usage", "team", "plans", "settings", "views"}
        /\ IngestInit /\ (part # "ingest" => format = "claude")
        /\ IF part = "prices" THEN PriceInit ELSE PricesRest
        /\ AggInit /\ (part # "figures" => FiguresRest)
        /\ CursorInit /\ (part # "usage" => UsageRests)
        /\ TeamFiguresInit /\ (part # "team" => TeamRests)
        /\ PlansInit /\ (part # "plans" => PlansRest)
        /\ SettingsInit
        /\ ViewInit /\ (part # "views" => ViewRests)

IngestPart   == part = "ingest" /\ IngestNext /\ UNCHANGED <<priceVars, aggVars, cursorVars, teamVars>>
PricesPart   == part = "prices" /\ PriceNext /\ UNCHANGED <<ingestVars, aggVars, cursorVars, teamVars>>
FiguresPart  == part = "figures" /\ AggNext /\ UNCHANGED <<ingestVars, priceVars, cursorVars, teamVars>>
UsagePart    == part = "usage" /\ CursorNext /\ UNCHANGED <<ingestVars, priceVars, aggVars, teamVars>>
TeamPart     == part = "team" /\ TeamFiguresNext /\ UNCHANGED <<ingestVars, priceVars, aggVars, cursorVars>>
PlansPart    == part = "plans" /\ PlansNext /\ UNCHANGED <<dataVars, settingsVars, viewVars>>
SettingsPart == part = "settings" /\ SettingsNext /\ UNCHANGED <<dataVars, planVars, viewVars>>
ViewsPart    == part = "views" /\ ViewNext /\ UNCHANGED <<dataVars, planVars, settingsVars>>

Next == /\ \/ (IngestPart \/ PricesPart \/ FiguresPart \/ UsagePart \/ TeamPart) /\ UNCHANGED showVars
           \/ PlansPart \/ SettingsPart \/ ViewsPart
        /\ UNCHANGED part

Spec == Init /\ [][Next]_vars
=============================================================================
