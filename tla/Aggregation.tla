---------------------------- MODULE Aggregation ----------------------------
(***************************************************************************)
(* aggregation/aggregator.ts: a snapshot is a set of queries that run at the *)
(* same time over the connections of the pool, while refreshes store events  *)
(* and midnight may pass.                                                    *)
(*                                                                         *)
(* Time is counted in units, DayLen of them in DAY_MS, from a UTC midnight.  *)
(* Local midnight lies `zone` units later, and one day of the month may be a *)
(* unit shorter or longer: the clocks change.  Days are numbered from the    *)
(* first of the month.  Each event costs one; the tables of the longer       *)
(* windows (30 days, 6 months, 1 year) and the lists of models, projects and *)
(* sessions are made like the ones here.                                     *)
(***************************************************************************)
EXTENDS Integers, FiniteSets, Functions

CONSTANTS DayLen,       \* units in DAY_MS
          Week,         \* days in the window of several days
          DaysInMonth,
          Calendars,    \* records of zone, shiftDay, shift
          Tables,       \* first contents of the events table
          Arrivals      \* events that may be stored later

\* The clocks change by less than a day, so that a day is more than one unit.
ASSUME AggregationAssumption ==
  /\ DayLen \in Nat \ {0, 1} /\ Week \in Nat \ {0} /\ DaysInMonth \in Nat \ {0}
  /\ \A c \in Calendars : c.zone \in 0 .. DayLen - 1 /\ c.shiftDay \in Nat /\ c.shift \in {-1, 0, 1}
  /\ \A t \in Tables : IsFiniteSet(t) /\ \A x \in t : x.at \in Nat
  /\ \A x \in Arrivals : x.at \in Nat

VARIABLES cal,      \* the calendar
          day,      \* the local day
          table,    \* the events: instant and provider
          asked,    \* `now` of the snapshot under way; NoDay
          answers,  \* the answers so far, by query
          moved     \* history: an event was stored since the snapshot was asked

aggVars == <<cal, day, table, asked, answers, moved>>

Query   == {"today", "week", "byProvider", "series", "forecast", "forecastByProvider"}
NoDay   == 0 - 1
Null    == [none |-> TRUE]

Base        == (Week + 1) * DayLen
Midnight(d) == Base + cal.zone + d * DayLen + (IF d > cal.shiftDay THEN cal.shift ELSE 0)

-----------------------------------------------------------------------------
(* The queries, for the day of `now`                                         *)

DayStart(d) == Midnight(d)
DayEnd(d)   == DayStart(d) + DayLen
MonthStart  == Midnight(0)

Between(s, e)    == {x \in table : x.at >= s /\ x.at < e}
RangeTotal(s, e) == Cardinality(Between(s, e))
ByProvider(s, e) ==
  [p \in {x.provider : x \in Between(s, e)} |-> Cardinality({x \in Between(s, e) : x.provider = p})]

Total(rows)      == FoldFunction(+, 0, rows)

\* The rows of days with an event, numbered from origin.
Index(x, origin) == (x.at - origin) \div DayLen
PerDayCost(s, e, origin) ==
  [i \in {Index(x, origin) : x \in Between(s, e)} |->
     Cardinality({x \in Between(s, e) : Index(x, origin) = i})]

SeriesStart(d, days)     == DayStart(d) - (days - 1) * DayLen
DailySeries(d, days) ==
  LET rows == PerDayCost(SeriesStart(d, days), DayEnd(d), SeriesStart(d, days)) IN
    [i \in 0 .. days - 1 |-> IF i \in DOMAIN rows THEN rows[i] ELSE 0]

DaysElapsed(d) == (DayEnd(d) - MonthStart) \div DayLen
Projection(spent, d) ==
  [spent |-> spent, days |-> DaysElapsed(d),
   estimate |-> IF DaysElapsed(d) > 0 THEN (spent * DaysInMonth) \div DaysElapsed(d) ELSE 0]

\* forecast numbers its days from the epoch, forecastByProvider from the month.
Forecast(d) ==
  LET rows == PerDayCost(MonthStart, DayEnd(d), 0) IN
    IF Cardinality(DOMAIN rows) < 3 THEN Null
    ELSE Projection(Total(rows), d)
ForecastByProvider(d) ==
  LET spent == ByProvider(MonthStart, DayEnd(d)) IN
    [p \in DOMAIN spent |-> Projection(spent[p], d)]

NowLate == day      \* the default of the `now` parameter of each query
Now     == asked    \* the one `now` snapshot passes on
AnswerTo(q) ==
  CASE q = "today"              -> RangeTotal(DayStart(Now), DayEnd(Now))
    [] q = "week"               -> RangeTotal(DayEnd(Now) - Week * DayLen, DayEnd(Now))
    [] q = "byProvider"         -> ByProvider(DayStart(Now), DayEnd(Now))
    [] q = "series"             -> DailySeries(Now, Week)
    [] q = "forecast"           -> Forecast(Now)
    [] q = "forecastByProvider" -> ForecastByProvider(Now)

-----------------------------------------------------------------------------
AggInit ==
  /\ cal \in Calendars /\ table \in Tables /\ day \in 0 .. DaysInMonth - 1
  /\ asked = NoDay /\ answers = <<>> /\ moved = FALSE

StoreEvent ==
  /\ \E x \in Arrivals \ table : x.at < Midnight(day + 1) /\ table' = table \cup {x}
  /\ moved' = (asked # NoDay)
  /\ UNCHANGED <<cal, day, asked, answers>>

MidnightPasses ==
  /\ day < DaysInMonth - 1 /\ day' = day + 1
  /\ UNCHANGED <<cal, table, asked, answers, moved>>

Ask ==
  /\ asked = NoDay /\ asked' = day /\ moved' = FALSE
  /\ UNCHANGED <<cal, day, table, answers>>

RunQuery(q) ==
  /\ asked # NoDay /\ q \notin DOMAIN answers
  /\ answers' = [r \in DOMAIN answers \cup {q} |-> IF r = q THEN AnswerTo(q) ELSE answers[r]]
  /\ UNCHANGED <<cal, day, table, asked, moved>>

Complete == asked # NoDay /\ DOMAIN answers = Query
Return ==
  /\ Complete /\ asked' = NoDay /\ answers' = <<>>
  /\ UNCHANGED <<cal, day, table, moved>>

AggNext == StoreEvent \/ MidnightPasses \/ Ask \/ Return \/ \E q \in Query : RunQuery(q)

AggSpec == AggInit /\ [][AggNext]_aggVars

-----------------------------------------------------------------------------
(* The figures of one snapshot agree, although they are the answers of queries *)
(* of their own and midnight may pass between them: the providers and the last *)
(* bar of the chart add up to today, the bars to the days of the window, and   *)
(* the forecasts start from the same amount.  An event stored meanwhile is in  *)
(* some of the figures only.                                                   *)
FiguresAgree ==
  Complete /\ ~moved =>
    /\ Total(answers.byProvider) = answers.today
    /\ answers.series[Week - 1] = answers.today
    /\ Total(answers.series) = answers.week /\ answers.today <= answers.week
    /\ answers.forecast # Null =>
         Total([p \in DOMAIN answers.forecastByProvider |-> answers.forecastByProvider[p].spent])
           = answers.forecast.spent

(* A forecast counts the days of the month up to today, or one less after the  *)
(* clocks were put forward, never none; and it is no lower than what was spent.*)
ForecastSane ==
  Complete => \A p \in DOMAIN answers.forecastByProvider :
    LET f == answers.forecastByProvider[p] IN
      /\ f.days \in 1 .. DaysInMonth
      /\ f.days = (IF cal.shift < 0 /\ asked > cal.shiftDay THEN asked ELSE asked + 1)
      /\ f.estimate >= f.spent

(* Where local midnight is UTC midnight and the clocks do not change, there is *)
(* a forecast from the third day with an event on ("null if < 3 days").        *)
ThreeDays ==
  Complete /\ ~moved /\ cal.zone = 0 /\ cal.shift = 0 =>
    ((answers.forecast # Null) <=>
       Cardinality({d \in 0 .. asked : Between(Midnight(d), Midnight(d + 1)) # {}}) >= 3)

AggregationSound == FiguresAgree /\ ForecastSane /\ ThreeDays
=============================================================================
