----------------------------- MODULE TeamFigures -----------------------------
(***************************************************************************)
(* What a window shows of a team: the desktop apps upload their events, each *)
(* at its privacy level (sync/redaction.ts), the server answers an overview  *)
(* by one query after the other (team-service.ts, getOverview), and the      *)
(* window that asked puts the account's month into its forecast              *)
(* (OverviewTab.tsx).                                                        *)
(*                                                                         *)
(* Time is counted in units of an hour, UtcDayLen of them in a day, MonthLen *)
(* days in a month, from a UTC midnight that begins a month; the clocks do   *)
(* not change.  Each event costs one.  A daily row is the set of the events  *)
(* it sums, and so is a row of event_daily_rollup, which counts              *)
(* usage_events.  A team has no more projects than the overview lists.  The  *)
(* settings of a machine name the account it uploads for, and any other from *)
(* one drain to the next.  Who may upload is TeamServer's, the size of a     *)
(* batch SyncClient's.                                                       *)
(***************************************************************************)
EXTENDS Integers, Sequences, FiniteSets, Functions

CONSTANTS Node, User,
          Work,          \* the events of all machines: node, at, model, project
          NoProject,
          UtcDayLen, MonthLen,
          Periods,       \* numbers of days a window may ask for, or the server's 30
          Levels,        \* the privacy levels in use
          Zones,         \* how far local time is ahead of UTC
          MaxClock, MaxUploads

ASSUME TeamFiguresAssumption ==
  /\ UtcDayLen \in Nat \ {0} /\ MonthLen \in Nat \ {0} /\ MaxClock \in Nat /\ MaxUploads \in Nat
  /\ Periods \subseteq Nat \ {0}
  /\ \A z \in Zones : z \in Int /\ 0 - UtcDayLen < z /\ z < UtcDayLen
  /\ Levels \subseteq {"full", "redacted", "aggregateOnly"}
  /\ IsFiniteSet(User) /\ IsFiniteSet(Work) /\ \A e \in Work : e.at \in Nat /\ e.node \in Node

VARIABLES clock, uploads,
          zone,       \* local time is this much ahead of UTC
          sent,       \* sync_outbox: the events an answer arrived for
          applied,    \* history: the events the server was given, and for which account
          merged,     \* v_merged_daily: an event, for whom and at what level it came, and when
          nodes,      \* of each node seen, user_id and last_seen_at
          tangled,    \* history: an event of the node is counted twice, or no more
          overview,   \* the overview under way, or the last one
          figures,    \* its answers so far
          disturbed,  \* history: an upload since it was asked
          shrunk      \* history: and one that overwrote a daily row

eventVars == <<zone, sent, applied, merged, nodes, tangled>>
teamVars  == <<clock, uploads, eventVars, overview, figures, disturbed, shrunk>>

Today  == 0        \* the period without a number of days
Asleep == [step |-> 0]

UtcDay(t)          == t \div UtcDayLen
UtcMidnight(t)     == UtcDay(t) * UtcDayLen
UtcMonth(t)        == MonthLen * (UtcDay(t) \div MonthLen)      \* its first day
LocalDay(t)        == (t + zone) \div UtcDayLen
LocalMidnight(t)   == LocalDay(t) * UtcDayLen - zone
LocalMonth(t)      == MonthLen * (LocalDay(t) \div MonthLen)
LocalMonthStart(t) == LocalMonth(t) * UtcDayLen - zone

-----------------------------------------------------------------------------
(* Uploads                                                                   *)

Pending(n) == {e \in Work : e.node = n /\ e.at <= clock /\ e \notin sent}

\* What redactToDaily does not tell apart, it sums; redactEvent keeps the events.
DailyKey(e)       == <<e.node, UtcDay(e.at), e.model>>
IsDaily(x)        == x.level = "aggregateOnly"
Redacted(B, u, l) == {[event |-> e, user |-> u, level |-> l, up |-> clock] : e \in B}

\* The account is part of the key of a daily row, and of what an event's id is made of.
Overwritten(B, u) == {x \in merged : IsDaily(x) /\ x.user = u /\ \E e \in B : DailyKey(e) = DailyKey(x.event)}
HasRow(e, u)      == \E x \in merged : ~IsDaily(x) /\ x.event = e /\ x.user = u
UpsertBuckets(B, u)   == (merged \ Overwritten(B, u)) \cup Redacted(B, u, "aggregateOnly")
UpsertEvents(B, u, l) == merged \cup Redacted({e \in B : ~HasRow(e, u)}, u, l)

\* A node stays that of the account it was first seen for.
Touched(n, u) ==
  [m \in DOMAIN nodes \cup {n} |->
     IF m # n THEN nodes[m]
     ELSE [user |-> IF n \in DOMAIN nodes THEN nodes[n].user ELSE u, seen |-> clock]]

\* An event is counted as a row and in a daily row, or for two accounts, or the daily row
\* it was in is overwritten by one without it.
CountsTwice(B, u, l) ==
  \E x \in merged : x.event \in B /\ (x.user # u \/ IsDaily(x) # (l = "aggregateOnly"))
Loses(B, u, l) == l = "aggregateOnly" /\ \E x \in Overwritten(B, u) : x.event \notin B

\* drainImpl for the account and at the level of the settings; the answer may be lost, and
\* the events are then sent again.
Upload(n, u) ==
  \E B \in SUBSET Pending(n) \ {{}}, l \in Levels, answered \in BOOLEAN :
    /\ uploads < MaxUploads /\ uploads' = uploads + 1
    /\ merged' = (IF l = "aggregateOnly" THEN UpsertBuckets(B, u) ELSE UpsertEvents(B, u, l))
    /\ applied' = applied \cup {[event |-> e, user |-> u] : e \in B}
    /\ sent' = (IF answered THEN sent \cup B ELSE sent)
    /\ nodes' = Touched(n, u)
    /\ tangled' = (IF CountsTwice(B, u, l) \/ Loses(B, u, l) THEN tangled \cup {n} ELSE tangled)
    /\ disturbed' = (overview # Asleep)
    /\ shrunk' = (shrunk \/ (l = "aggregateOnly" /\ Overwritten(B, u) # {}))
    /\ UNCHANGED <<clock, zone, overview, figures>>

-----------------------------------------------------------------------------
(* The overview                                                              *)

\* "today" is the time since the UTC midnight; the route raises it to an hour.
Window(p) == IF p # Today THEN p * UtcDayLen
             ELSE IF clock = UtcMidnight(clock) THEN 1 ELSE clock - UtcMidnight(clock)
TodaySince(start) ==
  IF start - UtcMidnight(clock) \in 0 - UtcDayLen .. UtcDayLen THEN start ELSE UtcMidnight(clock)

\* fetchTeamOverview and the route; the account asks on one of its machines.
AskOverview(u, p) ==
  /\ overview = Asleep
  /\ overview' = [step |-> 1, by |-> u, period |-> p, now |-> clock, since |-> clock - Window(p),
                  today |-> TodaySince(LocalMidnight(clock))]
  /\ figures' = <<>> /\ disturbed' = FALSE /\ shrunk' = FALSE
  /\ UNCHANGED <<clock, uploads, eventVars>>

AfterDay(d)  == {x \in merged : UtcDay(x.event.at) > d}   \* a window without its first day
FromDay(d)   == {x \in merged : UtcDay(x.event.at) >= d}
InWindow     == FromDay(UtcDay(overview.since))
InMonth      == {x \in FromDay(UtcMonth(overview.now)) : x.user = overview.by}
RowsSince(t) == {x \in merged : ~IsDaily(x) /\ x.event.at >= t}
Recent(t)    == t >= overview.now - UtcDayLen

\* COALESCE(project, project_hash): the name where it was uploaded.
ProjectKey(x) == <<x.level = "full", x.event.project>>
OfProjects    == {x \in RowsSince(overview.since) : x.event.project # NoProject}
PerUser(S)    == [u \in User |-> Cardinality({x \in S : x.user = u})]
PerModel(S)   == [m \in {x.event.model : x \in S} |-> Cardinality({x \in S : x.event.model = m})]
PerProject(S) == [k \in {ProjectKey(x) : x \in S} |-> Cardinality({x \in S : ProjectKey(x) = k})]

\* Of MAX(uploaded_at) a member's row tells whether it is recent.
ActiveIn(S) == {u \in User : \E x \in S : x.user = u /\ Recent(x.up)}

QueryOrder == <<"members", "projects", "providers", "nodes", "total", "today", "month", "monthModels">>
FigureOf(q) ==
  CASE q = "members"     -> [cost |-> PerUser(InWindow), active |-> ActiveIn(InWindow)]
    [] q = "projects"    -> PerProject(OfProjects)
    [] q = "providers"   -> PerModel(InWindow)
    [] q = "nodes"       -> nodes
    [] q = "total"       -> Cardinality(InWindow)
    [] q = "today"       -> Cardinality(RowsSince(overview.today))
    [] q = "month"       -> Cardinality(InMonth)
    [] q = "monthModels" -> PerModel(InMonth)

Told == overview.step = Len(QueryOrder) + 1
RunNextQuery ==
  /\ overview.step \in DOMAIN QueryOrder
  /\ LET q == QueryOrder[overview.step] IN
       figures' = [r \in DOMAIN figures \cup {q} |-> IF r = q THEN FigureOf(q) ELSE figures[r]]
  /\ overview' = [overview EXCEPT !.step = @ + 1]
  /\ UNCHANGED <<clock, uploads, eventVars, disturbed, shrunk>>

\* A poll or another period is the next overview; the last one is shown until then.
Forget ==
  /\ Told /\ overview' = Asleep /\ figures' = <<>>
  /\ UNCHANGED <<clock, uploads, eventVars, disturbed, shrunk>>

\* fetchTeamOverview gives up after eight seconds: no hour passes between the queries.
HourPasses ==
  /\ overview = Asleep \/ Told
  /\ clock < MaxClock /\ clock' = clock + 1
  /\ UNCHANGED <<uploads, eventVars, overview, figures, disturbed, shrunk>>

\* teamScopedForecast: the account's month on the server, the days of the local one.
ElapsedDays  == LocalDay(clock) - LocalMonth(clock) + 1
TeamForecast == [spent |-> figures.month, estimate |-> (figures.month * MonthLen) \div ElapsedDays]

\* The active machines, at the server and, of the account, by the window's clock.
ActiveNodes == {n \in DOMAIN figures.nodes : Recent(figures.nodes[n].seen)}
MyActive == {n \in DOMAIN figures.nodes : /\ figures.nodes[n].user = overview.by
                                          /\ figures.nodes[n].seen >= clock - UtcDayLen}

-----------------------------------------------------------------------------
TeamFiguresInit ==
  /\ zone \in Zones
  /\ clock = UtcDayLen /\ uploads = 0
  /\ sent = {} /\ applied = {} /\ merged = {} /\ nodes = <<>> /\ tangled = {}
  /\ overview = Asleep /\ figures = <<>> /\ disturbed = FALSE /\ shrunk = FALSE

TeamFiguresNext ==
  \/ \E n \in Node, u \in User : Upload(n, u)
  \/ \E u \in User, p \in Periods \cup {Today} : AskOverview(u, p)
  \/ HourPasses \/ RunNextQuery \/ Forget

TeamFiguresSpec == TeamFiguresInit /\ [][TeamFiguresNext]_teamVars

-----------------------------------------------------------------------------
SumUp(f)    == FoldFunction(+, 0, f)
Uploaded(u)   == {a.event : a \in {b \in applied : b.user = u}}
MachinesOf(u) == {e.node : e \in Uploaded(u)}
Straight(u)   == MachinesOf(u) \cap tangled = {}

(* An event the server was given is counted once, and for whom it was sent,    *)
(* whatever answers were lost and however level and account changed, unless    *)
(* its node sent events of a daily row apart, or an event at a level that      *)
(* aggregates and at one that does not, or for two accounts.                   *)
CountedOnce ==
  /\ sent \subseteq {a.event : a \in applied}
  /\ \A a \in applied : a.event.node \notin tangled =>
       \E x \in merged : x.user = a.user /\ {y \in merged : y.event = a.event} = {x}

(* The figures of an overview agree, although each is a query of its own: the  *)
(* members and the models add up to the total, the account's models to its     *)
(* month, projects and today are part of the total.                            *)
OverviewAgrees ==
  Told /\ ~disturbed =>
    /\ SumUp(figures.members.cost) = figures.total /\ SumUp(figures.providers) = figures.total
    /\ SumUp(figures.monthModels) = figures.month
    /\ SumUp(figures.projects) <= figures.total
    /\ UtcDay(overview.today) >= UtcDay(overview.since) => figures.today <= figures.total

(* With uploads meanwhile a figure asked for later is no lower, but for daily  *)
(* rows that are overwritten; and an active member has a machine that is       *)
(* active, in the window too unless another account used it first: then it is  *)
(* among that account's machines only.                                         *)
OverviewGrows ==
  Told =>
    /\ ~shrunk => /\ SumUp(figures.members.cost) <= SumUp(figures.providers)
                  /\ SumUp(figures.providers) <= figures.total
                  /\ figures.month <= SumUp(figures.monthModels)
    /\ \A u \in figures.members.active : MachinesOf(u) \cap ActiveNodes # {}
    /\ clock = overview.now /\ overview.by \in figures.members.active =>
         MyActive # {} \/ \E n \in MachinesOf(overview.by) \cap ActiveNodes :
                             figures.nodes[n].user # overview.by

(* The account's figure of "today" counts all of the UTC day and, but for its  *)
(* first hour, nothing earlier.                                                *)
TodayIsToday ==
  Told /\ ~disturbed /\ overview.period = Today => \A u \in User : Straight(u) =>
    LET first == IF overview.now = UtcMidnight(overview.now) THEN 1 ELSE 0 IN
      figures.members.cost[u] =
        Cardinality({e \in Uploaded(u) : UtcDay(e.at) >= UtcDay(overview.now) - first})

(* The account's forecast covers what was uploaded for it of the month,        *)
(* and is no lower, unless the server is in another month: then it covers less.*)
ForecastCovers ==
  Told /\ ~disturbed /\ Straight(overview.by) /\ LocalMonthStart(clock) >= UtcMonth(overview.now) * UtcDayLen =>
    /\ Cardinality({e \in Uploaded(overview.by) : e.at >= LocalMonthStart(clock)}) <= TeamForecast.spent
    /\ TeamForecast.spent <= TeamForecast.estimate

TeamFiguresSound == CountedOnce /\ OverviewAgrees /\ OverviewGrows /\ TodayIsToday /\ ForecastCovers
=============================================================================
