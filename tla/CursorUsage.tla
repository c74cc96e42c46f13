---------------------------- MODULE CursorUsage ----------------------------
(***************************************************************************)
(* providers/cursor/usage.ts and index.ts: Cursor keeps its usage on its     *)
(* servers.  A refresh reads the totals of the billing cycle and makes up    *)
(* events for them, whose ids are to make later refreshes overwrite them.    *)
(*                                                                         *)
(* One cycle, which begins at 0; UsageDay units of time are a day.  Tokens are *)
(* left out, an entry without tokens and cost costs 0.  An event of an old   *)
(* account is priced by the price table (Pricing): it costs 1 here.          *)
(***************************************************************************)
EXTENDS Integers, SequencesExt, FiniteSetsExt

CONSTANTS Account,     \* kinds of accounts among individual, team and old
          Model,       \* models of a team's days
          MaxUsed,     \* requests, by bucket, and entries of a team's days
          MaxReads,    \* refreshes
          UsageDay,
          CycleLen,    \* the cycle is not left
          Cap          \* MAX_EVENTS_PER_REFRESH

ASSUME CursorAssumption ==
  Account \subseteq {"individual", "team", "old"} /\ {MaxUsed, UsageDay, CycleLen, Cap} \subseteq Nat \ {0}

VARIABLES account,   \* the kind of the account
          now,
          used,      \* requests of the cycle: of the plan and on demand, or of two models
          owed,      \* cents of the requests on demand
          days,      \* a team's entries by day and model, as Cursor lists them
          probe,     \* the refresh under way
          rows,      \* usage_events of Cursor
          last,      \* what the last stored refresh read: history
          reads

cursorVars == <<account, now, used, owed, days, probe, rows, last, reads>>

Bucket    == 1 .. 2
OnDemand  == 2
Idle      == [step |-> "idle"]
NoReading == [ids |-> {}, count |-> 0, bill |-> 0, entries |-> <<>>, inOrder |-> TRUE]

Least(a, b) == Min({a, b})
DayOf(t)    == t \div UsageDay
Costs(f)    == FoldFunction(+, 0, [i \in DOMAIN f |-> f[i].cost])

-----------------------------------------------------------------------------
(* What a refresh makes of an answer                                         *)

\* The middle of the i-th of n equal parts of the time until t, rounded.
Stamp(t, n, i) == (t * (2 * i - 1) + n) \div (2 * n)

\* eventsFromCount: the cost is split, the remainder is the last event's.
ShareEven(n, i, cost) == cost \div n
Share(n, i, cost) == cost \div n + (IF i = n THEN cost % n ELSE 0)
CountEvent(t, b, n, i, cost) ==
  [id   |-> <<"summary", DayOf(Stamp(t, n, i)), b, i>>,
   at   |-> Stamp(t, n, i),
   cost |-> Share(n, i, cost)]
EventsFromCount(t, b, cost) ==
  LET n == Least(used[b], Cap) IN [i \in 1 .. n |-> CountEvent(t, b, n, i, cost)]
SummaryEvents(t) == EventsFromCount(t, 1, 0) \o EventsFromCount(t, OnDemand, owed)

\* eventFromDailyEntry: empty entries are left out before the others are numbered.
Filled == {i \in DOMAIN days : days[i].cost > 0}
Nth(n) == days[CHOOSE i \in Filled : Cardinality({j \in Filled : j <= i}) = n]
DailyEvent(t, n) ==
  LET at == IF Nth(n).dated THEN Nth(n).day * UsageDay ELSE t
  IN [id |-> <<"daily", DayOf(at), Nth(n).model, n>>, at |-> at, cost |-> Nth(n).cost]
DailyEvents(t) == [n \in 1 .. Least(Cardinality(Filled), Cap) |-> DailyEvent(t, n)]

\* eventsFromLegacy: the time of the event is part of its id.
LegacyStamps(t, b) == [i \in 1 .. used[b] |-> [model |-> b, at |-> Stamp(t, used[b], i)]]
LegacyEvents(t) ==
  LET all == LegacyStamps(t, 1) \o LegacyStamps(t, 2) IN
    [i \in 1 .. Least(Len(all), Cap) |->
       [id |-> <<"legacy", all[i].at, all[i].model, i>>, at |-> all[i].at, cost |-> 1]]

\* upsertMany: a row with the id of an event is overwritten, the last event wins.
IdsOf(events) == {events[i].id : i \in DOMAIN events}
Upserted(events) ==
  {r \in rows : r.id \notin IdsOf(events)}
  \cup {events[i] : i \in {j \in DOMAIN events : \A k \in DOMAIN events :
                             events[k].id = events[j].id => k <= j}}

-----------------------------------------------------------------------------
(* The account, whose requests are made between and during refreshes         *)

MakeRequest(b) ==
  /\ account # "team" /\ used[b] < MaxUsed
  /\ used' = [used EXCEPT ![b] = @ + 1]
  /\ \E price \in 1 .. 2 :
       owed' = IF account = "individual" /\ b = OnDemand THEN owed + price ELSE owed
  /\ UNCHANGED <<account, now, days, probe, rows, last, reads>>

\* A new entry may stand anywhere in Cursor's answer.
NewEntry ==
  /\ account = "team" /\ Len(days) < MaxUsed
  /\ \E m \in Model, cost \in 0 .. 1, dated \in BOOLEAN, i \in 1 .. Len(days) + 1 :
       days' = InsertAt(days, i, [day |-> DayOf(now), model |-> m, cost |-> cost, dated |-> dated])
  /\ UNCHANGED <<account, now, used, owed, probe, rows, last, reads>>

SpendMore ==
  /\ \E i \in DOMAIN days : days[i].cost < 2 /\ days' = [days EXCEPT ![i].cost = @ + 1]
  /\ UNCHANGED <<account, now, used, owed, probe, rows, last, reads>>

Later ==
  /\ now < CycleLen
  /\ now' = now + 1
  /\ UNCHANGED <<account, used, owed, days, probe, rows, last, reads>>

-----------------------------------------------------------------------------
(* A refresh, a request at a time; without a token it ends at once           *)

To(p) == probe' = p /\ UNCHANGED <<account, now, used, owed, days, rows, last, reads>>

Refresh ==
  /\ probe = Idle /\ reads < MaxReads
  /\ probe' = [step |-> "summary", now |-> now] /\ reads' = reads + 1
  /\ UNCHANGED <<account, now, used, owed, days, rows, last>>

\* The events made of an answer, and what it said.
Made(events, count, bill, entries) ==
  [step |-> "store", events |-> events, count |-> count, bill |-> bill, entries |-> entries]

\* Only an individual's totals are in the summary.
Summary ==
  /\ probe.step = "summary"
  /\ To(IF account = "individual" /\ used # [b \in Bucket |-> 0]
        THEN Made(SummaryEvents(probe.now), Least(used[1], Cap) + Least(used[2], Cap), owed, <<>>)
        ELSE [probe EXCEPT !.step = "daily"])

\* Teams are answered; anybody may be refused.
Daily ==
  /\ probe.step = "daily"
  /\ \/ /\ account = "team" /\ Filled # {}
        /\ LET events == DailyEvents(probe.now)
               count  == Least(Cardinality(Filled), Cap)
           IN To(Made(events, count, Costs([n \in 1 .. count |-> Nth(n)]),
                      [n \in DOMAIN events |-> events[n].id]))
     \/ To([probe EXCEPT !.step = "legacy"])

Legacy ==
  /\ probe.step = "legacy"
  /\ LET count == Least(used[1] + used[2], Cap) IN
       To(IF account = "old" /\ count > 0
          THEN Made(LegacyEvents(probe.now), count, count, <<>>)
          ELSE Idle)

\* upsertMany in one transaction.
StoreUsage ==
  /\ probe.step = "store"
  /\ probe' = Idle
  /\ rows' = Upserted(probe.events)
  /\ last' = [ids |-> IdsOf(probe.events), count |-> probe.count, bill |-> probe.bill,
              entries |-> probe.entries,
              inOrder |-> last.inOrder /\ IsPrefix(last.entries, probe.entries)]
  /\ UNCHANGED <<account, now, used, owed, days, reads>>

\* The summary or the last answer fails to come, the transaction fails, or the app
\* is left: nothing is stored.
Fail == probe # Idle /\ To(Idle)

-----------------------------------------------------------------------------
CursorInit ==
  /\ account \in Account
  /\ now = 0 /\ used = [b \in Bucket |-> 0] /\ owed = 0 /\ days = <<>>
  /\ probe = Idle /\ rows = {} /\ last = NoReading /\ reads = 0

CursorNext ==
  \/ \E b \in Bucket : MakeRequest(b)
  \/ NewEntry \/ SpendMore \/ Later
  \/ Refresh \/ Summary \/ Daily \/ Legacy \/ StoreUsage \/ Fail

CursorSpec == CursorInit /\ [][CursorNext]_cursorVars

-----------------------------------------------------------------------------
(* Properties                                                                *)

\* After a refresh the table holds an event for each request or entry that the
\* answer reported, and they add up to the cost it reported: no two of them share
\* an id, nothing of a split is lost and no older row is in the way.
Stored       == {r \in rows : r.id \in last.ids}
CountStored  == Cardinality(Stored) = last.count
CostStored   == Costs([r \in Stored |-> r]) = last.bill
ReportStored == CountStored /\ CostStored

\* While the answers only grow at the end, a team's day and model is one row, and
\* the table holds nothing else: overlapping refreshes overwrite their rows.
DailyOnce ==
  account = "team" /\ last.inOrder => {r.id : r \in rows} = Range(last.entries)

\* Made-up events lie in the part of the cycle that is over.
NotAhead == \A r \in rows : r.at \in 0 .. now

\* What a refresh stores of Cursor's answers, whatever happens between and during
\* refreshes.
CursorSound == ReportStored /\ DailyOnce /\ NotAhead
=============================================================================
