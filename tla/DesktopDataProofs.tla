-------------------------- MODULE DesktopDataProofs --------------------------
(***************************************************************************)
(* Theorems about the desktop app's data: its alerts (Alerts), for any      *)
(* number of overlapping ticks and of rows, the events it reads from the    *)
(* logs (Ingest), for logs of any length, and the price of a call (Pricing),  *)
(* for any price list.                                                     *)
(***************************************************************************)
EXTENDS Ingest, Alerts, Pricing, FiniteSetTheorems, SequenceTheorems, WellFoundedInduction, TLAPS

(***************************************************************************)
(* Alerts.                                                                 *)
(***************************************************************************)
Signatures == {"system.cpu", "system.memory", "cost.daily", "cost.forecast"}
Rows       == [signature : Signatures, severity : {"warning", "critical"},
               status : Live \cup {"resolved"}]
Stages     == Signatures \cup {"idle", "unsnooze", "snapshot", "downgrade", "done"}
Ticks      == [pc : Stages, fresh : SUBSET Nat, paid : BOOLEAN, changed : BOOLEAN]

AlertTypeOK ==
  /\ over \subseteq Signatures
  /\ alerts \in Seq(Rows)
  /\ tick \in [Tick -> Ticks]
  /\ fired \in [1 .. MaxAlerts -> Nat]
  /\ repaint \in BOOLEAN /\ missed \in BOOLEAN /\ calmed \in BOOLEAN

\* What a tick has raised is in the table, is its own, and was not given up.
FreshKnown ==
  /\ critical \subseteq Ids /\ lost \subseteq Ids
  /\ \A t \in Tick : tick[t].fresh \subseteq Ids /\ tick[t].fresh \cap lost = {}
  /\ \A t, u \in Tick : t # u => tick[t].fresh \cap tick[u].fresh = {}

\* A tick that has not begun to write has nothing to tell.
NothingYet ==
  \A t \in Tick : tick[t].pc \in {"idle", "unsnooze"} => ~Changed(t)

\* Whoever owes the tray a repaint is still under way, or failed.
Owed == repaint => missed \/ \E t \in Tick : Changed(t)

AlertInv == /\ AlertTypeOK /\ FreshKnown /\ NothingYet /\ Owed
            /\ OneLivePerCondition /\ NotifiedOnce /\ CalmWhenPaid

-----------------------------------------------------------------------------
\* No step takes a row away, changes its condition, makes it critical, or
\* touches it once it is resolved.
RowsKept ==
  /\ alerts' \in Seq(Rows) /\ Len(alerts') >= Len(alerts)
  /\ \A i \in Ids : /\ alerts'[i].signature = alerts[i].signature
                    /\ alerts'[i].severity \in {alerts[i].severity, "warning"}
                    /\ alerts'[i].status \in Live => alerts[i].status \in Live
                    /\ alerts[i].status = "resolved" => alerts'[i] = alerts[i]

\* Rows are only added by Raise.
SameIds == Len(alerts') = Len(alerts)

LEMMA PutKeeps ==
  ASSUME AlertTypeOK, NEW S, NEW s \in Live \cup {"resolved"}, S \subseteq InStatus(Live),
         alerts' = Put(S, s)
  PROVE  RowsKept /\ SameIds /\ Ids' = Ids
<1>1. \A i \in Ids : alerts[i] \in Rows
  BY DEF AlertTypeOK, Ids
<1>2. \A i \in Ids : [alerts[i] EXCEPT !.status = s] \in Rows
  BY <1>1 DEF Rows
<1>3. alerts' \in Seq(Rows) /\ Len(alerts') = Len(alerts)
  BY <1>1, <1>2 DEF Put, Ids, AlertTypeOK
<1>4. \A i \in Ids : alerts'[i] = IF i \in S THEN [alerts[i] EXCEPT !.status = s] ELSE alerts[i]
  BY DEF Put
<1>5. \A i \in Ids : i \in S => alerts[i].status \in Live
  BY DEF InStatus
<1>6. "resolved" \notin Live
  BY DEF Live
<1>7. Len(alerts) \in Nat
  BY DEF AlertTypeOK
<1>8. \A i \in Ids : /\ alerts'[i].signature = alerts[i].signature
                     /\ alerts'[i].severity = alerts[i].severity
                     /\ alerts'[i].status \in Live => alerts[i].status \in Live
                     /\ alerts[i].status = "resolved" => alerts'[i] = alerts[i]
  BY <1>1, <1>4, <1>5, <1>6 DEF Rows
<1>. QED
  BY <1>3, <1>7, <1>8 DEF RowsKept, SameIds, Ids

LEMMA DowngradeKeeps ==
  ASSUME AlertTypeOK, NEW t \in Tick, Downgrade(t)
  PROVE  RowsKept /\ SameIds
<1>0. /\ \A i \in Ids : alerts[i] \in Rows
      /\ Len(alerts) \in Nat
      /\ "resolved" \notin Live
  BY DEF AlertTypeOK, Ids, Live
<1>1. alerts' = [i \in Ids |-> IF i \in Downgraded THEN [alerts[i] EXCEPT !.severity = "warning"]
                               ELSE alerts[i]]
  BY DEF Downgrade
<1>2. \A i \in Ids : [alerts[i] EXCEPT !.severity = "warning"] \in Rows
  BY <1>0 DEF Rows
<1>3. alerts' \in Seq(Rows) /\ Len(alerts') = Len(alerts)
  BY <1>0, <1>1, <1>2 DEF Ids, AlertTypeOK
<1>4. \A i \in Ids : i \in Downgraded => alerts[i].status # "resolved"
  BY <1>0 DEF Downgraded, InStatus
<1>5. \A i \in Ids : /\ alerts'[i].signature = alerts[i].signature
                     /\ alerts'[i].severity \in {alerts[i].severity, "warning"}
                     /\ alerts'[i].status = alerts[i].status
                     /\ alerts[i].status = "resolved" => alerts'[i] = alerts[i]
  BY <1>0, <1>1, <1>4 DEF Rows
<1>. QED
  BY <1>0, <1>3, <1>5 DEF RowsKept, SameIds

\* What each step does to the rows.
LEMMA RowsStep ==
  ASSUME AlertTypeOK, AlertNext
  PROVE  RowsKept /\ (SameIds \/ \E t \in Tick : Raise(t))
<1>0. /\ \A i \in Ids : alerts[i] \in Rows
      /\ Len(alerts) \in Nat
      /\ "resolved" \notin Live
  BY DEF AlertTypeOK, Ids, Live
<1>1. ASSUME UNCHANGED alerts PROVE RowsKept /\ SameIds
  BY <1>0, <1>1 DEF RowsKept, SameIds, AlertTypeOK
<1>2. CASE SamplerStart
  BY <1>1, <1>2 DEF SamplerStart
<1>3. ASSUME NEW t \in Tick, TickStart(t) \/ Snapshot(t) \/ TickDone(t) \/ TickFails(t)
      PROVE  RowsKept /\ SameIds
  BY <1>1, <1>3 DEF TickStart, Snapshot, TickDone, TickFails
<1>4. ASSUME NEW t \in Tick, Unsnooze(t) PROVE RowsKept /\ SameIds
  <2>1. PICK S \in {{}, InStatus({"snoozed"})} : alerts' = Put(Ended(S), "open")
    BY <1>4 DEF Unsnooze
  <2>2. Ended(S) \subseteq InStatus(Live)
    BY DEF Ended, InStatus, Live
  <2>. QED
    BY <2>1, <2>2, PutKeeps DEF Live
<1>5. ASSUME NEW t \in Tick, Raise(t) PROVE RowsKept
  <2>1. tick[t].pc \in Signatures
    BY <1>5 DEF Raise, AlertTypeOK
  <2>2. CASE UNCHANGED alerts
    BY <1>1, <2>2
  <2>3. ASSUME NEW v \in {"warning", "critical"},
               alerts' = Append(alerts, [signature |-> tick[t].pc, severity |-> v, status |-> "open"])
        PROVE  RowsKept
    <3>1. [signature |-> tick[t].pc, severity |-> v, status |-> "open"] \in Rows
      BY <2>1 DEF Rows, Live
    <3>2. /\ alerts' \in Seq(Rows) /\ Len(alerts') = Len(alerts) + 1
          /\ \A i \in Ids : alerts'[i] = alerts[i]
      BY <2>3, <3>1 DEF AlertTypeOK, Ids
    <3>. QED
      BY <1>0, <3>2 DEF RowsKept
  <2>. QED
    BY <1>5, <2>2, <2>3 DEF Raise, Severities
<1>6. ASSUME NEW t \in Tick, Downgrade(t) PROVE RowsKept /\ SameIds
  BY <1>6, DowngradeKeeps
<1>7. ASSUME NEW ids, NEW from \in SUBSET Live, NEW s \in Live \cup {"resolved"}, React(ids, from, s)
      PROVE  RowsKept /\ SameIds
  <2>1. ids \cap InStatus(from) \subseteq InStatus(Live)
    BY DEF InStatus
  <2>. QED
    BY <1>7, <2>1, PutKeeps DEF React
<1>8. ASSUME NEW i \in Ids, Ack(i) \/ Resolve(i) \/ Snooze(i) PROVE RowsKept /\ SameIds
  BY <1>7, <1>8 DEF Ack, Resolve, Snooze, AckFrom, ResolveFrom, SnoozeFrom, Live
<1>9. CASE ResolveAll
  BY <1>7, <1>9 DEF ResolveAll
<1>. QED
  BY <1>2, <1>3, <1>4, <1>5, <1>6, <1>8, <1>9 DEF AlertNext, TickStep

\* A tick notes its progress in its own place and forgets nothing it raised.
Noted(t) ==
  /\ tick' \in [Tick -> Ticks]
  /\ \A u \in Tick : u # t => tick'[u] = tick[u]
  /\ tick'[t].fresh = tick[t].fresh
Writing == Stages \ {"idle", "unsnooze"}

LEMMA ThenType == \A pc : pc # "idle" => Then(pc) \subseteq Writing
BY DEF Then, Cost, Stages, Signatures, Writing

LEMMA TickNotes ==
  ASSUME AlertTypeOK, NEW t \in Tick, TickStart(t) \/ Snapshot(t)
  PROVE  /\ Noted(t) /\ tick'[t].changed = tick[t].changed
         /\ tick'[t].pc = "unsnooze" => tick[t].pc = "idle"
         /\ tick'[t].pc # "idle"
<1>1. PICK pc \in Writing \cup {"unsnooze"} :
             tick' = [tick EXCEPT ![t].pc = pc] /\ (pc = "unsnooze" => tick[t].pc = "idle")
  BY ThenType DEF TickStart, Snapshot, TickAt, Writing, Stages
<1>. QED
  BY <1>1 DEF AlertTypeOK, Ticks, Noted, Writing, Stages

LEMMA UnsnoozeNotes ==
  ASSUME AlertTypeOK, NEW t \in Tick, Unsnooze(t)
  PROVE  /\ Noted(t) /\ tick'[t].pc \in Writing
         /\ \E S \in {{}, InStatus({"snoozed"})} :
              alerts' = Put(Ended(S), "open") /\ (tick'[t].changed <=> Ended(S) # {})
<1>1. PICK S \in {{}, InStatus({"snoozed"})}, pc \in Then("unsnooze") :
             /\ alerts' = Put(Ended(S), "open")
             /\ tick' = [tick EXCEPT ![t].pc = pc, ![t].changed = Ended(S) # {}]
  BY DEF Unsnooze
<1>2. pc \in Writing
  BY ThenType
<1>3. ASSUME NEW c \in BOOLEAN, tick' = [tick EXCEPT ![t].pc = pc, ![t].changed = c]
      PROVE  Noted(t) /\ tick'[t].pc = pc /\ tick'[t].changed = c
  BY <1>2, <1>3 DEF AlertTypeOK, Ticks, Noted, Writing
<1>4. Noted(t) /\ tick'[t].pc = pc /\ tick'[t].changed = (Ended(S) # {})
  BY <1>1, <1>3
<1>. QED
  BY <1>1, <1>2, <1>4

LEMMA DowngradeNotes ==
  ASSUME AlertTypeOK, NEW t \in Tick, Downgrade(t)
  PROVE  /\ Noted(t) /\ tick'[t].pc \in Writing
         /\ tick'[t].changed <=> tick[t].changed \/ alerts' # alerts
<1>1. PICK pc \in Then("downgrade") :
             tick' = [tick EXCEPT ![t].pc = pc, ![t].paid = (pc # "done"),
                                  ![t].changed = @ \/ alerts' # alerts]
  BY DEF Downgrade
<1>2. pc \in Writing
  BY ThenType
<1>3. ASSUME NEW p \in BOOLEAN, NEW c \in BOOLEAN,
             tick' = [tick EXCEPT ![t].pc = pc, ![t].paid = p, ![t].changed = @ \/ c]
      PROVE  Noted(t) /\ tick'[t].pc = pc /\ (tick'[t].changed <=> tick[t].changed \/ c)
  <2>1. (tick[t].changed \/ c) \in BOOLEAN
    OBVIOUS
  <2>. QED
    BY <1>2, <1>3, <2>1 DEF AlertTypeOK, Ticks, Noted, Writing
<1>4. Noted(t) /\ tick'[t].pc = pc /\ (tick'[t].changed <=> tick[t].changed \/ alerts' # alerts)
  BY <1>1, <1>3
<1>. QED
  BY <1>2, <1>4

\* raiseIfNew finds a live row of the condition, or inserts one.
LEMMA RaiseNotes ==
  ASSUME AlertTypeOK, NEW t \in Tick, Raise(t)
  PROVE  /\ tick' \in [Tick -> Ticks] /\ \A u \in Tick : u # t => tick'[u] = tick[u]
         /\ tick'[t].pc \in Writing /\ tick'[t].changed = tick[t].changed
         /\ \/ tick'[t].fresh = tick[t].fresh /\ UNCHANGED <<alerts, critical, calmed>>
            \/ /\ tick'[t].fresh = tick[t].fresh \cup {Len(alerts) + 1}
               /\ ~Taken(tick[t].pc) /\ Len(alerts') = Len(alerts) + 1
               /\ critical' \in {critical, critical \cup {Len(alerts) + 1}}
               /\ \A i \in Ids : alerts'[i] = alerts[i]
               /\ alerts'[Len(alerts) + 1].signature = tick[t].pc
               /\ alerts'[Len(alerts) + 1].severity \in Severities(tick[t].pc, tick[t].paid)
               /\ calmed' = (calmed /\ (tick[t].pc = "cost.forecast" => tick[t].paid))
<1>0. Len(alerts) + 1 \in Nat /\ tick[t].pc # "idle"
  BY DEF Raise, AlertTypeOK, Signatures
<1>1. CASE /\ \E pc \in Then(tick[t].pc) : tick' = [tick EXCEPT ![t].pc = pc]
           /\ UNCHANGED <<alerts, critical, calmed>>
  <2>1. PICK pc \in Writing : tick' = [tick EXCEPT ![t].pc = pc]
    BY <1>0, <1>1, ThenType
  <2>2. /\ tick' \in [Tick -> Ticks] /\ \A u \in Tick : u # t => tick'[u] = tick[u]
        /\ tick'[t].pc \in Writing /\ tick'[t].changed = tick[t].changed
        /\ tick'[t].fresh = tick[t].fresh
    BY <2>1 DEF AlertTypeOK, Ticks, Writing
  <2>. QED
    BY <1>1, <2>2
<1>2. ASSUME NEW pc \in Then(tick[t].pc), NEW severity \in Severities(tick[t].pc, tick[t].paid),
             ~Taken(tick[t].pc),
             alerts' = Append(alerts, [signature |-> tick[t].pc, severity |-> severity,
                                       status |-> "open"]),
             tick' = [tick EXCEPT ![t].pc = pc, ![t].fresh = @ \cup {Len(alerts) + 1}],
             critical' = IF severity = "critical" THEN critical \cup {Len(alerts) + 1} ELSE critical,
             calmed' = (calmed /\ (tick[t].pc = "cost.forecast" => tick[t].paid))
      PROVE  /\ tick' \in [Tick -> Ticks] /\ \A u \in Tick : u # t => tick'[u] = tick[u]
             /\ tick'[t].pc \in Writing /\ tick'[t].changed = tick[t].changed
             /\ tick'[t].fresh = tick[t].fresh \cup {Len(alerts) + 1}
             /\ Len(alerts') = Len(alerts) + 1
             /\ critical' \in {critical, critical \cup {Len(alerts) + 1}}
             /\ \A i \in Ids : alerts'[i] = alerts[i]
             /\ alerts'[Len(alerts) + 1].signature = tick[t].pc
             /\ alerts'[Len(alerts) + 1].severity = severity
  <2>1. pc \in Writing
    BY <1>0, ThenType
  <2>2. /\ tick' \in [Tick -> Ticks] /\ \A u \in Tick : u # t => tick'[u] = tick[u]
        /\ tick'[t].pc \in Writing /\ tick'[t].changed = tick[t].changed
        /\ tick'[t].fresh = tick[t].fresh \cup {Len(alerts) + 1}
    BY <1>0, <1>2, <2>1 DEF AlertTypeOK, Ticks, Writing
  <2>3. critical' \in {critical, critical \cup {Len(alerts) + 1}}
    BY <1>2
  <2>4. /\ Len(alerts') = Len(alerts) + 1
        /\ \A i \in Ids : alerts'[i] = alerts[i]
        /\ alerts'[Len(alerts) + 1] = [signature |-> tick[t].pc, severity |-> severity, status |-> "open"]
    BY <1>2 DEF AlertTypeOK, Ids
  <2>. QED
    BY <2>2, <2>3, <2>4
<1>3. \/ /\ \E pc \in Then(tick[t].pc) : tick' = [tick EXCEPT ![t].pc = pc]
         /\ UNCHANGED <<alerts, critical, calmed>>
      \/ \E pc \in Then(tick[t].pc), severity \in Severities(tick[t].pc, tick[t].paid) :
           /\ ~Taken(tick[t].pc)
           /\ alerts' = Append(alerts, [signature |-> tick[t].pc, severity |-> severity,
                                        status |-> "open"])
           /\ tick' = [tick EXCEPT ![t].pc = pc,
                                   ![t].fresh = @ \cup {Len(alerts) + 1}]
           /\ critical' = IF severity = "critical" THEN critical \cup {Len(alerts) + 1} ELSE critical
           /\ calmed' = (calmed /\ (tick[t].pc = "cost.forecast" => tick[t].paid))
  BY DEF Raise
<1>. QED
  BY <1>1, <1>2, <1>3

\* The types are kept; the shape of the rows is RowsStep's.
LEMMA AlertTypeStep == ASSUME AlertTypeOK, [AlertNext]_alertVars PROVE AlertTypeOK'
<1>. USE DEF AlertTypeOK
<1>1. CASE AlertNext
  <2>1. alerts' \in Seq(Rows)
    BY <1>1, RowsStep DEF RowsKept
  <2>2. CASE SamplerStart
    BY <2>1, <2>2 DEF SamplerStart
  <2>3. ASSUME NEW t \in Tick, TickStart(t) \/ Snapshot(t) PROVE AlertTypeOK'
    BY <2>1, <2>3, TickNotes DEF TickStart, Snapshot, Noted
  <2>4. ASSUME NEW t \in Tick, TickDone(t) \/ TickFails(t) PROVE AlertTypeOK'
    <3>1. tick' \in [Tick -> Ticks]
      <4>1. NoTick \in Ticks
        BY DEF NoTick, Ticks, Stages
      <4>. QED
        BY <2>4, <4>1 DEF TickDone, TickFails
    <3>2. fired' \in [1 .. MaxAlerts -> Nat]
      BY <2>4 DEF TickDone, TickFails
    <3>3. repaint' \in BOOLEAN /\ missed' \in BOOLEAN /\ calmed' \in BOOLEAN
      BY <2>4 DEF TickDone, TickFails, Announce, Changed, Ticks
    <3>. QED
      BY <2>1, <2>4, <3>1, <3>2, <3>3 DEF TickDone, TickFails
  <2>5. ASSUME NEW t \in Tick, Unsnooze(t) \/ Raise(t) \/ Downgrade(t) PROVE AlertTypeOK'
    <3>1. tick' \in [Tick -> Ticks]
      BY <2>5, UnsnoozeNotes, RaiseNotes, DowngradeNotes DEF Noted
    <3>2. calmed' \in BOOLEAN
      BY <2>5, RaiseNotes DEF Unsnooze, Downgrade
    <3>. QED
      BY <2>1, <2>5, <3>1, <3>2 DEF Unsnooze, Raise, Downgrade
  <2>6. CASE (\E i \in Ids : Ack(i) \/ Resolve(i) \/ Snooze(i)) \/ ResolveAll
    BY <2>1, <2>6 DEF Ack, Resolve, Snooze, ResolveAll, React, Announce
  <2>. QED
    BY <1>1, <2>2, <2>3, <2>4, <2>5, <2>6 DEF AlertNext, TickStep
<1>2. CASE UNCHANGED alertVars
  BY <1>2 DEF alertVars
<1>. QED
  BY <1>1, <1>2

-----------------------------------------------------------------------------
\* raiseIfNew inserts nothing beside a live row of its condition, and no other
\* step makes a resolved row live again.
LEMMA OneLiveStep ==
  ASSUME AlertTypeOK, OneLivePerCondition, AlertNext
  PROVE  OneLivePerCondition'
<1>1. RowsKept
  BY RowsStep
<1>2. Len(alerts) \in Nat
  BY DEF AlertTypeOK
<1>3. ASSUME NEW i \in InStatus(Live)', NEW j \in InStatus(Live)', i \in Ids, j \in Ids,
             alerts'[i].signature = alerts'[j].signature
      PROVE  i = j
  BY <1>1, <1>3 DEF RowsKept, OneLivePerCondition, InStatus
<1>4. CASE SameIds
  BY <1>2, <1>3, <1>4 DEF SameIds, OneLivePerCondition, InStatus, Ids
<1>5. ASSUME NEW t \in Tick, Raise(t) PROVE OneLivePerCondition'
  <2>1. CASE UNCHANGED alerts
    BY <2>1 DEF OneLivePerCondition, InStatus, Ids
  <2>2. CASE /\ ~Taken(tick[t].pc)
             /\ Len(alerts') = Len(alerts) + 1
             /\ alerts'[Len(alerts) + 1].signature = tick[t].pc
    <3>1. ASSUME NEW i \in InStatus(Live)', i \in Ids PROVE alerts'[i].signature # tick[t].pc
      BY <1>1, <2>2, <3>1 DEF RowsKept, Taken, InStatus
    <3>2. Ids' = Ids \cup {Len(alerts) + 1}
      BY <1>2, <2>2 DEF Ids
    <3>. QED
      BY <1>3, <2>2, <3>1, <3>2 DEF OneLivePerCondition, InStatus
  <2>. QED
    BY <1>5, <2>1, <2>2, RaiseNotes
<1>. QED
  BY <1>4, <1>5, RowsStep

\* What a step makes of the ids a tick has raised: only Raise adds one, its own
\* and new; only the end of the tick forgets them.
LEMMA FreshStep ==
  ASSUME AlertTypeOK, AlertNext, NEW u \in Tick
  PROVE  \/ tick'[u].fresh = tick[u].fresh
         \/ tick'[u] = NoTick
         \/ Raise(u) /\ ~SameIds /\ tick'[u].fresh = tick[u].fresh \cup {Len(alerts) + 1}
<1>0. Len(alerts) \in Nat
  BY DEF AlertTypeOK
<1>1. ASSUME NEW t \in Tick, TickStart(t) \/ Unsnooze(t) \/ Snapshot(t) \/ Downgrade(t)
      PROVE  tick'[u].fresh = tick[u].fresh
  BY <1>1, TickNotes, UnsnoozeNotes, DowngradeNotes DEF Noted
<1>2. ASSUME NEW t \in Tick, TickDone(t) \/ TickFails(t)
      PROVE  tick'[u] = tick[u] \/ tick'[u] = NoTick
  BY <1>2 DEF TickDone, TickFails, AlertTypeOK
<1>3. ASSUME NEW t \in Tick, Raise(t)
      PROVE  \/ tick'[u].fresh = tick[u].fresh
             \/ t = u /\ ~SameIds /\ tick'[u].fresh = tick[u].fresh \cup {Len(alerts) + 1}
  BY <1>0, <1>3, RaiseNotes DEF SameIds
<1>4. CASE SamplerStart \/ (\E i \in Ids : Ack(i) \/ Resolve(i) \/ Snooze(i)) \/ ResolveAll
  BY <1>4 DEF SamplerStart, Ack, Resolve, Snooze, ResolveAll, React
<1>. QED
  BY <1>1, <1>2, <1>3, <1>4 DEF AlertNext, TickStep

\* The histories of critical and given-up alerts.
LEMMA HistoryStep ==
  ASSUME AlertTypeOK, AlertNext
  PROVE  /\ \/ critical' = critical
            \/ ~SameIds /\ critical' = critical \cup {Len(alerts) + 1}
         /\ \/ lost' = lost
            \/ \E t \in Tick : lost' = lost \cup ToNotify(t) /\ tick'[t] = NoTick /\ SameIds
<1>0. Len(alerts) \in Nat
  BY DEF AlertTypeOK
<1>1. ASSUME NEW t \in Tick, Raise(t)
      PROVE  /\ lost' = lost
             /\ \/ critical' = critical
                \/ ~SameIds /\ critical' = critical \cup {Len(alerts) + 1}
  <2>1. lost' = lost
    BY <1>1 DEF Raise
  <2>. QED
    BY <1>0, <1>1, <2>1, RaiseNotes DEF SameIds
<1>2. ASSUME NEW t \in Tick, TickFails(t)
      PROVE  critical' = critical /\ lost' = lost \cup ToNotify(t) /\ tick'[t] = NoTick /\ SameIds
  BY <1>2 DEF TickFails, SameIds, AlertTypeOK
<1>3. ASSUME NEW t \in Tick, TickStart(t) \/ Unsnooze(t) \/ Snapshot(t) \/ Downgrade(t) \/ TickDone(t)
      PROVE  critical' = critical /\ lost' = lost
  BY <1>3 DEF TickStart, Unsnooze, Snapshot, Downgrade, TickDone
<1>4. CASE SamplerStart \/ (\E i \in Ids : Ack(i) \/ Resolve(i) \/ Snooze(i)) \/ ResolveAll
  BY <1>4 DEF SamplerStart, Ack, Resolve, Snooze, ResolveAll, React
<1>. QED
  BY <1>1, <1>2, <1>3, <1>4 DEF AlertNext, TickStep

LEMMA FreshKnownStep ==
  ASSUME AlertTypeOK, FreshKnown, AlertNext
  PROVE  FreshKnown'
<1>0. /\ Len(alerts) \in Nat /\ Len(alerts') \in Nat
      /\ Len(alerts') >= Len(alerts) /\ (~SameIds => Len(alerts') > Len(alerts))
      /\ NoTick.fresh = {}
  BY RowsStep DEF RowsKept, AlertTypeOK, SameIds, NoTick
<1>1. Ids \subseteq Ids' /\ Len(alerts) + 1 \notin Ids /\ (~SameIds => Len(alerts) + 1 \in Ids')
  BY <1>0 DEF Ids
<1>2. \A u \in Tick : tick[u].fresh \subseteq Ids
  BY DEF FreshKnown
<1>3. critical' \subseteq Ids'
  BY <1>1, HistoryStep DEF FreshKnown
<1>4. lost' \subseteq Ids
  BY <1>1, HistoryStep DEF FreshKnown, ToNotify
<1>5. ASSUME NEW t \in Tick, NEW u \in Tick, t # u
      PROVE  tick'[t].fresh \cap tick'[u].fresh = {}
  <2>1. ~(Raise(t) /\ Raise(u) /\ ~SameIds /\ tick'[t].fresh = tick[t].fresh \cup {Len(alerts) + 1}
          /\ tick'[u].fresh = tick[u].fresh \cup {Len(alerts) + 1})
    <3>1. Raise(t) => tick'[u] = tick[u]
      BY <1>5, RaiseNotes
    <3>. QED
      BY <1>1, <1>2, <3>1
  <2>. QED
    BY <1>0, <1>1, <1>2, <1>5, <2>1, FreshStep DEF FreshKnown
<1>6. ASSUME NEW u \in Tick PROVE tick'[u].fresh \cap lost' = {}
  <2>1. tick'[u].fresh \cap lost = {}
    BY <1>0, <1>1, FreshStep DEF FreshKnown
  <2>2. ASSUME NEW t \in Tick, lost' = lost \cup ToNotify(t), tick'[t] = NoTick, SameIds
        PROVE  tick'[u].fresh \cap lost' = {}
    <3>1. tick'[u].fresh = tick[u].fresh \/ tick'[u] = NoTick
      BY <2>2, FreshStep
    <3>. QED
      BY <1>0, <2>1, <2>2, <3>1 DEF FreshKnown, ToNotify
  <2>. QED
    BY <2>1, <2>2, HistoryStep
<1>7. ASSUME NEW u \in Tick PROVE tick'[u].fresh \subseteq Ids'
  BY <1>0, <1>1, <1>2, FreshStep
<1>. QED
  BY <1>1, <1>3, <1>4, <1>5, <1>6, <1>7 DEF FreshKnown

\* A notification goes out for what its own tick raised, which nobody else has
\* and nobody gave up; a tick that fails gives up what it had raised.
Raised(i) == \E t \in Tick : i \in tick[t].fresh

LEMMA NotifiedMeans ==
  NotifiedOnce <=> \A i \in 1 .. MaxAlerts :
                     fired[i] = IF i \in critical /\ i \notin lost /\ ~Raised(i) THEN 1 ELSE 0
<1>1. \A i : i \in UNION {tick[t].fresh : t \in Tick} <=> Raised(i)
  BY DEF Raised
<1>. QED
  BY <1>1 DEF NotifiedOnce

LEMMA NotifiedStep ==
  ASSUME AlertTypeOK, FreshKnown, NotifiedOnce, AlertNext
  PROVE  NotifiedOnce'
<1>. SUFFICES ASSUME NEW i \in 1 .. MaxAlerts
              PROVE  fired'[i] = IF i \in critical' /\ i \notin lost' /\ ~Raised(i)' THEN 1 ELSE 0
  BY DEF NotifiedOnce, Raised
<1>0. fired[i] = IF i \in critical /\ i \notin lost /\ ~Raised(i) THEN 1 ELSE 0
  BY NotifiedMeans
<1>1. ASSUME UNCHANGED <<fired, critical, lost>>, \A t \in Tick : tick'[t].fresh = tick[t].fresh
      PROVE  fired'[i] = IF i \in critical' /\ i \notin lost' /\ ~Raised(i)' THEN 1 ELSE 0
  BY <1>0, <1>1 DEF Raised
<1>2. CASE SamplerStart \/ (\E j \in Ids : Ack(j) \/ Resolve(j) \/ Snooze(j)) \/ ResolveAll
  BY <1>1, <1>2 DEF SamplerStart, Ack, Resolve, Snooze, ResolveAll, React
<1>4. ASSUME NEW t \in Tick, TickStart(t) \/ Unsnooze(t) \/ Snapshot(t) \/ Downgrade(t)
      PROVE  fired'[i] = IF i \in critical' /\ i \notin lost' /\ ~Raised(i)' THEN 1 ELSE 0
  <2>1. \A u \in Tick : tick'[u].fresh = tick[u].fresh
    BY <1>4, TickNotes, UnsnoozeNotes, DowngradeNotes DEF Noted
  <2>. QED
    BY <1>1, <1>4, <2>1 DEF TickStart, Unsnooze, Snapshot, Downgrade
<1>5. ASSUME NEW t \in Tick, tick' = [tick EXCEPT ![t] = NoTick]
      PROVE  /\ Raised(i)' => Raised(i)
             /\ Raised(i) => Raised(i)' \/ i \in tick[t].fresh
             /\ i \in tick[t].fresh => ~Raised(i)'
  BY <1>5 DEF Raised, NoTick, FreshKnown, AlertTypeOK
<1>6. ASSUME NEW t \in Tick, TickDone(t)
      PROVE  fired'[i] = IF i \in critical' /\ i \notin lost' /\ ~Raised(i)' THEN 1 ELSE 0
  <2>1. fired'[i] = IF i \in ToNotify(t) THEN fired[i] + 1 ELSE fired[i]
    BY <1>6 DEF TickDone, AlertTypeOK
  <2>2. i \in tick[t].fresh => Raised(i) /\ i \notin lost
    BY DEF Raised, FreshKnown
  <2>3. critical' = critical /\ lost' = lost /\ tick' = [tick EXCEPT ![t] = NoTick]
    BY <1>6 DEF TickDone
  <2>4. CASE i \in tick[t].fresh
    <3>1. ~Raised(i)'
      BY <1>5, <2>3, <2>4
    <3>. QED
      BY <1>0, <2>1, <2>2, <2>3, <2>4, <3>1 DEF ToNotify
  <2>5. CASE i \notin tick[t].fresh
    <3>1. Raised(i)' <=> Raised(i)
      BY <1>5, <2>3, <2>5
    <3>. QED
      BY <1>0, <2>1, <2>3, <2>5, <3>1 DEF ToNotify
  <2>. QED
    BY <2>4, <2>5
<1>7. ASSUME NEW t \in Tick, TickFails(t)
      PROVE  fired'[i] = IF i \in critical' /\ i \notin lost' /\ ~Raised(i)' THEN 1 ELSE 0
  <2>1. i \in tick[t].fresh => Raised(i)
    BY DEF Raised
  <2>. QED
    BY <1>0, <1>5, <1>7, <2>1 DEF TickFails, ToNotify
<1>8. ASSUME NEW t \in Tick, Raise(t)
      PROVE  fired'[i] = IF i \in critical' /\ i \notin lost' /\ ~Raised(i)' THEN 1 ELSE 0
  <2>0. fired' = fired /\ lost' = lost
    BY <1>8 DEF Raise
  <2>1. CASE UNCHANGED critical /\ tick'[t].fresh = tick[t].fresh
    BY <1>1, <1>8, <2>0, <2>1, RaiseNotes
  <2>2. CASE /\ critical' \in {critical, critical \cup {Len(alerts) + 1}}
             /\ tick'[t].fresh = tick[t].fresh \cup {Len(alerts) + 1}
    <3>1. \A u \in Tick : tick'[u].fresh = IF u = t THEN tick[u].fresh \cup {Len(alerts) + 1}
                                           ELSE tick[u].fresh
      BY <1>8, <2>2, RaiseNotes
    <3>2. Len(alerts) + 1 \notin critical
      BY DEF FreshKnown, Ids, AlertTypeOK
    <3>3. i # Len(alerts) + 1 => (i \in critical' <=> i \in critical)
      BY <2>2
    <3>4. i # Len(alerts) + 1 => (Raised(i)' <=> Raised(i))
      BY <3>1 DEF Raised
    <3>5. i = Len(alerts) + 1 => Raised(i)'
      BY <3>1 DEF Raised
    <3>. QED
      BY <1>0, <2>0, <3>2, <3>3, <3>4, <3>5
  <2>. QED
    BY <1>8, <2>1, <2>2, RaiseNotes
<1>. QED
  BY <1>2, <1>4, <1>6, <1>7, <1>8 DEF AlertNext, TickStep

-----------------------------------------------------------------------------
\* Who owes the tray a repaint.  A step that changes the table leaves its tick
\* with something to tell, or tells at once.
LEMMA PressingMoves == ASSUME UNCHANGED alerts PROVE UNCHANGED Pressing
BY DEF Pressing, Ids

LEMMA NothingYetStep ==
  ASSUME AlertTypeOK, NothingYet, AlertNext
  PROVE  NothingYet'
<1>. SUFFICES ASSUME NEW u \in Tick, tick'[u].pc \in {"idle", "unsnooze"}
              PROVE  ~Changed(u)'
  BY DEF NothingYet
<1>0. tick[u].pc \in {"idle", "unsnooze"} => ~tick[u].changed /\ tick[u].fresh = {}
  BY DEF NothingYet, Changed
<1>1. CASE tick'[u] = tick[u]
  BY <1>0, <1>1 DEF Changed
<1>2. CASE tick'[u] = NoTick
  BY <1>2 DEF Changed, NoTick
<1>3. CASE SamplerStart \/ (\E j \in Ids : Ack(j) \/ Resolve(j) \/ Snooze(j)) \/ ResolveAll
  BY <1>1, <1>3 DEF SamplerStart, Ack, Resolve, Snooze, ResolveAll, React
<1>4. ASSUME NEW t \in Tick, TickDone(t) \/ TickFails(t) PROVE ~Changed(u)'
  BY <1>1, <1>2, <1>4 DEF TickDone, TickFails, AlertTypeOK
<1>5. ASSUME NEW t \in Tick, TickStart(t) PROVE ~Changed(u)'
  <2>1. tick[t].pc = "idle" /\ Noted(t) /\ tick'[t].changed = tick[t].changed
    BY <1>5, TickNotes DEF TickStart
  <2>. QED
    BY <1>0, <1>1, <2>1 DEF Noted, Changed
<1>6. ASSUME NEW t \in Tick, Unsnooze(t) \/ Raise(t) \/ Snapshot(t) \/ Downgrade(t) PROVE ~Changed(u)'
  <2>1. t # u => tick'[u] = tick[u]
    BY <1>6, TickNotes, UnsnoozeNotes, RaiseNotes, DowngradeNotes DEF Noted
  <2>2. t = u => tick'[u].pc \notin {"idle", "unsnooze"}
    <3>1. Snapshot(t) => tick[t].pc # "idle"
      BY DEF Snapshot
    <3>. QED
      BY <1>6, <3>1, TickNotes, UnsnoozeNotes, RaiseNotes, DowngradeNotes DEF Writing
  <2>. QED
    BY <1>1, <2>1, <2>2
<1>. QED
  BY <1>3, <1>4, <1>5, <1>6 DEF AlertNext, TickStep

LEMMA OwedStep ==
  ASSUME AlertTypeOK, Owed, NothingYet, AlertNext
  PROVE  Owed'
<1>1. CASE SamplerStart
  BY <1>1 DEF SamplerStart, Owed, Changed
<1>2. ASSUME NEW t \in Tick, TickStart(t) \/ Snapshot(t) PROVE Owed'
  <2>1. \A u \in Tick : Changed(u)' <=> Changed(u)
    BY <1>2, TickNotes DEF Noted, Changed
  <2>2. UNCHANGED <<repaint, missed>>
    BY <1>2 DEF TickStart, Snapshot
  <2>. QED
    BY <2>1, <2>2 DEF Owed
<1>3. ASSUME NEW t \in Tick, Unsnooze(t) \/ Raise(t) \/ Downgrade(t) PROVE Owed'
  <2>1. \A u \in Tick : Changed(u) => Changed(u)'
    <3>1. tick[t].pc = "unsnooze" => ~Changed(t)
      BY DEF NothingYet
    <3>2. Unsnooze(t) => tick[t].pc = "unsnooze"
      BY DEF Unsnooze
    <3>. QED
      BY <1>3, <3>1, <3>2, UnsnoozeNotes, RaiseNotes, DowngradeNotes DEF Noted, Changed
  <2>2. UNCHANGED alerts \/ Changed(t)'
    <3>1. CASE Unsnooze(t)
      <4>1. Put({}, "open") = alerts
        BY DEF Put, Ids, AlertTypeOK
      <4>. QED
        BY <3>1, <4>1, UnsnoozeNotes DEF Changed
    <3>2. CASE Raise(t)
      BY <3>2, RaiseNotes DEF Changed
    <3>3. CASE Downgrade(t)
      BY <3>3, DowngradeNotes DEF Changed
    <3>. QED
      BY <1>3, <3>1, <3>2, <3>3
  <2>3. missed' = missed /\ (repaint' => repaint \/ Changed(t)')
    BY <1>3, <2>2, PressingMoves DEF Unsnooze, Raise, Downgrade
  <2>. QED
    BY <2>1, <2>3 DEF Owed
<1>4. ASSUME NEW t \in Tick, TickDone(t) PROVE Owed'
  <2>1. CASE Changed(t)
    BY <1>4, <2>1 DEF TickDone, Announce, Owed
  <2>2. CASE ~Changed(t)
    <3>1. \A u \in Tick : Changed(u) => Changed(u)'
      BY <1>4, <2>2 DEF TickDone, Changed, AlertTypeOK
    <3>. QED
      BY <1>4, <2>2, <3>1 DEF TickDone, Owed
  <2>. QED
    BY <2>1, <2>2
<1>5. ASSUME NEW t \in Tick, TickFails(t) PROVE Owed'
  <2>1. \A u \in Tick : Changed(u) => Changed(u)' \/ u = t
    BY <1>5 DEF TickFails, Changed, AlertTypeOK
  <2>2. repaint' = repaint /\ missed' = (missed \/ Changed(t))
    BY <1>5 DEF TickFails
  <2>. QED
    BY <2>1, <2>2 DEF Owed
<1>6. CASE (\E i \in Ids : Ack(i) \/ Resolve(i) \/ Snooze(i)) \/ ResolveAll
  BY <1>6 DEF Ack, Resolve, Snooze, ResolveAll, React, Announce, Owed
<1>. QED
  BY <1>1, <1>2, <1>3, <1>4, <1>5, <1>6 DEF AlertNext, TickStep

\* A downgrade calms all that is live; later only a forecast of a tick that saw
\* no subscription can be critical, and it ends the calm.
LEMMA CalmStep ==
  ASSUME AlertTypeOK, CalmWhenPaid, AlertNext
  PROVE  CalmWhenPaid'
<1>0. RowsKept /\ Len(alerts) \in Nat
  BY RowsStep DEF AlertTypeOK
<1>1. ASSUME SameIds, calmed' => calmed PROVE CalmWhenPaid'
  BY <1>0, <1>1 DEF RowsKept, SameIds, CalmWhenPaid, InStatus, Ids
<1>2. ASSUME NEW t \in Tick, Downgrade(t) PROVE CalmWhenPaid'
  <2>1. Ids' = Ids
    BY <1>2, DowngradeKeeps DEF SameIds, Ids
  <2>2. \A i \in Ids : i \in Downgraded => alerts'[i].severity = "warning"
    <3>1. alerts' = [i \in Ids |-> IF i \in Downgraded THEN [alerts[i] EXCEPT !.severity = "warning"]
                                   ELSE alerts[i]]
      BY <1>2 DEF Downgrade
    <3>2. \A i \in Ids : alerts[i] \in Rows
      BY DEF AlertTypeOK, Ids
    <3>. QED
      BY <3>1, <3>2 DEF Rows
  <2>3. \A i \in Ids : alerts'[i].status \in Live /\ alerts'[i].signature \in Cost => i \in Downgraded
    BY <1>0 DEF RowsKept, Downgraded, InStatus
  <2>. QED
    BY <2>1, <2>2, <2>3 DEF CalmWhenPaid, InStatus
<1>3. ASSUME NEW t \in Tick, Raise(t) PROVE CalmWhenPaid'
  <2>1. CASE UNCHANGED <<alerts, calmed>>
    BY <1>0, <1>1, <2>1 DEF SameIds
  <2>2. CASE /\ Len(alerts') = Len(alerts) + 1
             /\ alerts'[Len(alerts) + 1].signature = tick[t].pc
             /\ alerts'[Len(alerts) + 1].severity \in Severities(tick[t].pc, tick[t].paid)
             /\ calmed' = (calmed /\ (tick[t].pc = "cost.forecast" => tick[t].paid))
    <3>1. Ids' = Ids \cup {Len(alerts) + 1}
      BY <1>0, <2>2 DEF Ids
    <3>2. calmed' /\ tick[t].pc \in Cost => alerts'[Len(alerts) + 1].severity = "warning"
      BY <2>2 DEF Severities, Cost
    <3>3. \A i \in Ids : calmed' /\ alerts'[i].status \in Live /\ alerts'[i].signature \in Cost
                           => alerts'[i].severity = "warning"
      BY <1>0, <2>2 DEF RowsKept, CalmWhenPaid, InStatus
    <3>. QED
      BY <2>2, <3>1, <3>2, <3>3 DEF CalmWhenPaid, InStatus
  <2>. QED
    BY <1>3, <2>1, <2>2, RaiseNotes
<1>4. ASSUME UNCHANGED calmed PROVE CalmWhenPaid'
  BY <1>1, <1>3, <1>4, RowsStep
<1>5. ASSUME NEW t \in Tick, TickStart(t) \/ Snapshot(t) \/ Unsnooze(t) \/ TickDone(t) \/ TickFails(t)
      PROVE  UNCHANGED calmed
  BY <1>5 DEF TickStart, Snapshot, Unsnooze, TickDone, TickFails
<1>6. CASE SamplerStart \/ (\E i \in Ids : Ack(i) \/ Resolve(i) \/ Snooze(i)) \/ ResolveAll
  BY <1>4, <1>6 DEF SamplerStart, Ack, Resolve, Snooze, ResolveAll, React
<1>. QED
  BY <1>2, <1>3, <1>4, <1>5, <1>6 DEF AlertNext, TickStep

-----------------------------------------------------------------------------
LEMMA AlertInvInit == AlertInit => AlertInv
<1>. SUFFICES ASSUME AlertInit PROVE AlertInv
  OBVIOUS
<1>1. NoTick \in Ticks /\ NoTick.fresh = {} /\ ~NoTick.changed
  BY DEF NoTick, Ticks, Stages
<1>2. Ids = {} /\ alerts \in Seq(Rows)
  BY DEF AlertInit, Ids
<1>3. AlertTypeOK
  BY <1>1, <1>2, AlertAssumption DEF AlertInit, AlertTypeOK, Signatures
<1>4. FreshKnown /\ NothingYet /\ Owed
  BY <1>1, <1>2 DEF AlertInit, FreshKnown, NothingYet, Owed, Changed
<1>5. OneLivePerCondition /\ CalmWhenPaid
  BY <1>2 DEF AlertInit, OneLivePerCondition, CalmWhenPaid, InStatus
<1>6. NotifiedOnce
  BY DEF AlertInit, NotifiedOnce
<1>. QED
  BY <1>3, <1>4, <1>5, <1>6 DEF AlertInv

LEMMA AlertInvStep == AlertInv /\ [AlertNext]_alertVars => AlertInv'
<1>. SUFFICES ASSUME AlertInv, [AlertNext]_alertVars PROVE AlertInv'
  OBVIOUS
<1>1. CASE AlertNext
  BY <1>1, AlertTypeStep, FreshKnownStep, NothingYetStep, OwedStep, OneLiveStep, NotifiedStep, CalmStep
     DEF AlertInv
<1>2. CASE UNCHANGED alertVars
  BY <1>2 DEF alertVars, AlertInv, AlertTypeOK, FreshKnown, NothingYet, Owed, Changed, Ids,
              OneLivePerCondition, NotifiedOnce, CalmWhenPaid, InStatus
<1>. QED
  BY <1>1, <1>2

LEMMA AlertInvariant == AlertSpec => []AlertInv
BY AlertInvInit, AlertInvStep, PTL DEF AlertSpec

(***************************************************************************)
(* However many ticks overlap, a condition has one live alert, a critical  *)
(* one is notified once and by the tick that raised it, a subscription     *)
(* calms the cost alerts, and the tray was told of what presses once all   *)
(* ticks are over (sampler.ts, alert-repository.ts, notifier.ts).          *)
(***************************************************************************)
THEOREM AlertsAreSound == AlertSpec => []AlertsSound
<1>1. AlertInv => AlertsSound
  BY DEF AlertInv, AlertsSound, TrayCurrent, Owed, NothingYet
<1>. QED
  BY <1>1, AlertInvariant, PTL

(***************************************************************************)
(* No step of a tick or of the user touches a resolved alert: the status   *)
(* guards of acknowledge, snooze and resolve, and Downgrade's choice of    *)
(* rows (alert-repository.ts).                                             *)
(***************************************************************************)
THEOREM ResolvedAlertsStay == AlertSpec => ResolvedStays
<1>1. AlertInv /\ [AlertNext]_alertVars => [\A i \in InStatus({"resolved"}) : alerts'[i] = alerts[i]]_alertVars
  <2>. SUFFICES ASSUME AlertInv, AlertNext, NEW i \in InStatus({"resolved"}) PROVE alerts'[i] = alerts[i]
    OBVIOUS
  <2>. QED
    BY RowsStep DEF AlertInv, RowsKept, InStatus
<1>. QED
  BY <1>1, AlertInvariant, PTL DEF AlertSpec, ResolvedStays

(***************************************************************************)
(* Ingest.                                                                 *)
(***************************************************************************)
LinesOf(rows) == {r.line : r \in rows}

\* The lines a complete reading of the log would store.
Due == IF format = "claude" THEN LastChunks(Lines) ELSE Calls(Lines)

\* A resuming reading that begins at n takes the line for read; Codex is read anew
\* when the log is longer than n.
Passed(i, n) == IF format = "codex" THEN 2 * i <= n ELSE 2 * (i - 1) < n

IsRow(r) ==
  /\ r.line \in Lines
  /\ r = Row(r.line, <<r.turn, r.line>>, r.turn)
  /\ format \in {"claude", "gemini"} => r.turn = 0
  /\ format = "codex" => r.turn = Turn(r.line, Lines)

IngestTypeOK ==
  /\ format \in {"claude", "gemini", "codex", "cursor"}
  /\ log \in Seq(Message \cup {"row", "turn"})
  /\ half \in BOOLEAN /\ (half => log # <<>>)
  /\ cache \in Nat
  /\ run.pc \in {"idle", "read", "cache", "store"}
  /\ run = [pc |-> run.pc, size |-> run.size, from |-> run.from, batch |-> run.batch,
            torn |-> run.torn]
  /\ run.size \in Nat /\ run.from \in Nat

\* The cache never runs ahead of the log, and a refresh never behind the cache.
InStep ==
  /\ cache <= Size
  /\ run.pc = "idle" => run = NoRun
  /\ run.pc # "idle" => run.size <= Size /\ cache <= run.size
  /\ run.pc \in {"read", "cache"} => run.from <= cache
  /\ run.pc = "store" => cache = run.size
  /\ format = "codex" => run.from = 0

RowsTell == \A r \in events \cup run.batch : IsRow(r)

\* Whatever the refresh is about to record as read is in its hands, or was before.
BatchCovers ==
  run.pc = "cache" => \A i \in Due : Passed(i, run.size) /\ 2 * (i - 1) >= run.from
                                       => i \in LinesOf(run.batch) \cup run.torn

\* Whatever is recorded as read is stored, given up, or about to be stored.
CacheCovers ==
  \A i \in Due : Passed(i, cache) =>
    i \in LinesOf(events) \cup gone \cup (IF run.pc = "store" THEN LinesOf(run.batch) ELSE {})

\* A chunk that is a row was the last of its message when a refresh read the log:
\* that was before any chunk that follows it, also one that is not there yet.
Follows(r, j) == r.line < j /\ (j \in Lines => log[j] = log[r.line])
ChunksTell ==
  format = "claude" => \A r \in events \cup run.batch : \A j \in Nat :
    Follows(r, j) => \E n \in seen : r.line <= n /\ n < j

IngestInv == IngestTypeOK /\ InStep /\ RowsTell /\ ChunksTell /\ BatchCovers /\ CacheCovers

-----------------------------------------------------------------------------
LEMMA SizeFacts ==
  ASSUME IngestTypeOK
  PROVE  /\ Len(log) \in Nat /\ Size \in Nat
         /\ Size <= 2 * Len(log) /\ 2 * Len(log) <= Size + 1
         /\ Lines \subseteq Nat /\ \A i \in Lines : 1 <= i /\ i <= Len(log)
         /\ ~half => Size = 2 * Len(log)
         /\ half => Size = 2 * Len(log) - 1
<1>1. Len(log) \in Nat /\ (half => Len(log) > 0)
  BY EmptySeq, SMT DEF IngestTypeOK
<1>. QED
  BY <1>1 DEF Size, Lines

\* The lines of the rows of a reading.
LEMMA ParsedLines ==
  ASSUME IngestTypeOK, NEW S
  PROVE  LinesOf(Parse(S)) = IF format = "claude" THEN LastChunks(S) ELSE Calls(S)
<1>. DEFINE X == IF format = "claude" THEN LastChunks(S) ELSE Calls(S)
            T(i) == IF format \in {"claude", "gemini"} THEN 0 ELSE Turn(i, S)
            R(i) == Row(i, <<T(i), i>>, T(i))
<1>1. Parse(S) = {R(i) : i \in X}
  BY DEF IngestTypeOK, Parse, ParseClaude, ParseGemini, ParseCodex, ParseCursor
<1>2. \A i : R(i).line = i
  BY DEF Row
<1>. HIDE DEF X, R
<1>3. \A i \in X : i \in LinesOf({R(j) : j \in X})
  BY <1>2 DEF LinesOf
<1>4. \A i \in LinesOf({R(j) : j \in X}) : i \in X
  BY <1>2 DEF LinesOf
<1>5. LinesOf({R(j) : j \in X}) = X
  BY <1>3, <1>4
<1>. QED
  BY <1>1, <1>5 DEF X

\* A growing log keeps its lines, and the turns of the lines.
LEMMA LogGrows ==
  ASSUME IngestTypeOK, UNCHANGED format,
         \/ UNCHANGED log
         \/ \E k \in Message \cup {"row", "turn"} : log' = Append(log, k)
  PROVE  /\ Lines \subseteq Lines'
         /\ \A i \in Lines : log'[i] = log[i]
         /\ \A i \in Lines : Turn(i, Lines)' = Turn(i, Lines)
         /\ \A i \in Due' : i \in Due \/ (i = Len(log) + 1 /\ i \notin Lines)
         /\ \A r : IsRow(r) => IsRow(r)'
<1>1. Len(log) \in Nat /\ Len(log') \in Nat
  BY DEF IngestTypeOK
<1>2. /\ Lines \subseteq Lines' /\ Lines' \subseteq Lines \cup {Len(log) + 1}
      /\ Len(log) + 1 \notin Lines
      /\ \A i \in Lines : log'[i] = log[i]
  BY <1>1 DEF IngestTypeOK, Lines
<1>3. ASSUME NEW i \in Lines PROVE Turn(i, Lines)' = Turn(i, Lines)
  <2>1. {j \in Lines' : j < i /\ log'[j] = "turn"} = {j \in Lines : j < i /\ log[j] = "turn"}
    BY <1>1, <1>2 DEF Lines
  <2>. QED
    BY <2>1 DEF Turn
<1>4. ASSUME NEW i \in Due' PROVE i \in Due \/ (i = Len(log) + 1 /\ i \notin Lines)
  BY <1>2 DEF Due, LastChunks, Calls
<1>5. ASSUME NEW r, IsRow(r) PROVE IsRow(r)'
  BY <1>2, <1>3, <1>5 DEF IsRow, Row
<1>. QED
  BY <1>2, <1>3, <1>4, <1>5

\* What a reading finds: rows of the log, and every due line from its start on that it
\* could parse.
LEMMA ReadingTells ==
  ASSUME IngestTypeOK, InStep, run.pc = "read"
  PROVE  /\ \A r \in Parse(Whole(run.from)) : IsRow(r)
         /\ \A i \in Due : Passed(i, run.size) /\ 2 * (i - 1) >= run.from
              => i \in LinesOf(Parse(Whole(run.from))) \cup Torn(Whole(run.from))
<1>. DEFINE W == Whole(run.from)
<1>1. W \subseteq Lines
  BY DEF Whole
<1>2. ASSUME NEW r \in Parse(W) PROVE IsRow(r)
  <2>1. CASE format \in {"claude", "gemini"}
    <3>1. PICK i \in W : r = Row(i, <<0, i>>, 0)
      BY <2>1, <1>2 DEF Parse, ParseClaude, ParseGemini, LastChunks, Calls
    <3>. QED
      BY <3>1, <1>1, <2>1 DEF Row, IsRow
  <2>2. CASE format \in {"codex", "cursor"}
    <3>1. PICK i \in W : r = Row(i, <<Turn(i, W), i>>, Turn(i, W))
      BY <2>2, <1>2 DEF Parse, ParseCodex, ParseCursor, Calls
    <3>2. format = "codex" => Turn(i, W) = Turn(i, Lines)
      <4>1. SUFFICES ASSUME format = "codex" PROVE Turn(i, W) = Turn(i, Lines)
        OBVIOUS
      <4>2. {j \in W : j < i /\ log[j] = "turn"} = {j \in Lines : j < i /\ log[j] = "turn"}
        BY <3>1, <4>1, <1>1, SizeFacts DEF Whole, InStep
      <4>. QED
        BY <4>2 DEF Turn
    <3>. QED
      BY <3>1, <3>2, <1>1, <2>2 DEF Row, IsRow
  <2>. QED
    BY <2>1, <2>2 DEF IngestTypeOK
<1>3. ASSUME NEW i \in Due, Passed(i, run.size), 2 * (i - 1) >= run.from
      PROVE  i \in LinesOf(Parse(W)) \cup Torn(W)
  <2>1. i \in Lines
    BY DEF Due, LastChunks, Calls
  <2>2. CASE i \in W
    <3>1. i \in IF format = "claude" THEN LastChunks(W) ELSE Calls(W)
      BY <2>2, <1>1 DEF Due, LastChunks, Calls
    <3>. QED
      BY <3>1, ParsedLines
  <2>3. CASE i \notin W /\ format # "codex"
    BY <2>1, <2>3, <1>3 DEF Torn, Passed
  <2>4. CASE i \notin W /\ format = "codex"
    BY <2>1, <2>4, <1>3, SizeFacts DEF Whole, Passed, InStep, IngestTypeOK
  <2>. QED
    BY <2>2, <2>3, <2>4
<1>. QED
  BY <1>2, <1>3

\* The last chunk of a reading: the chunks after it were not in the log.
LEMMA ReadingEnds ==
  ASSUME IngestTypeOK, format = "claude", NEW r \in Parse(Whole(run.from)), NEW j \in Nat,
         Follows(r, j)
  PROVE  r.line <= WholeLines /\ WholeLines < j
<1>1. r.line \in LastChunks(Whole(run.from))
  BY ParsedLines DEF LinesOf
<1>2. r.line \in Whole(run.from) /\ (j \in Lines => j \notin Whole(run.from))
  BY <1>1 DEF LastChunks, Follows
<1>3. r.line \in Lines /\ r.line \in Nat /\ Len(log) \in Nat /\ r.line < j
  BY <1>2, SizeFacts DEF Whole, Follows
<1>4. r.line <= WholeLines
  BY <1>2, <1>3, SizeFacts DEF WholeLines, Whole, IngestTypeOK
<1>5. j \in Lines => j = Len(log) /\ half
  <2>. SUFFICES ASSUME j \in Lines PROVE j = Len(log) /\ half
    OBVIOUS
  <2>1. 2 * (r.line - 1) >= run.from
    BY <1>2 DEF Whole
  <2>2. 2 * (j - 1) >= run.from
    BY <1>3, <2>1 DEF IngestTypeOK
  <2>. QED
    BY <1>2, <2>2 DEF Whole
<1>6. j \notin Lines => Len(log) < j
  BY <1>3 DEF Lines
<1>. QED
  BY <1>3, <1>4, <1>5, <1>6 DEF WholeLines, IngestTypeOK

LEMMA IngestInvInit == IngestInit => IngestInv
<1>. SUFFICES ASSUME IngestInit PROVE IngestInv
  OBVIOUS
<1>1. log = <<>> /\ Len(log) = 0 /\ log \in Seq(Message \cup {"row", "turn"})
  BY DEF IngestInit
<1>3. IngestTypeOK
  BY <1>1 DEF IngestInit, IngestTypeOK, NoRun
<1>4. InStep
  BY <1>1 DEF IngestInit, InStep, NoRun, Size
<1>2. Lines = {} /\ events \cup run.batch = {} /\ run.pc = "idle"
  BY DEF IngestInit, Lines, NoRun
<1>. QED
  BY <1>2, <1>3, <1>4 DEF IngestInv, RowsTell, ChunksTell, BatchCovers, CacheCovers, Due, LastChunks, Calls

\* The assistant: what is new in the log is beyond whatever was read of it.
LEMMA AssistantStep ==
  ASSUME IngestInv, AppendLine \/ FinishLine
  PROVE  IngestInv'
<1>. USE DEF IngestInv
<1>1. /\ UNCHANGED <<format, cache, run, events, gone, seen>>
      /\ \/ log' = log /\ half /\ half' = FALSE
         \/ ~half /\ half' \in BOOLEAN
            /\ \E k \in Message \cup {"row", "turn"} : log' = Append(log, k)
  BY DEF AppendLine, FinishLine, Kinds, IngestTypeOK
<1>2. IngestTypeOK'
  <2>1. log' \in Seq(Message \cup {"row", "turn"}) /\ (half' => log' # <<>>)
    BY <1>1, AppendProperties DEF IngestTypeOK
  <2>. QED
    <3>1. format' = format /\ cache' = cache /\ run' = run /\ half' \in BOOLEAN
      BY <1>1 DEF IngestTypeOK
    <3>. QED
      BY <2>1, <3>1 DEF IngestTypeOK
<1>3. Size \in Nat /\ Size' \in Nat /\ Size <= Size'
  <2>1. Len(log) \in Nat /\ Len(log') \in Nat /\ (log' = log \/ Len(log') = Len(log) + 1)
    BY <1>1, AppendProperties DEF IngestTypeOK
  <2>2. Size \in Nat /\ Size' \in Nat
    BY <1>2, SizeFacts, EmptySeq, SMT DEF Size, IngestTypeOK
  <2>. QED
    BY <1>1, <2>1, <2>2 DEF IngestTypeOK, Size
<1>4. InStep'
  <2>1. cache <= Size' /\ (run.size <= Size => run.size <= Size')
    BY <1>3 DEF InStep, IngestTypeOK
  <2>. QED
    BY <1>1, <2>1 DEF InStep, NoRun
<1>5. /\ \A i \in Due' : i \in Due \/ (i = Len(log) + 1 /\ i \notin Lines)
      /\ \A r : IsRow(r) => IsRow(r)'
  BY <1>1, LogGrows
<1>6. RowsTell'
  BY <1>1, <1>5 DEF RowsTell
<1>10. ChunksTell'
  <2>. SUFFICES ASSUME format = "claude", NEW r \in events \cup run.batch, NEW j \in Nat, Follows(r, j)'
                PROVE  \E n \in seen : r.line <= n /\ n < j
    BY <1>1 DEF ChunksTell
  <2>1. r.line \in Lines /\ Lines \subseteq Lines' /\ \A i \in Lines : log'[i] = log[i]
    BY <1>1, LogGrows DEF RowsTell, IsRow
  <2>2. Follows(r, j)
    BY <2>1 DEF Follows
  <2>. QED
    BY <2>2 DEF ChunksTell
<1>7. ASSUME NEW i \in Due', NEW n \in Nat, n <= Size, Passed(i, n)' PROVE i \in Due /\ Passed(i, n)
  BY <1>1, <1>5, <1>7, SizeFacts DEF Passed
<1>8. BatchCovers'
  <2>. SUFFICES ASSUME run.pc = "cache", NEW i \in Due', Passed(i, run.size)', 2 * (i - 1) >= run.from
                PROVE  i \in LinesOf(run.batch) \cup run.torn
    BY <1>1 DEF BatchCovers, LinesOf, Passed
  <2>. QED
    <3>1. i \in Due /\ Passed(i, run.size)
      BY <1>1, <1>7 DEF InStep, IngestTypeOK
    <3>. QED
      BY <3>1 DEF BatchCovers
<1>9. CacheCovers'
  <2>. SUFFICES ASSUME NEW i \in Due', Passed(i, cache)'
                PROVE  i \in LinesOf(events) \cup gone
                             \cup (IF run.pc = "store" THEN LinesOf(run.batch) ELSE {})
    BY <1>1 DEF CacheCovers, LinesOf, Passed
  <2>. QED
    <3>1. i \in Due /\ Passed(i, cache)
      BY <1>1, <1>7 DEF InStep, IngestTypeOK
    <3>. QED
      BY <3>1 DEF CacheCovers
<1>. QED
  BY <1>2, <1>4, <1>6, <1>8, <1>9, <1>10

\* A refresh changes nothing of the log.
LEMMA SameLog ==
  ASSUME UNCHANGED <<format, log, half>>
  PROVE  /\ Size' = Size /\ Due' = Due /\ \A r : IsRow(r)' = IsRow(r)
         /\ \A i, n : Passed(i, n)' = Passed(i, n)
         /\ \A r, j : Follows(r, j)' = Follows(r, j)
  BY DEF Follows, Size, Due, Lines, LastChunks, Calls, IsRow, Row, Turn, LatestOf, Passed

LEMMA StatStep == ASSUME IngestInv, Stat PROVE IngestInv'
<1>. USE DEF IngestInv
<1>1. PICK from : /\ from \in {0} \cup (IF cache # Size THEN {Resume(Size)} ELSE {})
                  /\ run' = [run EXCEPT !.pc = "read", !.size = Size, !.from = from]
  BY DEF Stat
<1>2. run.pc = "idle" /\ run = NoRun /\ UNCHANGED <<format, log, half, cache, events, gone, seen>>
  BY DEF Stat, InStep
<1>3. from \in Nat /\ from <= cache /\ (format = "codex" => from = 0)
  BY <1>1 DEF Resume, IngestTypeOK
<1>4. run' = [pc |-> "read", size |-> Size, from |-> from, batch |-> {}, torn |-> {}]
  BY <1>1, <1>2 DEF NoRun
<1>5. IngestTypeOK' /\ InStep'
  BY <1>2, <1>3, <1>4, SizeFacts, SameLog DEF IngestTypeOK, InStep
<1>6. RowsTell' /\ ChunksTell'
  BY <1>2, <1>4, SameLog DEF RowsTell, ChunksTell
<1>7. BatchCovers' /\ CacheCovers'
  BY <1>2, <1>4, SameLog DEF BatchCovers, CacheCovers, LinesOf
<1>. QED
  BY <1>5, <1>6, <1>7

LEMMA ReadLogStep == ASSUME IngestInv, ReadLog PROVE IngestInv'
<1>. USE DEF IngestInv
<1>1. /\ run.pc = "read" /\ UNCHANGED <<format, log, half, cache, events, gone>>
      /\ seen' = seen \cup {WholeLines}
      /\ run' = [run EXCEPT !.pc = "cache", !.torn = Torn(Whole(run.from)),
                            !.batch = Parse(Whole(run.from))]
  BY DEF ReadLog
<1>2. run' = [pc |-> "cache", size |-> run.size, from |-> run.from,
              batch |-> Parse(Whole(run.from)), torn |-> Torn(Whole(run.from))]
  BY <1>1 DEF IngestTypeOK
<1>3. IngestTypeOK' /\ InStep'
  BY <1>1, <1>2, SameLog DEF IngestTypeOK, InStep
<1>4. RowsTell'
  BY <1>1, <1>2, SameLog, ReadingTells DEF RowsTell
<1>7. ChunksTell'
  <2>. SUFFICES ASSUME format = "claude", NEW r \in events \cup Parse(Whole(run.from)),
                       NEW j \in Nat, Follows(r, j)
                PROVE  \E n \in seen' : r.line <= n /\ n < j
    BY <1>1, <1>2, SameLog DEF ChunksTell
  <2>1. CASE r \in events
    BY <2>1, <1>1 DEF ChunksTell
  <2>2. CASE r \in Parse(Whole(run.from))
    BY <2>2, <1>1, ReadingEnds
  <2>. QED
    BY <2>1, <2>2
<1>5. BatchCovers'
  BY <1>1, <1>2, SameLog, ReadingTells DEF BatchCovers, LinesOf
<1>6. CacheCovers'
  BY <1>1, <1>2, SameLog DEF CacheCovers, LinesOf
<1>. QED
  BY <1>3, <1>4, <1>5, <1>6, <1>7

LEMMA WriteCacheStep == ASSUME IngestInv, WriteCache PROVE IngestInv'
<1>. USE DEF IngestInv
<1>1. /\ run.pc = "cache" /\ UNCHANGED <<format, log, half, events, seen>>
      /\ cache' = run.size /\ gone' = gone \cup run.torn
      /\ run' = [run EXCEPT !.pc = "store"]
  BY DEF WriteCache, Cached
<1>2. run' = [pc |-> "store", size |-> run.size, from |-> run.from, batch |-> run.batch,
              torn |-> run.torn]
  BY <1>1 DEF IngestTypeOK
<1>3. IngestTypeOK' /\ InStep'
  BY <1>1, <1>2, SameLog DEF IngestTypeOK, InStep
<1>4. RowsTell' /\ ChunksTell'
  BY <1>1, <1>2, SameLog DEF RowsTell, ChunksTell
<1>5. BatchCovers'
  BY <1>2 DEF BatchCovers
<1>6. CacheCovers'
  <2>. SUFFICES ASSUME NEW i \in Due, Passed(i, run.size)
                PROVE  i \in LinesOf(events) \cup gone \cup run.torn \cup LinesOf(run.batch)
    BY <1>1, <1>2, SameLog DEF CacheCovers, LinesOf
  <2>1. i \in Nat
    BY SizeFacts DEF Due, LastChunks, Calls
  <2>2. CASE 2 * (i - 1) >= run.from
    BY <2>2, <1>1 DEF BatchCovers
  <2>3. CASE ~(2 * (i - 1) >= run.from)
    <3>1. Passed(i, cache)
      BY <2>1, <2>3, <1>1, SizeFacts DEF Passed, InStep, IngestTypeOK, Due, LastChunks, Calls
    <3>. QED
      BY <3>1, <1>1 DEF CacheCovers
  <2>. QED
    BY <2>2, <2>3
<1>. QED
  BY <1>3, <1>4, <1>5, <1>6

LEMMA StoreStep == ASSUME IngestInv, Store PROVE IngestInv'
<1>. USE DEF IngestInv
<1>1. /\ run.pc = "store" /\ UNCHANGED <<format, log, half, cache, seen>> /\ run' = NoRun
      /\ events' = {e \in events : \A n \in run.batch : n.id # e.id} \cup run.batch
      /\ gone' = IF run.from = 0 THEN gone \ LinesOf(run.batch) ELSE gone
  BY DEF Store, LinesOf
<1>2. IngestTypeOK' /\ InStep'
  BY <1>1, SameLog DEF IngestTypeOK, InStep, NoRun
<1>3. RowsTell' /\ ChunksTell'
  BY <1>1, SameLog DEF RowsTell, ChunksTell, NoRun
<1>4. BatchCovers'
  BY <1>1 DEF BatchCovers, NoRun
<1>5. LinesOf(events) \subseteq LinesOf(events')
  <2>. SUFFICES ASSUME NEW e \in events PROVE \E d \in events' : d.line = e.line
    BY DEF LinesOf
  <2>1. CASE \A n \in run.batch : n.id # e.id
    BY <2>1, <1>1
  <2>2. ASSUME NEW n \in run.batch, n.id = e.id PROVE n.line = e.line /\ n \in events'
    <3>1. IsRow(n) /\ IsRow(e)
      BY DEF RowsTell
    <3>2. n.id = <<n.turn, n.line>> /\ e.id = <<e.turn, e.line>>
      BY <3>1 DEF IsRow, Row
    <3>. QED
      BY <3>2, <2>2, <1>1
  <2>. QED
    BY <2>1, <2>2
<1>6. LinesOf(run.batch) \subseteq LinesOf(events')
  BY <1>1 DEF LinesOf
<1>7. CacheCovers'
  <2>. SUFFICES ASSUME NEW i \in Due, Passed(i, cache) PROVE i \in LinesOf(events') \cup gone'
    BY <1>1, SameLog DEF CacheCovers, LinesOf, NoRun
  <2>. QED
    BY <1>1, <1>5, <1>6 DEF CacheCovers
<1>. QED
  BY <1>2, <1>3, <1>4, <1>7

LEMMA RefreshFailsStep == ASSUME IngestInv, RefreshFails PROVE IngestInv'
<1>. USE DEF IngestInv
<1>1. /\ UNCHANGED <<format, log, half, cache, events, seen>> /\ run' = NoRun
      /\ gone' = IF run.pc = "store" THEN gone \cup LinesOf(run.batch) ELSE gone
  BY DEF RefreshFails, LinesOf
<1>2. IngestTypeOK' /\ InStep'
  BY <1>1, SameLog DEF IngestTypeOK, InStep, NoRun
<1>3. RowsTell' /\ ChunksTell' /\ BatchCovers'
  BY <1>1, SameLog DEF RowsTell, ChunksTell, BatchCovers, NoRun
<1>4. CacheCovers'
  BY <1>1, SameLog DEF CacheCovers, LinesOf, NoRun
<1>. QED
  BY <1>2, <1>3, <1>4

LEMMA IngestInvStep == IngestInv /\ [IngestNext]_ingestVars => IngestInv'
<1>. SUFFICES ASSUME IngestInv, [IngestNext]_ingestVars PROVE IngestInv'
  OBVIOUS
<1>1. CASE UNCHANGED ingestVars
  <2>1. UNCHANGED <<format, log, half, cache, run, events, gone, seen>>
    BY <1>1 DEF ingestVars
  <2>. QED
    BY <2>1, SameLog DEF IngestInv, IngestTypeOK, InStep, RowsTell, ChunksTell, BatchCovers, CacheCovers, LinesOf, NoRun
<1>. QED
  BY <1>1, AssistantStep, StatStep, ReadLogStep, WriteCacheStep, StoreStep, RefreshFailsStep DEF IngestNext

LEMMA IngestInvMeans == IngestInv => IngestSound
<1>. SUFFICES ASSUME IngestInv PROVE IngestSound
  OBVIOUS
<1>. USE DEF IngestInv
<1>1. NothingLost
  <2>. SUFFICES ASSUME Settled, NEW i \in Due PROVE i \in LinesOf(events) \cup gone
    BY ParsedLines DEF NothingLost, LinesOf, Due
  <2>1. i \in Lines
    BY DEF Due, LastChunks, Calls
  <2>2. Passed(i, cache)
    BY <2>1, SizeFacts DEF Settled, Passed
  <2>. QED
    BY <2>2 DEF CacheCovers, Settled
<1>2. OneRowPerLine
  <2>. SUFFICES ASSUME format # "cursor", NEW d \in events, NEW e \in events, d.line = e.line
                PROVE  d = e
    BY DEF OneRowPerLine
  <2>1. IsRow(d) /\ IsRow(e)
    BY DEF RowsTell
  <2>. QED
    BY <2>1 DEF IsRow, IngestTypeOK
<1>3. TurnKept
  BY DEF TurnKept, RowsTell, IsRow
<1>4. OneRowPerReading
  <2>. SUFFICES ASSUME NEW d \in events, NEW e \in events, Chunks(d, e)
                PROVE  \E n \in seen : d.line <= n /\ n < e.line
    BY DEF OneRowPerReading
  <2>1. e.line \in Nat
    BY SizeFacts DEF RowsTell, IsRow
  <2>2. format = "claude" /\ Follows(d, e.line)
    BY DEF Chunks, Follows
  <2>. QED
    BY <2>1, <2>2 DEF ChunksTell
<1>. QED
  BY <1>1, <1>2, <1>3, <1>4 DEF IngestSound

(* Whatever the log, whenever it grows and whichever refreshes fail: every call *)
(* of a log that was refreshed is in the table or was given up, a line is one   *)
(* row, the chunks of a Claude message are one unless a refresh read the log    *)
(* between them, and a Codex call is told with its turn.                        *)
THEOREM IngestIsSound == IngestSpec => []IngestSound
<1>1. IngestInit => IngestInv
  BY IngestInvInit
<1>2. IngestInv /\ [IngestNext]_ingestVars => IngestInv'
  BY IngestInvStep
<1>3. IngestInv => IngestSound
  BY IngestInvMeans
<1>. QED
  BY <1>1, <1>2, <1>3, PTL DEF IngestSpec

(***************************************************************************)
(* Pricing.                                                                *)
(***************************************************************************)
\* A set of numbers has a least one: the initial segments below one of its members are
\* well-founded by inclusion.
LEMMA LeastOf ==
  ASSUME NEW S \in SUBSET Nat, S # {}
  PROVE  Min(S) \in S /\ \A y \in S : Min(S) <= y
<1>1. PICK n \in S : TRUE
  OBVIOUS
<1>. DEFINE A == 0 .. n
            T == {0 .. x : x \in {y \in S : y <= n}}
<1>2. n \in Nat /\ IsFiniteSet(A) /\ T \subseteq SUBSET A /\ T # {}
  <2>1. n \in Nat /\ 0 \in Int /\ n \in Int
    OBVIOUS
  <2>2. IsFiniteSet(A)
    BY <2>1, FS_Interval
  <2>3. (0 .. n) \in T
    BY <2>1
  <2>4. T \subseteq SUBSET A
    BY <2>1
  <2>. QED
    BY <2>1, <2>2, <2>3, <2>4
<1>3. T \subseteq FiniteSubsetsOf(A)
  BY <1>2, FS_Subset DEF FiniteSubsetsOf
<1>4. IsWellFoundedOn(StrictSubsetOrdering(A), FiniteSubsetsOf(A))
  BY <1>2, FS_StrictSubsetOrderingWellFounded
<1>5. PICK X \in T : \A Y \in T : ~ (<<Y, X>> \in StrictSubsetOrdering(A))
  BY <1>2, <1>3, <1>4, WFMin
<1>6. PICK x \in S : x <= n /\ X = 0 .. x
  OBVIOUS
<1>7. ASSUME NEW y \in S PROVE x <= y
  <2>. SUFFICES ASSUME y < x PROVE FALSE
    BY <1>6
  <2>1. 0 .. y \in T /\ 0 .. y \subseteq X /\ 0 .. y # X
    BY <1>2, <1>6
  <2>. QED
    BY <2>1, <1>2, <1>5 DEF StrictSubsetOrdering
<1>. QED
  BY <1>7 DEF Min

-----------------------------------------------------------------------------
Priced == [in : Nat, out : Nat, read : Nat \cup {None}]
Billed  == [model : Models, local : BOOLEAN, in : {0, 1}, out : {0, 1}, read : {0, 1}]

\* A price list as the app keeps it, whole or in part.
IsTable(t) ==
  /\ DOMAIN t \subseteq Nat \ {0}
  /\ \A i \in DOMAIN t : t[i].key \in Seq(STRING) /\ t[i].rate \in Priced
  /\ \A i, j \in DOMAIN t : t[i].key = t[j].key => i = j

LEMMA SearchesType ==
  ASSUME NEW t, NEW model
  PROVE  Searches(t, model) \in Seq(SUBSET DOMAIN t)
<1>1. \A k : Listed(t, k) \in SUBSET DOMAIN t
  BY DEF Listed
<1>2. \A w : Sharing(t, w, model) \in SUBSET DOMAIN t
  BY DEF Sharing, SharingAny
<1>3. Swept(t, model) \in SUBSET DOMAIN t
  BY DEF Swept
<1>. DEFINE named(p) == <<Prefix[p]>> \o model
<1>. HIDE DEF named
<1>4. [p \in DOMAIN Prefix |-> Listed(t, named(p))] \in Seq(SUBSET DOMAIN t)
  BY <1>1, PricingAssumption
<1>5. [w \in DOMAIN Keyword |-> Sharing(t, Keyword[w], model)] \in Seq(SUBSET DOMAIN t)
  BY <1>2, PricingAssumption
<1>6. <<Listed(t, model)>> \in Seq(SUBSET DOMAIN t) /\ <<Swept(t, model)>> \in Seq(SUBSET DOMAIN t)
  BY <1>1, <1>3
<1>. QED
  BY <1>4, <1>5, <1>6, ConcatProperties DEF Searches, named

\* The first entry of the first search that finds one is an entry.
LEMMA HitFound ==
  ASSUME NEW t, IsTable(t), NEW model, Hit(t, model) # 0
  PROVE  Hit(t, model) \in DOMAIN t
<1>. DEFINE s == Searches(t, model)
            found == {n \in DOMAIN s : s[n] # {}}
<1>1. s \in Seq(SUBSET DOMAIN t)
  BY SearchesType
<1>2. found \subseteq Nat /\ \A n \in DOMAIN s : s[n] \subseteq DOMAIN t /\ DOMAIN t \subseteq Nat
  BY <1>1 DEF IsTable
<1>3. found # {} /\ Hit(t, model) = Min(s[Min(found)])
  BY DEF Hit
<1>. HIDE DEF s
<1>4. Min(found) \in found
  BY <1>2, <1>3, LeastOf
<1>5. Min(s[Min(found)]) \in s[Min(found)]
  BY <1>2, <1>4, LeastOf
<1>. QED
  BY <1>2, <1>3, <1>4, <1>5

\* A listed model is found at its own entry, by the first search.
LEMMA OwnFirst ==
  ASSUME NEW t, IsTable(t), NEW model, NEW i \in Listed(t, model)
  PROVE  Hit(t, model) = i
<1>. DEFINE s == Searches(t, model)
            found == {n \in DOMAIN s : s[n] # {}}
<1>1. Listed(t, model) = {i}
  BY DEF Listed, IsTable
<1>2. s \in Seq(SUBSET DOMAIN t)
  BY SearchesType
<1>3. Len(s) >= 1 /\ s[1] = Listed(t, model)
  <2>. DEFINE others == [p \in DOMAIN Prefix |-> Listed(t, <<Prefix[p]>> \o model)]
              words  == [w \in DOMAIN Keyword |-> Sharing(t, Keyword[w], model)]
              tail   == others \o <<Swept(t, model)>> \o words
  <2>1. Len(Prefix) \in Nat /\ DOMAIN Prefix = 1 .. Len(Prefix)
        /\ Len(Keyword) \in Nat /\ DOMAIN Keyword = 1 .. Len(Keyword)
    BY PricingAssumption
  <2>2. /\ others \in Seq(SUBSET DOMAIN t) /\ words \in Seq(SUBSET DOMAIN t)
        /\ <<Listed(t, model)>> \in Seq(SUBSET DOMAIN t) /\ <<Swept(t, model)>> \in Seq(SUBSET DOMAIN t)
    <3>1. \A k : Listed(t, k) \in SUBSET DOMAIN t
      BY DEF Listed
    <3>2. \A w : Sharing(t, w, model) \in SUBSET DOMAIN t
      BY DEF Sharing, SharingAny
    <3>3. Swept(t, model) \in SUBSET DOMAIN t
      BY DEF Swept
    <3>. DEFINE named(p) == <<Prefix[p]>> \o model
    <3>. HIDE DEF named
    <3>4. [p \in DOMAIN Prefix |-> Listed(t, named(p))] \in Seq(SUBSET DOMAIN t)
      BY <3>1, PricingAssumption
    <3>5. words \in Seq(SUBSET DOMAIN t)
      BY <3>2, PricingAssumption
    <3>. QED
      BY <3>1, <3>3, <3>4, <3>5 DEF named
  <2>. HIDE DEF others, words
  <2>3. tail \in Seq(SUBSET DOMAIN t) /\ Len(tail) \in Nat
    BY <2>2, ConcatProperties
  <2>4. s = <<Listed(t, model)>> \o tail
    BY <2>2, ConcatProperties, ConcatAssociative DEF Searches, others, words
  <2>. HIDE DEF s, tail
  <2>. QED
    BY <2>2, <2>3, <2>4
<1>. HIDE DEF s
<1>4. 1 \in found /\ found \subseteq Nat \ {0}
  BY <1>1, <1>2, <1>3
<1>5. Min(found) = 1
  BY <1>4, LeastOf
<1>6. i \in Nat /\ Min({i}) = i
  <2>1. i \in Nat
    BY DEF IsTable, Listed
  <2>2. {i} \in SUBSET Nat /\ {i} # {}
    BY <2>1
  <2>3. Min({i}) \in {i}
    BY <2>2, LeastOf
  <2>. QED
    BY <2>1, <2>3
<1>7. Hit(t, model) = IF found = {} THEN 0 ELSE Min(s[Min(found)])
  BY DEF Hit, s
<1>. QED
  BY <1>1, <1>3, <1>4, <1>5, <1>6, <1>7

\* The price of what is not found is FALLBACK; else it is the entry's, to which only a
\* missing rate of the cache is added.
LEMMA PriceMeans ==
  ASSUME NEW t, IsTable(t), NEW model
  PROVE  /\ Hit(t, model) = 0 => Price(t, model) = FALLBACK
         /\ Hit(t, model) # 0 => /\ Price(t, model) \in Priced
                                 /\ Price(t, model).in  = t[Hit(t, model)].rate.in
                                 /\ Price(t, model).out = t[Hit(t, model)].rate.out
<1>1. Hit(t, model) = 0 => Price(t, model) = FALLBACK
  BY DEF Price
<1>2. ASSUME Hit(t, model) # 0
      PROVE  /\ Price(t, model) \in Priced
             /\ Price(t, model).in  = t[Hit(t, model)].rate.in
             /\ Price(t, model).out = t[Hit(t, model)].rate.out
  <2>. DEFINE i == Hit(t, model)
              rate == t[i].rate
              key(a) == <<Alias[a]>> \o model
              named == {a \in DOMAIN Alias : \E j \in Listed(t, key(a)) : t[j].rate.read # None}
              first == Listed(t, key(Min(named)))
  <2>1. i \in DOMAIN t /\ rate \in Priced
    BY <1>2, HitFound DEF IsTable
  <2>2. WithSupplementalAliases(t, model, rate)
          = IF rate.read # None \/ named = {} THEN rate ELSE [rate EXCEPT !.read = t[Min(first)].rate.read]
    BY DEF WithSupplementalAliases
  <2>. HIDE DEF key
  <2>3. named # {} => t[Min(first)].rate.read \in Nat \cup {None}
    <3>. SUFFICES ASSUME named # {} PROVE t[Min(first)].rate.read \in Nat \cup {None}
      OBVIOUS
    <3>1. named \subseteq Nat
      BY PricingAssumption
    <3>2. Min(named) \in named
      BY <3>1, LeastOf
    <3>3. first # {} /\ first \subseteq DOMAIN t /\ DOMAIN t \subseteq Nat
      BY <3>2 DEF Listed, IsTable
    <3>4. Min(first) \in DOMAIN t
      BY <3>3, LeastOf
    <3>. QED
      BY <3>4 DEF IsTable, Priced
  <2>4. Price(t, model) \in {rate, WithSupplementalAliases(t, model, rate)}
    BY <1>2 DEF Price
  <2>. HIDE DEF named, first, rate
  <2>. QED
    BY <2>1, <2>2, <2>3, <2>4 DEF Priced, rate
<1>. QED
  BY <1>1, <1>2

-----------------------------------------------------------------------------
\* The part of a list that is related to a model.
Part(t, model) == [i \in Related(t, model) |-> t[i]]

LEMMA PartAgrees ==
  ASSUME NEW t, IsTable(t), NEW model \in Seq(STRING)
  PROVE  IsTable(Part(t, model)) /\ Hit(Part(t, model), model) = Hit(t, model)
         /\ Price(Part(t, model), model) = Price(t, model)
<1>. DEFINE R == Related(t, model)
            r == Part(t, model)
<1>1. R \subseteq DOMAIN t /\ DOMAIN r = R /\ \A i \in R : r[i] = t[i]
  BY DEF Related, Part
<1>2. IsTable(r)
  BY <1>1 DEF IsTable
<1>3. Listed(t, model) \subseteq R
  BY DEF Listed, Related, Swept, IsPrefix
<1>4. \A p \in DOMAIN Prefix : Listed(t, <<Prefix[p]>> \o model) \subseteq R
  BY DEF Listed, Related, Range
<1>5. \A a \in DOMAIN Alias : Listed(t, <<Alias[a]>> \o model) \subseteq R
  BY DEF Listed, Related, Range
<1>6. \A w \in DOMAIN Keyword : Sharing(t, Keyword[w], model) \subseteq R
  BY DEF Sharing, SharingAny, Related, Range
<1>7. \A k : Listed(t, k) \subseteq R => Listed(r, k) = Listed(t, k)
  BY <1>1 DEF Listed
<1>8. Swept(r, model) = Swept(t, model)
  <2>1. Swept(t, model) \subseteq R
    BY DEF Swept, Related
  <2>2. \A i \in R : r[i].key = t[i].key
    BY <1>1
  <2>. HIDE DEF R, r
  <2>. QED
    BY <1>1, <2>1, <2>2 DEF Swept
<1>9. \A w \in DOMAIN Keyword : Sharing(r, Keyword[w], model) = Sharing(t, Keyword[w], model)
  BY <1>1, <1>6 DEF Sharing, SharingAny
<1>10. Searches(r, model) = Searches(t, model)
  <2>1. \A p \in DOMAIN Prefix : Listed(r, <<Prefix[p]>> \o model) = Listed(t, <<Prefix[p]>> \o model)
    BY <1>4, <1>7
  <2>2. [p \in DOMAIN Prefix |-> Listed(r, <<Prefix[p]>> \o model)]
          = [p \in DOMAIN Prefix |-> Listed(t, <<Prefix[p]>> \o model)]
    BY <2>1, Zenon
  <2>3. [w \in DOMAIN Keyword |-> Sharing(r, Keyword[w], model)]
          = [w \in DOMAIN Keyword |-> Sharing(t, Keyword[w], model)]
    BY <1>9, Zenon
  <2>. QED
    BY <1>3, <1>7, <1>8, <2>2, <2>3 DEF Searches
<1>11. Hit(r, model) = Hit(t, model)
  BY <1>10 DEF Hit
<1>12. ASSUME Hit(t, model) # 0 PROVE Price(r, model) = Price(t, model)
  <2>1. Hit(r, model) \in R
    BY <1>1, <1>2, <1>11, <1>12, HitFound
  <2>2. r[Hit(r, model)] = t[Hit(t, model)]
    BY <1>1, <1>11, <2>1
  <2>. DEFINE key(a) == <<Alias[a]>> \o model
              mine(u) == {a \in DOMAIN Alias : \E j \in Listed(u, key(a)) : u[j].rate.read # None}
  <2>3. \A a \in DOMAIN Alias : Listed(r, key(a)) = Listed(t, key(a)) /\ Listed(t, key(a)) \subseteq R
    BY <1>5, <1>7
  <2>4. \A u, rate : WithSupplementalAliases(u, model, rate)
          = IF rate.read # None \/ mine(u) = {} THEN rate
            ELSE [rate EXCEPT !.read = u[Min(Listed(u, key(Min(mine(u)))))].rate.read]
    BY DEF WithSupplementalAliases
  <2>. HIDE DEF key
  <2>5. mine(r) = mine(t)
    BY <1>1, <2>3
  <2>6. mine(t) # {} => /\ Listed(r, key(Min(mine(t)))) = Listed(t, key(Min(mine(t))))
                        /\ Min(Listed(t, key(Min(mine(t))))) \in R
    <3>. SUFFICES ASSUME mine(t) # {}
                  PROVE  /\ Listed(r, key(Min(mine(t)))) = Listed(t, key(Min(mine(t))))
                         /\ Min(Listed(t, key(Min(mine(t))))) \in R
      OBVIOUS
    <3>1. mine(t) \subseteq Nat
      BY PricingAssumption
    <3>2. Min(mine(t)) \in mine(t)
      BY <3>1, LeastOf
    <3>3. Listed(t, key(Min(mine(t)))) # {} /\ Listed(t, key(Min(mine(t)))) \subseteq R /\ R \subseteq Nat
      BY <1>1, <2>3, <3>2 DEF IsTable
    <3>. QED
      BY <2>3, <3>2, <3>3, LeastOf
  <2>. HIDE DEF mine
  <2>7. \A rate : WithSupplementalAliases(r, model, rate) = WithSupplementalAliases(t, model, rate)
    BY <1>1, <2>4, <2>5, <2>6
  <2>. QED
    BY <1>11, <1>12, <2>2, <2>7 DEF Price
<1>13. CASE Hit(t, model) = 0
  BY <1>2, <1>11, <1>13, PriceMeans
<1>. QED
  BY <1>2, <1>11, <1>12, <1>13

-----------------------------------------------------------------------------
PriceInv ==
  /\ IsTable(prices)
  /\ bill = NoBill \/ \E call \in Billed : bill = [call |-> call, cost |-> CostOf(prices, call)]

LEMMA TableBuilt == ASSUME NEW f \in Files PROVE IsTable(BuildEntries(f))
<1>1. f \in Seq(Entries) /\ \A i, j \in DOMAIN f : f[i].key = f[j].key => i = j
  BY PricingAssumption
<1>2. DOMAIN f \subseteq Nat \ {0} /\ \A i \in DOMAIN f : f[i] \in Entries
  BY <1>1
<1>. DEFINE t == BuildEntries(f)
<1>3. DOMAIN t \subseteq DOMAIN f
  BY DEF BuildEntries
<1>4. ASSUME NEW i \in DOMAIN t
      PROVE  t[i].key = f[i].key /\ t[i].key \in Seq(STRING) /\ t[i].rate \in Priced
  <2>1. f[i] \in Entries /\ f[i].rate \in Rates /\ f[i].key \in Seq(STRING)
    BY <1>2, <1>3 DEF Entries
  <2>2. t[i] = [f[i] EXCEPT !.rate.in = Or(@, 0), !.rate.out = Or(@, 0)]
    BY DEF BuildEntries
  <2>3. t[i].key = f[i].key
        /\ t[i].rate = [f[i].rate EXCEPT !.in = Or(f[i].rate.in, 0), !.out = Or(f[i].rate.out, 0)]
    BY <2>1, <2>2 DEF Entries, Rates
  <2>. QED
    <3>. DEFINE rate == f[i].rate
    <3>1. rate \in Rates /\ t[i].rate = [rate EXCEPT !.in = Or(rate.in, 0), !.out = Or(rate.out, 0)]
      BY <2>1, <2>3
    <3>2. Or(rate.in, 0) \in Nat /\ Or(rate.out, 0) \in Nat
      BY <3>1 DEF Or, Rates
    <3>. HIDE DEF rate
    <3>3. t[i].rate \in Priced
      BY <3>1, <3>2 DEF Rates, Priced
    <3>. QED
      BY <2>1, <2>3, <3>3
<1>. QED
  BY <1>1, <1>2, <1>3, <1>4 DEF IsTable

LEMMA PriceInvMeans == PriceInv => PricesSound
<1>. SUFFICES ASSUME PriceInv, bill # NoBill PROVE PricesSound
  BY DEF PricesSound, NeverSilentlyFree, OthersDoNotMatter
<1>1. IsTable(prices)
  BY DEF PriceInv
<1>2. PICK call \in Billed : bill = [call |-> call, cost |-> CostOf(prices, call)]
  BY DEF PriceInv
<1>. DEFINE model == call.model
            part  == Part(prices, model)
            p     == Price(prices, model)
            hit   == Hit(prices, model)
<1>3. /\ model \in Seq(STRING) /\ call.in \in {0, 1} /\ call.out \in {0, 1} /\ call.read \in {0, 1}
      /\ bill.call = call /\ bill.cost = CostOf(prices, call)
  BY <1>2, PricingAssumption DEF Billed
<1>4. IsTable(part) /\ Hit(part, model) = hit /\ Price(part, model) = p
  BY <1>1, <1>3, PartAgrees
<1>5. CostOf(part, call) = CostOf(prices, call)
  BY <1>4 DEF CostOf
<1>6. /\ hit = 0 => p = FALLBACK
      /\ hit # 0 => /\ p \in Priced /\ p.in = prices[hit].rate.in /\ p.out = prices[hit].rate.out
                    /\ hit \in Related(prices, model)
  <2>1. hit # 0 => hit \in DOMAIN part
    BY <1>4, HitFound
  <2>. QED
    BY <1>1, <2>1, PriceMeans DEF Part
<1>7. p \in Priced
  BY <1>6 DEF FALLBACK, Priced
<1>. HIDE DEF p, hit, part
<1>8. ~call.local => CostOf(prices, call) = call.in * p.in + call.out * p.out + call.read * Or(p.read, 0)
  BY DEF CostOf, p
<1>9. p.in \in Nat /\ p.out \in Nat /\ Or(p.read, 0) \in Nat
  BY <1>7, PricingAssumption DEF Priced, Or
<1>10. NeverSilentlyFree
  <2>. SUFFICES ASSUME call.out > 0, bill.cost = 0, ~call.local
                PROVE  \E i \in Related(prices, model) : prices[i].rate.out = 0
    BY <1>3 DEF NeverSilentlyFree
  <2>1. p.out = 0
    BY <1>3, <1>8, <1>9
  <2>2. hit # 0
    BY <1>6, <2>1 DEF FALLBACK
  <2>. QED
    BY <1>6, <2>1, <2>2
<1>11. OthersDoNotMatter
  <2>1. ASSUME NEW i \in Listed(prices, model), ~call.local, call.read = 0
        PROVE  bill.cost = call.in * prices[i].rate.in + call.out * prices[i].rate.out
    <3>1. hit = i /\ hit # 0
      BY <1>1, OwnFirst DEF hit, Listed, IsTable
    <3>2. p.in = prices[i].rate.in /\ p.out = prices[i].rate.out
      BY <1>6, <3>1
    <3>. QED
      BY <1>3, <1>8, <1>9, <2>1, <3>2
  <2>. QED
    BY <1>3, <1>5, <2>1 DEF OthersDoNotMatter, part, Part
<1>. QED
  BY <1>10, <1>11 DEF PricesSound

(* For every price list, every list of prefixes, aliases and keywords and every *)
(* model: an answer is not free unless a related entry says so, other models'    *)
(* entries have no part in a price, and a listed model is billed by its own.     *)
THEOREM PricesAreSound == PriceSpec => []PricesSound
<1>1. PriceInit => PriceInv
  BY TableBuilt DEF PriceInit, PriceInv
<1>2. PriceInv /\ [PriceNext]_priceVars => PriceInv'
  <2>. SUFFICES ASSUME PriceInv, [PriceNext]_priceVars PROVE PriceInv'
    OBVIOUS
  <2>1. CASE Bill
    <3>1. PICK call \in Billed : bill' = [call |-> call, cost |-> CostOf(prices, call)]
      BY <2>1 DEF Bill, Billed
    <3>2. UNCHANGED prices
      BY <2>1 DEF Bill
    <3>3. bill' = [call |-> call, cost |-> CostOf(prices', call)]
      BY <3>1, <3>2
    <3>4. IsTable(prices')
      BY <3>2 DEF PriceInv
    <3>. QED
      BY <3>3, <3>4 DEF PriceInv
  <2>2. CASE UNCHANGED priceVars
    <3>1. UNCHANGED <<prices, bill>>
      BY <2>2 DEF priceVars
    <3>2. IsTable(prices')
      BY <3>1 DEF PriceInv
    <3>3. bill' = NoBill \/ \E call \in Billed : bill' = [call |-> call, cost |-> CostOf(prices', call)]
      BY <3>1 DEF PriceInv
    <3>. QED
      BY <3>2, <3>3 DEF PriceInv
  <2>. QED
    BY <2>1, <2>2 DEF PriceNext
<1>3. PriceInv => PricesSound
  BY PriceInvMeans
<1>. QED
  BY <1>1, <1>2, <1>3, PTL DEF PriceSpec
=============================================================================
