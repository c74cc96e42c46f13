------------------------------- MODULE Alerts -------------------------------
(***************************************************************************)
(* Alerts of the desktop app: alerts/sampler.ts, alert-repository.ts,       *)
(* notifier.ts and the ALERTS_* handlers of ipc.ts.  The sampler's timer     *)
(* does not wait for a tick to end, so ticks overlap each other and the      *)
(* user's actions.                                                           *)
(*                                                                         *)
(* A row is its signature, severity and status; its id is its place.  Texts *)
(* and measured values are left out: a signal is above its threshold or not, *)
(* and "critical" or not.  Alerts are enabled.                              *)
(***************************************************************************)
EXTENDS Naturals, Sequences, FiniteSets

CONSTANTS Tick,      \* ticks that may overlap
          Loads,     \* the sets of signals that may be over their threshold together
          MaxAlerts  \* bound on the rows

ASSUME AlertAssumption ==
  MaxAlerts \in Nat /\ Loads \subseteq SUBSET {"system.cpu", "system.memory", "cost.daily", "cost.forecast"}

VARIABLES started,   \* the sampler's timer is set
          over,      \* the signals that may be over their threshold
          alerts,    \* the table
          tick,      \* per tick: pc, fresh raises, subscription, anyChange
          repaint,   \* pressing alerts changed since the tray was told to repaint
          fired,     \* history: OS notifications per alert
          critical,  \* history: alerts raised as critical
          lost,      \* history: raised by a tick that failed afterwards
          missed,    \* history: a tick failed with changes it had not announced
          calmed     \* history: downgraded, no unpaid forecast raised since

alertVars == <<started, over, alerts, tick, repaint, fired, critical, lost, missed, calmed>>

Ids      == 1 .. Len(alerts)
NoTick   == [pc |-> "idle", fresh |-> {}, paid |-> FALSE, changed |-> FALSE]
Live     == {"open", "snoozed", "acked"}
Cost     == {"cost.daily", "cost.forecast"}
Pressing == {i \in Ids : alerts[i].severity = "critical" /\ alerts[i].status \in {"open", "acked"}}

AlertInit ==
  /\ started = FALSE /\ over \in Loads /\ alerts = <<>> /\ tick = [t \in Tick |-> NoTick]
  /\ repaint = FALSE /\ fired = [i \in 1 .. MaxAlerts |-> 0] /\ critical = {} /\ lost = {}
  /\ missed = FALSE /\ calmed = FALSE

TickAt(t, pc)  == tick' = [tick EXCEPT ![t].pc = pc]
Put(S, s)      == [i \in Ids |-> IF i \in S THEN [alerts[i] EXCEPT !.status = s] ELSE alerts[i]]
InStatus(S)    == {i \in Ids : alerts[i].status \in S}

-----------------------------------------------------------------------------
(* AlertSampler.tick, an await at a time                                     *)

\* The signals over their threshold are raised in this order; those below are
\* passed over without an await.
Then(pc) ==
  CASE pc \in {"idle", "unsnooze"}    -> (over \cap {"system.cpu", "system.memory"}) \cup {"snapshot"}
    [] pc = "system.cpu"              -> (over \cap {"system.memory"}) \cup {"snapshot"}
    [] pc = "system.memory"           -> {"snapshot"}
    [] pc \in {"snapshot", "downgrade"} -> (over \cap Cost) \cup {"done"}
    [] pc = "cost.daily"              -> (over \cap {"cost.forecast"}) \cup {"done"}
    [] OTHER                          -> {"done"}

\* start sets the timer, once; stop is part of the end of the app.
SamplerStart ==
  /\ ~started /\ started' = TRUE
  /\ UNCHANGED <<over, tick, alerts, repaint, fired, critical, lost, missed, calmed>>

TickStart(t) ==
  /\ started /\ tick[t].pc = "idle" /\ TickAt(t, "unsnooze")
  /\ UNCHANGED <<started, over, alerts, repaint, fired, critical, lost, missed, calmed>>

\* snoozed_until has passed for all of the snoozed ones or for none yet.
EndedAcked(S) == InStatus({"acked"}) \cap S
Ended(S)      == InStatus({"snoozed"}) \cap S
Unsnooze(t) ==
  /\ tick[t].pc = "unsnooze"
  /\ \E S \in {{}, InStatus({"snoozed"})}, pc \in Then("unsnooze") :
       /\ alerts' = Put(Ended(S), "open")
       /\ tick' = [tick EXCEPT ![t].pc = pc, ![t].changed = Ended(S) # {}]
  /\ repaint' = (repaint \/ Pressing' # Pressing)
  /\ UNCHANGED <<started, over, fired, critical, lost, missed, calmed>>

\* The severity a signal may be raised with: cpu at 95 %, the forecast at 1.25
\* times the budget unless a subscription pays for it.
Severities(signature, paid) ==
  IF signature = "system.cpu" \/ (signature = "cost.forecast" /\ ~paid)
  THEN {"warning", "critical"} ELSE {"warning"}

\* raiseIfNew: nothing is inserted beside a live row of the same condition.
TakenOpen(signature) == \E i \in InStatus({"open", "snoozed"}) : alerts[i].signature = signature
Taken(signature)     == \E i \in InStatus(Live) : alerts[i].signature = signature

Raise(t) ==
  LET signature == tick[t].pc
      id == Len(alerts) + 1
  IN \E pc \in Then(signature) :
       /\ signature \in over
       /\ \/ /\ Taken(signature) \/ id > MaxAlerts
             /\ tick' = [tick EXCEPT ![t].pc = pc]
             /\ UNCHANGED <<alerts, critical, calmed>>
          \/ \E severity \in Severities(signature, tick[t].paid) :
               /\ ~Taken(signature) /\ id <= MaxAlerts
               /\ alerts' = Append(alerts, [signature |-> signature, severity |-> severity,
                                            status |-> "open"])
               /\ tick' = [tick EXCEPT ![t].pc = pc, ![t].fresh = @ \cup {id}]
               /\ critical' = IF severity = "critical" THEN critical \cup {id} ELSE critical
               /\ calmed' = (calmed /\ (signature = "cost.forecast" => tick[t].paid))
       /\ repaint' = (repaint \/ Pressing' # Pressing)
       /\ UNCHANGED <<started, over, fired, lost, missed>>

\* aggregator.snapshot, then the plans of the providers; an error counts as none.
Snapshot(t) ==
  /\ tick[t].pc = "snapshot"
  /\ \/ TickAt(t, "downgrade")
     \/ \E pc \in Then("snapshot") : TickAt(t, pc)
  /\ UNCHANGED <<started, over, alerts, repaint, fired, critical, lost, missed, calmed>>

Downgraded     == {i \in InStatus(Live) : alerts[i].signature \in Cost}
Downgrade(t) ==
  /\ tick[t].pc = "downgrade"
  /\ alerts' = [i \in Ids |-> IF i \in Downgraded THEN [alerts[i] EXCEPT !.severity = "warning"]
                              ELSE alerts[i]]
  /\ \E pc \in Then("downgrade") :
       tick' = [tick EXCEPT ![t].pc = pc, ![t].paid = (pc # "done"),
                               ![t].changed = @ \/ alerts' # alerts]
  /\ calmed' = TRUE
  /\ repaint' = (repaint \/ Pressing' # Pressing)
  /\ UNCHANGED <<started, over, fired, critical, lost, missed>>

\* broadcastAlertsUpdated and updateTrayPresentation.
Changed(t) == tick[t].changed \/ tick[t].fresh # {}
Announce   == repaint' = FALSE /\ missed' = FALSE

\* Only fresh raises are notified, of those the critical ones; any change is
\* broadcast and paints the tray.
ToNotify(t) == tick[t].fresh \cap critical
TickDone(t) ==
  /\ tick[t].pc = "done"
  /\ fired' = [i \in DOMAIN fired |-> IF i \in ToNotify(t) THEN fired[i] + 1 ELSE fired[i]]
  /\ IF Changed(t) THEN Announce ELSE UNCHANGED <<repaint, missed>>
  /\ tick' = [tick EXCEPT ![t] = NoTick]
  /\ UNCHANGED <<started, over, alerts, critical, lost, calmed>>

\* A failing query ends the tick: its raises are stored and never notified.
TickFails(t) ==
  /\ tick[t].pc \notin {"idle", "done", "unsnooze"}
  /\ lost' = lost \cup ToNotify(t)
  /\ missed' = (missed \/ Changed(t))
  /\ tick' = [tick EXCEPT ![t] = NoTick]
  /\ UNCHANGED <<started, over, alerts, repaint, fired, critical, calmed>>

-----------------------------------------------------------------------------
(* The user, in a list that may be out of date                               *)

AckFrom     == {"open", "snoozed"}
SnoozeAny   == Live \cup {"resolved"}
SnoozeFrom  == {"open", "acked"}
ResolveFrom == Live

React(ids, from, status) ==
  /\ alerts' = Put(ids \cap InStatus(from), status) /\ Announce
  /\ UNCHANGED <<started, over, tick, fired, critical, lost, calmed>>

Ack(i)     == React({i}, AckFrom, "acked")
Resolve(i) == React({i}, ResolveFrom, "resolved")
Snooze(i)  == React({i}, SnoozeFrom, "snoozed")
ResolveAll == React(Ids, Live, "resolved")

TickStep(t) == Raise(t) \/ Snapshot(t) \/ Downgrade(t) \/ TickDone(t)

AlertNext ==
  \/ SamplerStart
  \/ \E t \in Tick : TickStart(t) \/ Unsnooze(t) \/ TickStep(t) \/ TickFails(t)
  \/ \E i \in Ids : Ack(i) \/ Resolve(i) \/ Snooze(i)
  \/ ResolveAll

\* The timer fires, queries answer, and a snooze of snoozeMinutes is over at one
\* of the ticks that follow.
AlertFairness ==
  /\ \A t \in Tick :
       /\ WF_alertVars(TickStart(t)) /\ WF_alertVars(TickStep(t))
       /\ SF_alertVars(Unsnooze(t) /\ alerts' # alerts)

AlertSpec == AlertInit /\ [][AlertNext]_alertVars

-----------------------------------------------------------------------------
(* A condition has one alert at a time that is not resolved, however ticks,   *)
(* snoozes and acknowledgements interleave.                                    *)
OneLivePerCondition ==
  \A i, j \in InStatus(Live) : alerts[i].signature = alerts[j].signature => i = j

(* A critical alert is notified once and only by the tick that raised it; it   *)
(* is missed only if that tick failed after the raise.                         *)
NotifiedOnce ==
  \A i \in 1 .. MaxAlerts :
    fired[i] = IF i \in critical \ (lost \cup UNION {tick[t].fresh : t \in Tick}) THEN 1 ELSE 0

(* Once a subscription was seen no cost alert is critical, unless a tick that  *)
(* had not seen it raised the forecast afterwards.                             *)
CalmWhenPaid ==
  calmed => \A i \in InStatus(Live) : alerts[i].signature \in Cost =>
                                        alerts[i].severity = "warning"

(* When no tick is under way the tray and the windows were told of the last    *)
(* change of the alerts that press, unless a tick failed before it told them.  *)
TrayCurrent == (\A t \in Tick : tick[t].pc = "idle") /\ repaint => missed

(* The alerts the user sees and hears of, in all four respects.               *)
AlertsSound == OneLivePerCondition /\ NotifiedOnce /\ CalmWhenPaid /\ TrayCurrent

(* A resolved alert stays resolved, although the user may act on an old list.  *)
ResolvedStays ==
  [][\A i \in InStatus({"resolved"}) : alerts'[i] = alerts[i]]_alertVars

(* A snooze ends.                                                              *)
SnoozeEnds ==
  \A i \in 1 .. MaxAlerts :
    (i \in InStatus({"snoozed"})) ~> (i \notin InStatus({"snoozed"}))

(* What the user decided about an alert holds, as long as it is to.            *)
AlertsSettle == ResolvedStays /\ SnoozeEnds
=============================================================================
