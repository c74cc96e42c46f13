----------------------------- MODULE SyncClient -----------------------------
(***************************************************************************)
(* The desktop's upload path: EventRepository.upsertMany fills the outbox, *)
(* SyncQueue drains it to the team server, and src/main/index.ts schedules *)
(* the drains and rebuilds the queue whenever the settings change.         *)
(*                                                                         *)
(* One action is one database statement, one HTTP exchange or one timer    *)
(* callback: the code awaits between them, so a writer's transaction, two  *)
(* drains and a settings change interleave freely.  The local Postgres     *)
(* assigns seq when a row is inserted and shows the row when its           *)
(* transaction commits; a rolled-back or conflicting insert leaves a gap.  *)
(*                                                                         *)
(* The team server is what TeamServer promises, seen from here: a request  *)
(* that reaches it is applied at once, storing each event or refusing it.  *)
(* A request may be lost, applied after the client has given up (a "late"  *)
(* request), or applied without its answer coming back.                    *)
(*                                                                         *)
(* Time is the age of the last successful sync of a target, up to          *)
(* Interval: older than that the cadence gate does not tell apart.  The    *)
(* in-memory lastSyncAt is left out: it is read only for a target that     *)
(* never synced, and a scheduled queue instance serves a single target.    *)
(***************************************************************************)
EXTENDS Naturals, FiniteSets

CONSTANTS
  Event,
  NoEvent,
  Writer,      \* provider refreshes that may be inside upsertMany together
  EventsOf,    \* EventsOf[w]: the events provider w reads from its logs
  Target,      \* (team, user) pairs
  NoTarget,    \* sync disabled or not configured
  Url,         \* team servers
  NoUrl,       \* no server configured
  Choice,      \* the settings the user picks: [target |-> t, url |-> u,
               \* daily |-> TRUE for the privacy level aggregateOnly]
  Queue,       \* names for SyncQueue instances; bounds the stale ones alive
  NoQueue,
  MaxBatch,    \* MAX_BATCH_SIZE
  Interval,    \* teamSync.intervalMs, in ticks
  MaxSeq,      \* bound: sequence numbers handed out
  MaxLate,     \* bound: late requests under way
  MaxCrash     \* bound: restarts of the app

ASSUME ClientAssumption ==
  /\ NoEvent \notin Event
  /\ EventsOf \in [Writer -> SUBSET Event]
  /\ \A v, w \in Writer : v # w => EventsOf[v] \cap EventsOf[w] = {}
  /\ Choice \subseteq [target : Target \cup {NoTarget}, url : Url \cup {NoUrl},
                    daily : BOOLEAN]
  /\ NoTarget \notin Target
  /\ NoUrl \notin Url
  /\ NoQueue \notin Queue
  /\ MaxBatch \in Nat \ {0}
  /\ Interval \in Nat \ {0}
  /\ {MaxSeq, MaxLate, MaxCrash} \subseteq Nat

SeqNo == 1..MaxSeq

VARIABLES
  \* the local database
  outbox,      \* the event of each committed sync_outbox row, NoEvent if none
  nextSeq,     \* the BIGSERIAL
  mine,        \* the rows <<seq, event>> of each writer's open transaction
  sent,        \* rows with sent_at set
  cursor,      \* sync_cursor.last_sent_seq per target, 0 if no row
  age,         \* time since sync_cursor.last_synced_at, Interval if long or never
  \* the app
  setting,     \* the teamSync settings
  current,     \* let syncQueue: the instance the timer drains
  ipc,         \* the instance registerIpcHandlers was given
  \* one per queue instance, the drain it runs
  qpc,
  urlOf,       \* its transport's baseUrl
  target,      \* cfg of the drain
  force,       \* forceDrain or drain
  daily,       \* cfg.privacyLevel is aggregateOnly
  base,        \* lastSeq
  top,         \* maxSeq
  load,        \* the events of the batch
  overtaken,   \* history: another drain of its target was recorded meanwhile
  \* the network and the servers
  late,        \* requests the client no longer waits for
  served,      \* <<url, target, event>> stored or refused by a server
  bucket,      \* daily_aggregates: the events the row of a url and target sums
  crashes

database == <<outbox, nextSeq, mine, sent, cursor, age>>
app      == <<setting, current, ipc, urlOf>>
drain    == <<target, force, daily, base, top, load, overtaken>>
world    == <<late, served, bucket, crashes>>
vars     == <<database, app, qpc, drain, world>>

Committed == {s \in SeqNo : outbox[s] # NoEvent}

Busy == {q \in Queue : qpc[q] # "idle"}

\* Instances that are not reachable any more can be reused as new ones.
Unused == Queue \ (Busy \cup {current, ipc})

Init ==
  /\ outbox = [s \in SeqNo |-> NoEvent]
  /\ nextSeq = 1
  /\ mine = [w \in Writer |-> {}]
  /\ sent = {}
  /\ cursor = [t \in Target |-> 0]
  /\ age = [t \in Target |-> Interval]
  /\ setting \in Choice
  /\ urlOf \in [Queue -> {setting.url}]
  /\ current \in IF setting.url = NoUrl THEN {NoQueue} ELSE Queue
  /\ ipc = current
  /\ qpc = [q \in Queue |-> "idle"]
  /\ target = [q \in Queue |-> NoTarget]
  /\ force = [q \in Queue |-> FALSE]
  /\ daily = [q \in Queue |-> FALSE]
  /\ base = [q \in Queue |-> 0]
  /\ top = [q \in Queue |-> 0]
  /\ load = [q \in Queue |-> {}]
  /\ overtaken = {}
  /\ late = {}
  /\ served = {}
  /\ bucket = [x \in Url \X Target |-> {}]
  /\ crashes = 0

(***************************************************************************)
(* Writers: upsertMany of one provider's refresh.                          *)
(***************************************************************************)

\* INSERT INTO sync_outbox .. ON CONFLICT (event_id) DO NOTHING: the next seq
\* is consumed whether or not the event is there already.
Enqueue(w) ==
  /\ nextSeq <= MaxSeq
  /\ \E e \in EventsOf[w] :
       LET known == \/ \E s \in Committed : outbox[s] = e
                    \/ \E x \in mine[w] : x[2] = e
       IN  mine' = IF known THEN mine
                   ELSE [mine EXCEPT ![w] = @ \cup {<<nextSeq, e>>}]
  /\ nextSeq' = nextSeq + 1
  /\ UNCHANGED <<outbox, sent, cursor, age, app, qpc, drain, world>>

CommitRows(w) ==
  /\ mine[w] # {}
  /\ outbox' = [s \in SeqNo |-> IF \E e \in Event : <<s, e>> \in mine[w]
                                THEN CHOOSE e \in Event : <<s, e>> \in mine[w]
                                ELSE outbox[s]]
  /\ mine' = [mine EXCEPT ![w] = {}]
  /\ UNCHANGED <<nextSeq, sent, cursor, age, app, qpc, drain, world>>

RollbackRows(w) ==
  /\ mine[w] # {}
  /\ mine' = [mine EXCEPT ![w] = {}]
  /\ UNCHANGED <<outbox, nextSeq, sent, cursor, age, app, qpc, drain, world>>

(***************************************************************************)
(* Settings: every change rebuilds the scheduled queue; the one the IPC    *)
(* handlers hold stays.                                                    *)
(***************************************************************************)
ChangeSettings ==
  /\ \E c \in Choice :
       /\ setting' = c
       /\ IF c.url = NoUrl
          THEN current' = NoQueue /\ UNCHANGED urlOf
          ELSE \E q \in Unused : /\ current' = q
                                 /\ urlOf' = [urlOf EXCEPT ![q] = c.url]
  /\ UNCHANGED <<database, ipc, qpc, drain, world>>

(***************************************************************************)
(* Drains.                                                                 *)
(***************************************************************************)

\* Mutant of Start: without the check of cfg.
StartAnyway(q, forced) ==
  /\ qpc[q] = "idle"
  /\ qpc' = [qpc EXCEPT ![q] = "peek"]
  /\ target' = [target EXCEPT ![q] = setting.target]
  /\ force' = [force EXCEPT ![q] = forced]
  /\ daily' = [daily EXCEPT ![q] = setting.daily]
  /\ UNCHANGED <<database, app, base, top, load, overtaken, world>>

\* drainGated: a drain in flight is joined, not repeated.
Start(q, forced) ==
  /\ qpc[q] = "idle"
  /\ setting.target # NoTarget
  /\ qpc' = [qpc EXCEPT ![q] = "peek"]
  /\ target' = [target EXCEPT ![q] = setting.target]
  /\ force' = [force EXCEPT ![q] = forced]
  /\ daily' = [daily EXCEPT ![q] = setting.daily]
  /\ UNCHANGED <<database, app, base, top, load, overtaken, world>>

\* The timer's runSyncDrain.
StartScheduled == \E q \in Queue : q = current /\ Start(q, FALSE)

\* The SYNC_DRAIN handler behind "sync now".
StartForced == \E q \in Queue : q = ipc /\ Start(q, TRUE)

\* A drain that is over forgets its locals.
Leave(q) ==
  /\ qpc' = [qpc EXCEPT ![q] = "idle"]
  /\ target' = [target EXCEPT ![q] = NoTarget]
  /\ force' = [force EXCEPT ![q] = FALSE]
  /\ daily' = [daily EXCEPT ![q] = FALSE]
  /\ base' = [base EXCEPT ![q] = 0]
  /\ top' = [top EXCEPT ![q] = 0]
  /\ load' = [load EXCEPT ![q] = {}]

\* It ends without being recorded.
Finish(q) == Leave(q) /\ overtaken' = overtaken \ {q}

\* Mutant of RateLimited: the gate opens one tick early.
NearlyLimited(q) == ~force[q] /\ age[target[q]] + 1 < Interval

\* The interval has not elapsed since the last successful sync.
RateLimited(q) == ~force[q] /\ age[target[q]] < Interval

\* cursors.get and the cadence gate.
Peek(q) ==
  /\ qpc[q] = "peek"
  /\ IF RateLimited(q)
     THEN Finish(q)
     ELSE /\ base' = [base EXCEPT ![q] = cursor[target[q]]]
          /\ qpc' = [qpc EXCEPT ![q] = "read"]
          /\ UNCHANGED <<target, force, daily, top, load, overtaken>>
  /\ UNCHANGED <<database, app, world>>

\* Mutant of Pending: off by one.
PendingAfter(b) == {s \in Committed \ sent : s > b + 1}

\* The rows outbox.pending(base, MAX_BATCH_SIZE) chooses from.
Pending(b) == {s \in Committed \ sent : s > b}

\* Mutant of FirstPending: newest first.
LastPending(b) ==
  {s \in Pending(b) : Cardinality({r \in Pending(b) : r > s}) < MaxBatch}

\* The ones it returns, oldest first.
FirstPending(b) ==
  {s \in Pending(b) : Cardinality({r \in Pending(b) : r < s}) < MaxBatch}

\* outbox.pending, redaction, getAccessToken; then the POST is on its way.
ReadBatch(q) ==
  /\ qpc[q] = "read"
  /\ LET rows == FirstPending(base[q])
     IN  IF rows = {}
         THEN Finish(q)
         ELSE /\ load' = [load EXCEPT ![q] = {outbox[s] : s \in rows}]
              /\ \E m \in rows : (\A r \in rows : r <= m) /\ top' = [top EXCEPT ![q] = m]
              /\ qpc' = [qpc EXCEPT ![q] = "posted"]
              /\ UNCHANGED <<target, force, daily, base, overtaken>>
  /\ UNCHANGED <<database, app, world>>

Call(q) == [url |-> urlOf[q], target |-> target[q], daily |-> daily[q],
            events |-> load[q]]

\* redactToDaily sums the batch, and the server overwrites the row of the day:
\* all events here are of one day, provider and model.
Serve(m) ==
  /\ served' = served \cup {<<m.url, m.target, e>> : e \in m.events}
  /\ bucket' = IF m.daily THEN [bucket EXCEPT ![<<m.url, m.target>>] = m.events]
               ELSE bucket

\* The request is applied while its drain waits for it.
Deliver(q) ==
  /\ qpc[q] = "posted"
  /\ Serve(Call(q))
  /\ qpc' = [qpc EXCEPT ![q] = "served"]
  /\ UNCHANGED <<database, app, drain, late, crashes>>

\* The 200 response arrives.
Acknowledge(q) ==
  /\ qpc[q] = "served"
  /\ qpc' = [qpc EXCEPT ![q] = "acked"]
  /\ UNCHANGED <<database, app, drain, world>>

\* What the client no longer waits for is lost or still under way.
Abandon(calls) ==
  \E l \in SUBSET calls :
    /\ late' = late \cup l
    /\ Cardinality(late') <= MaxLate

\* The 15 s timeout, a network error, a status other than 2xx or an unreadable
\* body: recordError, which leaves last_sent_seq and last_synced_at alone.
FailCall(q) ==
  /\ qpc[q] \in {"posted", "served"}
  /\ Abandon(IF qpc[q] = "posted" THEN {Call(q)} ELSE {})
  /\ Finish(q)
  /\ UNCHANGED <<database, app, served, bucket, crashes>>

DeliverLate ==
  /\ \E m \in late : Serve(m) /\ late' = late \ {m}
  /\ UNCHANGED <<database, app, qpc, drain, crashes>>

LoseLate ==
  /\ \E m \in late : late' = late \ {m}
  /\ UNCHANGED <<database, app, qpc, drain, served, bucket, crashes>>

\* Mutant of MarkSent: without WHERE seq <= maxSeq.
MarkAll(q) ==
  /\ qpc[q] = "acked"
  /\ sent' = Committed
  /\ qpc' = [qpc EXCEPT ![q] = "advance"]
  /\ UNCHANGED <<outbox, nextSeq, mine, cursor, age, app, drain, world>>

\* outbox.markSent(maxSeq): every committed row up to it, not the batch's rows.
MarkSent(q) ==
  /\ qpc[q] = "acked"
  /\ sent' = sent \cup {s \in Committed : s <= top[q]}
  /\ qpc' = [qpc EXCEPT ![q] = "advance"]
  /\ UNCHANGED <<outbox, nextSeq, mine, cursor, age, app, drain, world>>

\* Mutant of Greatest: the last writer wins.
Newest(old, new) == new

Greatest(old, new) == IF new > old THEN new ELSE old

\* cursors.advance: GREATEST of the stored and the new seq.
Advance(q) ==
  /\ qpc[q] = "advance"
  /\ cursor' = [cursor EXCEPT ![target[q]] = Greatest(@, top[q])]
  /\ age' = [age EXCEPT ![target[q]] = 0]
  /\ Leave(q)
  /\ overtaken' = (overtaken \cup {p \in Busy : target[p] = target[q]}) \ {q}
  /\ UNCHANGED <<outbox, nextSeq, mine, sent, app, world>>

\* Any database statement of a drain may fail: the drain ends there.
FailStatement(q) ==
  /\ qpc[q] \in {"peek", "read", "acked", "advance"}
  /\ Finish(q)
  /\ UNCHANGED <<database, app, world>>

(***************************************************************************)
(* Time and restarts.                                                      *)
(***************************************************************************)
Tick ==
  /\ \E t \in Target : age[t] < Interval
  /\ age' = [t \in Target |-> IF age[t] < Interval THEN age[t] + 1 ELSE age[t]]
  /\ UNCHANGED <<outbox, nextSeq, mine, sent, cursor, app, qpc, drain, world>>

\* The app dies and starts again: open transactions roll back, drains are gone,
\* what they had posted may still arrive.
Restart ==
  /\ crashes < MaxCrash
  /\ crashes' = crashes + 1
  /\ mine' = [w \in Writer |-> {}]
  /\ Abandon({Call(q) : q \in {p \in Queue : qpc[p] = "posted"}})
  /\ qpc' = [q \in Queue |-> "idle"]
  /\ target' = [q \in Queue |-> NoTarget]
  /\ force' = [q \in Queue |-> FALSE]
  /\ daily' = [q \in Queue |-> FALSE]
  /\ base' = [q \in Queue |-> 0]
  /\ top' = [q \in Queue |-> 0]
  /\ load' = [q \in Queue |-> {}]
  /\ overtaken' = {}
  /\ current' \in IF setting.url = NoUrl THEN {NoQueue} ELSE Queue
  /\ ipc' = current'
  /\ urlOf' = [q \in Queue |-> setting.url]
  /\ UNCHANGED <<outbox, nextSeq, sent, cursor, age, setting, served, bucket>>

DrainStep(q) ==
  \/ Peek(q) \/ ReadBatch(q) \/ MarkSent(q) \/ Advance(q)

Next ==
  \/ \E w \in Writer : Enqueue(w) \/ CommitRows(w) \/ RollbackRows(w)
  \/ ChangeSettings
  \/ StartScheduled \/ StartForced
  \/ \E q \in Queue : \/ DrainStep(q)
                      \/ Deliver(q) \/ Acknowledge(q) \/ FailCall(q)
                      \/ FailStatement(q)
  \/ DeliverLate \/ LoseLate
  \/ Tick
  \/ Restart

Spec == Init /\ [][Next]_vars

(***************************************************************************)
(* Fairness.  setInterval fires again and again, so an idle scheduled      *)
(* queue is drained sooner or later (WF); time passes.  The local database *)
(* and the network may fail any number of times but not every time (SF),   *)
(* for some instance at least.  Restarts are bounded by MaxCrash.          *)
(***************************************************************************)
Fairness ==
  /\ WF_vars(StartScheduled)
  /\ WF_vars(Tick)
  /\ SF_vars(\E q \in Queue : Peek(q))
  /\ SF_vars(\E q \in Queue : ReadBatch(q))
  /\ SF_vars(\E q \in Queue : Deliver(q))
  /\ SF_vars(\E q \in Queue : Acknowledge(q))
  /\ SF_vars(\E q \in Queue : MarkSent(q))
  /\ SF_vars(\E q \in Queue : Advance(q))

FairSpec == Spec /\ Fairness

(***************************************************************************)
(* Properties.                                                             *)
(***************************************************************************)

\* Every variable holds a value of its kind; a drain works for a target, and only
\* configured servers are called.
TypeOK ==
  /\ outbox \in [SeqNo -> Event \cup {NoEvent}]
  /\ nextSeq \in 1..(MaxSeq + 1)
  /\ mine \in [Writer -> SUBSET (SeqNo \X Event)]
  /\ sent \subseteq SeqNo
  /\ cursor \in [Target -> 0..MaxSeq]
  /\ age \in [Target -> 0..Interval]
  /\ setting \in Choice
  /\ current \in Queue \cup {NoQueue}
  /\ ipc \in Queue \cup {NoQueue}
  /\ qpc \in [Queue -> {"idle", "peek", "read", "posted", "served", "acked", "advance"}]
  /\ urlOf \in [Queue -> Url \cup {NoUrl}]
  /\ target \in [Queue -> Target \cup {NoTarget}]
  /\ \A q \in Busy : target[q] # NoTarget
  /\ force \in [Queue -> BOOLEAN]
  /\ daily \in [Queue -> BOOLEAN]
  /\ base \in [Queue -> 0..MaxSeq]
  /\ top \in [Queue -> 0..MaxSeq]
  /\ load \in [Queue -> SUBSET Event]
  /\ overtaken \subseteq Busy
  /\ late \subseteq [url : Url, target : Target, daily : BOOLEAN, events : SUBSET Event]
  /\ served \subseteq Url \X Target \X Event
  /\ bucket \in [Url \X Target -> SUBSET Event]
  /\ crashes \in 0..MaxCrash

Reached(t, e) == \E u \in Url : <<u, t, e>> \in served

(***************************************************************************)
(* A row with sent_at set has been processed by a server: markSent never   *)
(* covers an event that was not in an acknowledged batch.                  *)
(***************************************************************************)
SentReachedServer ==
  \A s \in sent : \E t \in Target : Reached(t, outbox[s])

(***************************************************************************)
(* The cursor of a target never passes a row that the target's server has  *)
(* not processed: nothing at or below it is left behind.                   *)
(***************************************************************************)
CursorSkipsNothing ==
  \A t \in Target : \A s \in Committed : s <= cursor[t] => Reached(t, outbox[s])

(***************************************************************************)
(* last_sent_seq only ever increases, also when a drain of a replaced      *)
(* queue finishes after a newer one.                                       *)
(***************************************************************************)
CursorMonotone == [][\A t \in Target : cursor'[t] >= cursor[t]]_vars

(***************************************************************************)
(* intervalMs is the minimum time between successful scheduled uploads: a  *)
(* scheduled drain about to be recorded as the last sync of its target     *)
(* finds the previous one at least Interval old, unless a drain of another *)
(* queue instance was recorded since it began.                             *)
(***************************************************************************)
CadenceKept ==
  \A q \in Queue : qpc[q] = "advance" /\ ~force[q] /\ q \notin overtaken =>
                     age[target[q]] >= Interval

(***************************************************************************)
(* Every event in the outbox eventually reaches the server of a target, or *)
(* sync is switched to another one or off, whatever drains fail, restarts  *)
(* and settings changes come first.                                        *)
(***************************************************************************)
EventuallyUploaded ==
  \A s \in SeqNo : \A t \in Target :
    (s \in Committed) ~> (\/ s \in Committed /\ Reached(t, outbox[s])
                          \/ setting.target # t)

=============================================================================
