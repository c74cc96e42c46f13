-------------------------- MODULE SyncClientProofs --------------------------
(***************************************************************************)
(* Theorems about SyncClient, for any number of queue instances, writers,  *)
(* events, targets and servers.                                            *)
(*                                                                         *)
(* Types and the cadence hold of every instance.  That nothing is left     *)
(* behind the cursor holds with one writer at a time and one target: the   *)
(* run client_two_writers shows the first to be needed, and sent_at, which *)
(* is one flag for all targets, the second.                                *)
(***************************************************************************)
EXTENDS SyncClient, FiniteSetTheorems, TLAPS

DatabaseOK ==
  /\ outbox \in [SeqNo -> Event \cup {NoEvent}]
  /\ nextSeq \in 1..(MaxSeq + 1)
  /\ mine \in [Writer -> SUBSET (SeqNo \X Event)]
  /\ sent \subseteq SeqNo
  /\ cursor \in [Target -> 0..MaxSeq]
  /\ age \in [Target -> 0..Interval]

\* Only instances with a server are current, captured or draining.
AppOK ==
  /\ setting \in Choice
  /\ current \in Queue \cup {NoQueue}
  /\ ipc \in Queue \cup {NoQueue}
  /\ urlOf \in [Queue -> Url \cup {NoUrl}]
  /\ \A q \in Queue : q \in {current, ipc} \/ qpc[q] # "idle" => urlOf[q] \in Url

DrainOK ==
  /\ qpc \in [Queue -> {"idle", "peek", "read", "posted", "served", "acked", "advance"}]
  /\ target \in [Queue -> Target \cup {NoTarget}]
  /\ \A q \in Queue : qpc[q] # "idle" => target[q] \in Target
  /\ force \in [Queue -> BOOLEAN]
  /\ daily \in [Queue -> BOOLEAN]
  /\ base \in [Queue -> 0..MaxSeq]
  /\ top \in [Queue -> 0..MaxSeq]
  /\ load \in [Queue -> SUBSET Event]
  /\ overtaken \subseteq {q \in Queue : qpc[q] # "idle"}

WorldOK ==
  /\ late \subseteq [url : Url, target : Target, daily : BOOLEAN, events : SUBSET Event]
  /\ served \subseteq Url \X Target \X Event
  /\ bucket \in [Url \X Target -> SUBSET Event]
  /\ crashes \in 0..MaxCrash

Basics == DatabaseOK /\ AppOK /\ DrainOK /\ WorldOK

\* Inside the interval no scheduled drain gets past the gate.
GateKept ==
  \A q \in Queue : qpc[q] \notin {"idle", "peek"} /\ ~force[q] /\ q \notin overtaken =>
                     age[target[q]] >= Interval

(***************************************************************************)
(* Types.                                                                  *)
(***************************************************************************)
LEMMA ChoiceFields ==
  ASSUME NEW c \in Choice
  PROVE  c.target \in Target \cup {NoTarget} /\ c.url \in Url \cup {NoUrl} /\ c.daily \in BOOLEAN
BY ClientAssumption

LEMMA BasicsInit == Init => Basics
<1>. SUFFICES ASSUME Init PROVE Basics
  OBVIOUS
<1>. USE ClientAssumption DEF Init
<1>0. setting \in Choice /\ setting.url \in Url \cup {NoUrl}
  BY ChoiceFields
<1>1. DatabaseOK
  BY DEF DatabaseOK, SeqNo
<1>2. AppOK
  BY <1>0 DEF AppOK
<1>3. DrainOK
  BY DEF DrainOK
<1>4. WorldOK
  BY DEF WorldOK
<1>. QED
  BY <1>1, <1>2, <1>3, <1>4 DEF Basics

LEMMA BasicsTypeOK == Basics => TypeOK
BY ClientAssumption DEF Basics, DatabaseOK, AppOK, DrainOK, WorldOK, TypeOK, Busy

\* The call of a drain with a server and a target is one a server knows.
LEMMA CallTyped ==
  ASSUME Basics, NEW q \in Queue, qpc[q] # "idle"
  PROVE  Call(q) \in [url : Url, target : Target, daily : BOOLEAN, events : SUBSET Event]
BY DEF Basics, AppOK, DrainOK, Call

LEMMA DatabaseStep == Basics /\ [Next]_vars => DatabaseOK'
<1>. SUFFICES ASSUME Basics, [Next]_vars PROVE DatabaseOK'
  OBVIOUS
<1>. USE ClientAssumption DEF Basics
<1>1. CASE UNCHANGED database
  BY <1>1 DEF database, DatabaseOK
<1>2. ASSUME NEW w \in Writer, Enqueue(w) PROVE DatabaseOK'
  BY <1>2 DEF Enqueue, DatabaseOK, SeqNo
<1>3. ASSUME NEW w \in Writer, CommitRows(w) PROVE DatabaseOK'
  <2>1. \A s \in SeqNo : outbox'[s] \in Event \cup {NoEvent}
    BY <1>3 DEF CommitRows, DatabaseOK
  <2>2. outbox' \in [SeqNo -> Event \cup {NoEvent}]
    BY <1>3, <2>1 DEF CommitRows
  <2>. QED
    BY <1>3, <2>2 DEF CommitRows, DatabaseOK
<1>4. ASSUME NEW w \in Writer, RollbackRows(w) PROVE DatabaseOK'
  BY <1>4 DEF RollbackRows, DatabaseOK
<1>5. ASSUME NEW q \in Queue, MarkSent(q) PROVE DatabaseOK'
  BY <1>5 DEF MarkSent, DatabaseOK, Committed
<1>6. ASSUME NEW q \in Queue, Advance(q) PROVE DatabaseOK'
  BY <1>6 DEF Advance, Greatest, DatabaseOK, DrainOK
<1>7. CASE Tick
  <2>1. age' \in [Target -> 0..Interval]
    BY <1>7 DEF Tick, DatabaseOK
  <2>. QED
    BY <1>7, <2>1 DEF Tick, DatabaseOK
<1>8. CASE Restart
  BY <1>8 DEF Restart, DatabaseOK
<1>9. CASE UNCHANGED vars
  BY <1>9, <1>1 DEF vars
<1>10. ASSUME NEW q \in Queue,
              \/ Peek(q) \/ ReadBatch(q) \/ Deliver(q) \/ Acknowledge(q)
              \/ FailCall(q) \/ FailStatement(q)
       PROVE  DatabaseOK'
  BY <1>1, <1>10 DEF Peek, ReadBatch, Deliver, Acknowledge, FailCall, FailStatement
<1>11. CASE ChangeSettings \/ StartScheduled \/ StartForced \/ DeliverLate \/ LoseLate
  BY <1>1, <1>11 DEF ChangeSettings, StartScheduled, StartForced, Start, DeliverLate, LoseLate
<1>. QED
  BY <1>2, <1>3, <1>4, <1>5, <1>6, <1>7, <1>8, <1>9, <1>10, <1>11 DEF Next, DrainStep

LEMMA AppStep == Basics /\ [Next]_vars => AppOK'
<1>. SUFFICES ASSUME Basics, [Next]_vars PROVE AppOK'
  OBVIOUS
<1>. USE ClientAssumption DEF Basics
<1>1. CASE ChangeSettings
  <2>1. PICK c \in Choice : ChangeSettings!1!(c)
    BY <1>1 DEF ChangeSettings
  <2>2. c.url \in Url \cup {NoUrl}
    BY ChoiceFields
  <2>. QED
    BY <1>1, <2>1, <2>2 DEF ChangeSettings, AppOK, DrainOK, Unused, Busy
<1>2. CASE Restart
  <2>1. setting.url \in Url \cup {NoUrl}
    BY ChoiceFields DEF AppOK
  <2>. QED
    BY <1>2, <2>1 DEF Restart, AppOK, DrainOK
<1>3. CASE UNCHANGED <<app, qpc>>
  BY <1>3 DEF app, AppOK
<1>4. ASSUME NEW q \in Queue, q \in {current, ipc}, NEW forced, Start(q, forced) PROVE AppOK'
  BY <1>4 DEF Start, app, AppOK, DrainOK
<1>5. ASSUME NEW q \in Queue, UNCHANGED app, qpc[q] # "idle",
             NEW pc, qpc' = [qpc EXCEPT ![q] = pc]
      PROVE  AppOK'
  BY <1>5 DEF app, AppOK, DrainOK
<1>6. CASE \E q \in Queue : DrainStep(q) \/ Deliver(q) \/ Acknowledge(q) \/ FailCall(q) \/ FailStatement(q)
  BY <1>5, <1>6 DEF DrainStep, Peek, ReadBatch, MarkSent, Advance, Deliver, Acknowledge,
                    FailCall, FailStatement, Finish, Leave
<1>7. CASE StartScheduled \/ StartForced
  BY <1>4, <1>7 DEF StartScheduled, StartForced
<1>8. CASE \/ \E w \in Writer : Enqueue(w) \/ CommitRows(w) \/ RollbackRows(w)
           \/ DeliverLate \/ LoseLate \/ Tick \/ UNCHANGED vars
  BY <1>3, <1>8 DEF Enqueue, CommitRows, RollbackRows, DeliverLate, LoseLate, Tick, vars
<1>. QED
  BY <1>1, <1>2, <1>6, <1>7, <1>8 DEF Next

\* A drain that ends leaves nothing behind.
LEMMA LeaveTyped ==
  ASSUME DrainOK, NEW q \in Queue, Leave(q), overtaken' \subseteq {p \in Queue \ {q} : qpc[p] # "idle"}
  PROVE  DrainOK'
BY ClientAssumption DEF Leave, DrainOK

LEMMA FinishTyped ==
  ASSUME DrainOK, NEW q \in Queue, Finish(q)
  PROVE  DrainOK'
BY LeaveTyped DEF Finish, DrainOK

LEMMA DrainStays ==
  ASSUME DrainOK, UNCHANGED <<qpc, drain>> PROVE DrainOK'
BY DEF drain, DrainOK

LEMMA StartTyped ==
  ASSUME Basics, NEW q \in Queue, NEW forced \in BOOLEAN, Start(q, forced)
  PROVE  DrainOK'
<1>1. setting.target \in Target /\ setting.daily \in BOOLEAN
  BY ChoiceFields DEF Basics, AppOK, Start
<1>. QED
  BY <1>1 DEF Basics, DrainOK, Start

LEMMA DrainTypes == Basics /\ [Next]_vars => DrainOK'
<1>. SUFFICES ASSUME Basics, [Next]_vars PROVE DrainOK'
  OBVIOUS
<1>. USE ClientAssumption DEF Basics
<1>1. ASSUME NEW q \in Queue, Peek(q) PROVE DrainOK'
  <2>1. CASE RateLimited(q)
    BY <1>1, <2>1, FinishTyped DEF Peek
  <2>2. CASE ~RateLimited(q)
    BY <1>1, <2>2 DEF Peek, DrainOK, DatabaseOK
  <2>. QED
    BY <2>1, <2>2
<1>2. ASSUME NEW q \in Queue, ReadBatch(q) PROVE DrainOK'
  <2>. DEFINE rows == FirstPending(base[q])
  <2>1. rows \subseteq Committed /\ rows \subseteq SeqNo
    BY DEF FirstPending, Pending, Committed
  <2>2. {outbox[s] : s \in rows} \subseteq Event
    BY <2>1 DEF Committed, DatabaseOK
  <2>3. CASE rows = {}
    BY <1>2, <2>3, FinishTyped DEF ReadBatch
  <2>4. CASE rows # {}
    <3>. HIDE DEF rows
    <3>1. PICK m \in rows : top' = [top EXCEPT ![q] = m]
      BY <1>2, <2>4 DEF ReadBatch, rows
    <3>2. m \in 0..MaxSeq
      BY <2>1 DEF SeqNo
    <3>3. load' = [load EXCEPT ![q] = {outbox[s] : s \in rows}]
      BY <1>2, <2>4 DEF ReadBatch, rows
    <3>. QED
      BY <1>2, <2>2, <2>4, <3>1, <3>2, <3>3 DEF ReadBatch, DrainOK, rows
  <2>. QED
    BY <2>3, <2>4
<1>3. ASSUME NEW q \in Queue, MarkSent(q) \/ Deliver(q) \/ Acknowledge(q) PROVE DrainOK'
  BY <1>3 DEF MarkSent, Deliver, Acknowledge, drain, DrainOK
<1>4. ASSUME NEW q \in Queue, Advance(q) PROVE DrainOK'
  BY <1>4, LeaveTyped DEF Advance, Busy, DrainOK
<1>5. ASSUME NEW q \in Queue, FailCall(q) \/ FailStatement(q) PROVE DrainOK'
  BY <1>5, FinishTyped DEF FailCall, FailStatement
<1>6. CASE StartScheduled \/ StartForced
  BY <1>6, StartTyped DEF StartScheduled, StartForced
<1>7. CASE Restart
  BY <1>7 DEF Restart, DrainOK
<1>8. CASE \/ \E w \in Writer : Enqueue(w) \/ CommitRows(w) \/ RollbackRows(w)
           \/ ChangeSettings \/ DeliverLate \/ LoseLate \/ Tick \/ UNCHANGED vars
  BY <1>8, DrainStays DEF Enqueue, CommitRows, RollbackRows, ChangeSettings, DeliverLate,
                          LoseLate, Tick, vars
<1>. QED
  BY <1>1, <1>2, <1>3, <1>4, <1>5, <1>6, <1>7, <1>8 DEF Next, DrainStep

\* What a server makes of a call it may get.
LEMMA ServeTyped ==
  ASSUME NEW m \in [url : Url, target : Target, daily : BOOLEAN, events : SUBSET Event],
         WorldOK, Serve(m), UNCHANGED crashes, late' \subseteq late
  PROVE  WorldOK'
<1>1. {<<m.url, m.target, e>> : e \in m.events} \subseteq Url \X Target \X Event
  OBVIOUS
<1>. QED
  BY <1>1 DEF WorldOK, Serve

LEMMA WorldStep == Basics /\ [Next]_vars => WorldOK'
<1>. SUFFICES ASSUME Basics, [Next]_vars PROVE WorldOK'
  OBVIOUS
<1>. USE ClientAssumption DEF Basics
<1>1. ASSUME NEW q \in Queue, Deliver(q) PROVE WorldOK'
  BY <1>1, ServeTyped, CallTyped DEF Deliver
<1>2. CASE DeliverLate
  BY <1>2, ServeTyped DEF DeliverLate, WorldOK
<1>3. ASSUME NEW q \in Queue, FailCall(q) PROVE WorldOK'
  BY <1>3, CallTyped DEF FailCall, Abandon, WorldOK
<1>4. CASE Restart
  <2>1. \A q \in Queue : qpc[q] = "posted" =>
          Call(q) \in [url : Url, target : Target, daily : BOOLEAN, events : SUBSET Event]
    BY CallTyped
  <2>2. late' \subseteq [url : Url, target : Target, daily : BOOLEAN, events : SUBSET Event]
    BY <1>4, <2>1 DEF Restart, Abandon, WorldOK
  <2>. QED
    BY <1>4, <2>2 DEF Restart, WorldOK
<1>5. CASE LoseLate
  BY <1>5 DEF LoseLate, WorldOK
<1>6. CASE UNCHANGED world
  BY <1>6 DEF world, WorldOK
<1>7. CASE \/ \E w \in Writer : Enqueue(w) \/ CommitRows(w) \/ RollbackRows(w)
           \/ ChangeSettings \/ StartScheduled \/ StartForced \/ Tick \/ UNCHANGED vars
           \/ \E q \in Queue : DrainStep(q) \/ Acknowledge(q) \/ FailStatement(q)
  BY <1>6, <1>7 DEF Enqueue, CommitRows, RollbackRows, ChangeSettings, StartScheduled, StartForced,
                    Start, Tick, vars, DrainStep, Peek, ReadBatch, MarkSent, Advance, Acknowledge,
                    FailStatement
<1>. QED
  BY <1>1, <1>2, <1>3, <1>4, <1>5, <1>7 DEF Next

LEMMA BasicsStep == Basics /\ [Next]_vars => Basics'
BY DatabaseStep, AppStep, DrainTypes, WorldStep DEF Basics

(***************************************************************************)
(* Every variable of the upload path keeps its type, and a drain always    *)
(* works for a target.                                                     *)
(***************************************************************************)
THEOREM ClientTypes == Spec => []TypeOK
<1>1. Spec => []Basics
  BY BasicsInit, BasicsStep, PTL DEF Spec
<1>. QED
  BY <1>1, BasicsTypeOK, PTL

(***************************************************************************)
(* The cursor.                                                             *)
(***************************************************************************)
LEMMA CursorGrows ==
  ASSUME Basics, [Next]_vars, NEW t \in Target
  PROVE  cursor'[t] >= cursor[t]
<1>. USE ClientAssumption DEF Basics, DatabaseOK
<1>1. CASE UNCHANGED cursor
  BY <1>1
<1>2. ASSUME NEW q \in Queue, Advance(q) PROVE cursor'[t] >= cursor[t]
  BY <1>2 DEF Advance, Greatest, DrainOK
<1>3. CASE \E q \in Queue : Peek(q) \/ ReadBatch(q) \/ MarkSent(q) \/ Deliver(q)
                            \/ Acknowledge(q) \/ FailCall(q) \/ FailStatement(q)
  BY <1>1, <1>3 DEF Peek, ReadBatch, MarkSent, Deliver, Acknowledge, FailCall, FailStatement, database
<1>4. CASE \/ \E w \in Writer : Enqueue(w) \/ CommitRows(w) \/ RollbackRows(w)
           \/ ChangeSettings \/ StartScheduled \/ StartForced
           \/ DeliverLate \/ LoseLate \/ Tick \/ Restart \/ UNCHANGED vars
  BY <1>1, <1>4 DEF Enqueue, CommitRows, RollbackRows, ChangeSettings, StartScheduled, StartForced,
                    Start, DeliverLate, LoseLate, Tick, Restart, vars, database
<1>. QED
  BY <1>2, <1>3, <1>4 DEF Next, DrainStep

(***************************************************************************)
(* last_sent_seq never decreases, whatever drains overlap.                 *)
(***************************************************************************)
THEOREM ClientCursorMonotone == Spec => CursorMonotone
<1>1. Basics /\ [Next]_vars => [\A t \in Target : cursor'[t] >= cursor[t]]_vars
  BY CursorGrows
<1>. QED
  BY <1>1, BasicsInit, BasicsStep, PTL DEF Spec, CursorMonotone

(***************************************************************************)
(* The cadence gate.                                                       *)
(***************************************************************************)
LEMMA GateInit == Init => GateKept
BY DEF Init, GateKept

\* Without a recorded upload a drain past the gate stays right.
LEMMA GateHolds ==
  ASSUME Basics, GateKept, NEW p \in Queue,
         qpc'[p] \notin {"idle", "peek"}, ~force'[p], p \notin overtaken',
         qpc[p] \notin {"idle", "peek"}, force'[p] = force[p], target'[p] = target[p],
         p \notin overtaken, \A t \in Target : age'[t] >= age[t]
  PROVE  age'[target'[p]] >= Interval
BY ClientAssumption, BasicsStep DEF Basics, DatabaseOK, DrainOK, GateKept

LEMMA GateStep == Basics /\ GateKept /\ [Next]_vars => GateKept'
<1>. SUFFICES ASSUME Basics, GateKept, [Next]_vars, NEW p \in Queue,
                     qpc'[p] \notin {"idle", "peek"}, ~force'[p], p \notin overtaken'
              PROVE  age'[target'[p]] >= Interval
  BY DEF GateKept
<1>. USE ClientAssumption DEF Basics, DatabaseOK, DrainOK
<1>1. CASE UNCHANGED <<qpc, drain, age>>
  BY <1>1 DEF drain, GateKept
<1>2. ASSUME NEW q \in Queue, Peek(q) PROVE age'[target'[p]] >= Interval
  BY <1>2 DEF Peek, RateLimited, Finish, Leave, database, GateKept
<1>3. ASSUME NEW q \in Queue, ReadBatch(q) \/ FailCall(q) \/ FailStatement(q)
      PROVE  age'[target'[p]] >= Interval
  <2>1. CASE Finish(q) /\ UNCHANGED database
    BY <2>1 DEF Finish, Leave, database, GateKept
  <2>2. CASE ReadBatch(q) /\ ~Finish(q)
    BY <2>2 DEF ReadBatch, database, GateKept
  <2>. QED
    BY <1>3, <2>1, <2>2 DEF ReadBatch, FailCall, FailStatement
<1>4. ASSUME NEW q \in Queue, MarkSent(q) \/ Deliver(q) \/ Acknowledge(q)
      PROVE  age'[target'[p]] >= Interval
  BY <1>4 DEF MarkSent, Deliver, Acknowledge, database, drain, GateKept
<1>5. ASSUME NEW q \in Queue, Advance(q) PROVE age'[target'[p]] >= Interval
  BY <1>5 DEF Advance, Leave, Busy, GateKept
<1>6. ASSUME NEW q \in Queue, NEW forced, Start(q, forced) PROVE age'[target'[p]] >= Interval
  BY <1>6 DEF Start, database, GateKept
<1>7. CASE Tick
  <2>1. UNCHANGED <<qpc, drain>> /\ \A t \in Target : age'[t] >= age[t]
    BY <1>7 DEF Tick
  <2>2. age' \in [Target -> 0..Interval]
    BY <1>7, DatabaseStep
  <2>. QED
    BY <2>1, <2>2 DEF drain, GateKept
<1>8. CASE Restart
  BY <1>8 DEF Restart
<1>9. CASE \/ \E w \in Writer : Enqueue(w) \/ CommitRows(w) \/ RollbackRows(w)
           \/ ChangeSettings \/ DeliverLate \/ LoseLate \/ UNCHANGED vars
  BY <1>1, <1>9 DEF Enqueue, CommitRows, RollbackRows, ChangeSettings, DeliverLate, LoseLate,
                    database, vars
<1>. QED
  BY <1>2, <1>3, <1>4, <1>5, <1>6, <1>7, <1>8, <1>9 DEF Next, DrainStep, StartScheduled, StartForced

(***************************************************************************)
(* Scheduled uploads of a target that no other instance overtakes are at   *)
(* least intervalMs apart.                                                 *)
(***************************************************************************)
THEOREM ClientCadence == Spec => []CadenceKept
<1>1. Init => Basics /\ GateKept
  BY BasicsInit, GateInit
<1>2. Basics /\ GateKept /\ [Next]_vars => (Basics /\ GateKept)'
  BY BasicsStep, GateStep
<1>3. GateKept => CadenceKept
  BY DEF GateKept, CadenceKept
<1>. QED
  BY <1>1, <1>2, <1>3, PTL DEF Spec

(***************************************************************************)
(* One writer at a time and one target: nothing is left behind.            *)
(***************************************************************************)
Alone == /\ \A v, w \in Writer : v = w
         /\ \A t, u \in Target : t = u

\* Numbers are drawn in the order in which the rows become visible.
RowsOrdered ==
  /\ \A s \in Committed : s < nextSeq
  /\ \A w \in Writer : \A x \in mine[w] :
       x[1] < nextSeq /\ \A s \in Committed : s < x[1]

\* Cursors, and what drains remember of them, point at visible rows.
Points ==
  /\ sent \subseteq Committed
  /\ \A t \in Target : cursor[t] \in Committed \cup {0}
  /\ \A q \in Queue : base[q] \in Committed \cup {0} /\ top[q] \in Committed \cup {0}

\* What lies below the batch of a drain has been uploaded, the rest is in it.
BaseReached ==
  \A q \in Queue : qpc[q] = "read" =>
    \A s \in Committed : s <= base[q] => Reached(target[q], outbox[s])

BatchCovers ==
  \A q \in Queue : qpc[q] \in {"posted", "served", "acked", "advance"} =>
    \A s \in Committed : s <= top[q] =>
      outbox[s] \in load[q] \/ Reached(target[q], outbox[s])

BatchServed ==
  \A q \in Queue : qpc[q] \in {"served", "acked", "advance"} =>
    \A e \in load[q] : Reached(target[q], e)

Upload == RowsOrdered /\ Points /\ BaseReached /\ BatchCovers /\ BatchServed
          /\ SentReachedServer /\ CursorSkipsNothing

LEMMA UploadInit == Init => Upload
BY ClientAssumption DEF Init, Upload, RowsOrdered, Points, BaseReached, BatchCovers, BatchServed,
                        SentReachedServer, CursorSkipsNothing, Committed

\* Visible rows stay, and new ones come after all of them.
LEMMA RowsStay ==
  ASSUME Alone, Basics, RowsOrdered, [Next]_vars
  PROVE  /\ \A s \in Committed : s \in Committed' /\ outbox'[s] = outbox[s]
         /\ \A n \in Committed' \ Committed : \A s \in Committed : s < n
<1>. USE ClientAssumption DEF Basics, DatabaseOK, Committed
<1>1. CASE UNCHANGED outbox
  BY <1>1
<1>2. ASSUME NEW w \in Writer, CommitRows(w)
      PROVE  /\ \A s \in Committed : s \in Committed' /\ outbox'[s] = outbox[s]
             /\ \A n \in Committed' \ Committed : \A s \in Committed : s < n
  <2>1. \A s \in Committed : ~\E e \in Event : <<s, e>> \in mine[w]
    <3>. SUFFICES ASSUME NEW s \in Committed, NEW e \in Event, <<s, e>> \in mine[w] PROVE FALSE
      OBVIOUS
    <3>. QED
      BY DEF RowsOrdered, SeqNo
  <2>2. \A s \in Committed : outbox'[s] = outbox[s]
    BY <1>2, <2>1 DEF CommitRows
  <2>3. \A n \in Committed' \ Committed : \E e \in Event : <<n, e>> \in mine[w]
    BY <1>2 DEF CommitRows
  <2>4. \A n \in Committed' \ Committed : \A s \in Committed : s < n
    <3>. SUFFICES ASSUME NEW n \in Committed' \ Committed, NEW s \in Committed PROVE s < n
      OBVIOUS
    <3>1. PICK e \in Event : <<n, e>> \in mine[w]
      BY <2>3
    <3>. QED
      BY <3>1 DEF RowsOrdered
  <2>. QED
    BY <2>2, <2>4
<1>3. CASE \E q \in Queue : DrainStep(q) \/ Deliver(q) \/ Acknowledge(q) \/ FailCall(q) \/ FailStatement(q)
  BY <1>1, <1>3 DEF DrainStep, Peek, ReadBatch, MarkSent, Advance, Deliver, Acknowledge, FailCall,
                    FailStatement, database
<1>4. CASE \/ \E w \in Writer : Enqueue(w) \/ RollbackRows(w)
           \/ ChangeSettings \/ StartScheduled \/ StartForced
           \/ DeliverLate \/ LoseLate \/ Tick \/ Restart \/ UNCHANGED vars
  BY <1>1, <1>4 DEF Enqueue, RollbackRows, ChangeSettings, StartScheduled, StartForced,
                    Start, DeliverLate, LoseLate, Tick, Restart, vars, database
<1>. QED
  BY <1>2, <1>3, <1>4 DEF Next

\* Up to an old row, or none, all rows are old.
LEMMA OldBelow ==
  ASSUME Alone, Basics, RowsOrdered, [Next]_vars,
         NEW c \in Committed \cup {0}, NEW s \in Committed', s <= c
  PROVE  s \in Committed /\ outbox'[s] = outbox[s]
<1>1. s \in SeqNo /\ c \in Nat /\ s \in Nat \ {0}
  BY DEF Committed, SeqNo
<1>2. s \in Committed
  BY <1>1, RowsStay
<1>. QED
  BY <1>2, RowsStay

\* Servers forget nothing.
\* Reached, after the step.
After(t, e) == \E u \in Url : <<u, t, e>> \in served'

LEMMA ReachedStays ==
  ASSUME [Next]_vars, NEW t, NEW e, Reached(t, e)
  PROVE  After(t, e)
<1>. SUFFICES served \subseteq served'
  BY DEF Reached, After
<1>1. CASE UNCHANGED served
  BY <1>1
<1>2. CASE DeliverLate \/ \E q \in Queue : Deliver(q)
  BY <1>2 DEF DeliverLate, Deliver, Serve
<1>3. CASE \E q \in Queue : DrainStep(q) \/ Acknowledge(q) \/ FailCall(q) \/ FailStatement(q)
  BY <1>1, <1>3 DEF DrainStep, Peek, ReadBatch, MarkSent, Advance, Acknowledge, FailCall,
                    FailStatement, world
<1>4. CASE \/ \E w \in Writer : Enqueue(w) \/ CommitRows(w) \/ RollbackRows(w)
           \/ ChangeSettings \/ StartScheduled \/ StartForced
           \/ LoseLate \/ Tick \/ Restart \/ UNCHANGED vars
  BY <1>1, <1>4 DEF Enqueue, CommitRows, RollbackRows, ChangeSettings, StartScheduled, StartForced,
                    Start, LoseLate, Tick, Restart, vars, world
<1>. QED
  BY <1>2, <1>3, <1>4 DEF Next

\* What a step does to a drain: it ends or begins, moves on, or stands still.
Still(p) == /\ qpc'[p] = qpc[p] /\ target'[p] = target[p] /\ base'[p] = base[p]
            /\ top'[p] = top[p] /\ load'[p] = load[p]

LEMMA OneDrain ==
  ASSUME Basics, [Next]_vars, NEW p \in Queue
  PROVE  \/ qpc'[p] \in {"idle", "peek"}
         \/ Peek(p) \/ ReadBatch(p) \/ Deliver(p) \/ Acknowledge(p) \/ MarkSent(p)
         \/ Still(p)
<1>. USE DEF Basics, DrainOK, Still
<1>1. CASE UNCHANGED <<qpc, drain>>
  BY <1>1 DEF drain
<1>2. ASSUME NEW q \in Queue, DrainStep(q), q # p PROVE Still(p)
  BY <1>2 DEF DrainStep, Peek, ReadBatch, MarkSent, Advance, Finish, Leave, drain
<1>3. CASE DrainStep(p)
  BY <1>3 DEF DrainStep, Advance, Leave
<1>4. ASSUME NEW q \in Queue, Deliver(q) \/ Acknowledge(q), q # p PROVE Still(p)
  BY <1>4 DEF Deliver, Acknowledge, drain
<1>5. ASSUME NEW q \in Queue, FailCall(q) \/ FailStatement(q)
      PROVE  qpc'[p] = "idle" \/ Still(p)
  BY <1>5 DEF FailCall, FailStatement, Finish, Leave
<1>6. ASSUME NEW q \in Queue, NEW forced, Start(q, forced) PROVE qpc'[p] = "peek" \/ Still(p)
  BY <1>6 DEF Start
<1>7. CASE Restart
  BY <1>7 DEF Restart
<1>8. CASE \/ \E w \in Writer : Enqueue(w) \/ CommitRows(w) \/ RollbackRows(w)
           \/ ChangeSettings \/ DeliverLate \/ LoseLate \/ Tick \/ UNCHANGED vars
  BY <1>1, <1>8 DEF Enqueue, CommitRows, RollbackRows, ChangeSettings, DeliverLate, LoseLate,
                    Tick, vars
<1>. QED
  BY <1>2, <1>3, <1>4, <1>5, <1>6, <1>7, <1>8 DEF Next, StartScheduled, StartForced

LEMMA RowsOrderedStep ==
  ASSUME Alone, Basics, RowsOrdered, [Next]_vars
  PROVE  RowsOrdered'
<1>. USE ClientAssumption DEF Basics, DatabaseOK, Committed, RowsOrdered
<1>1. CASE UNCHANGED <<outbox, nextSeq, mine>>
  BY <1>1
<1>2. ASSUME NEW w \in Writer, Enqueue(w) PROVE RowsOrdered'
  BY <1>2 DEF Enqueue, Alone, SeqNo
<1>3. ASSUME NEW w \in Writer, CommitRows(w) PROVE RowsOrdered'
  <2>1. \A n \in Committed' : n < nextSeq'
    BY <1>3 DEF CommitRows
  <2>2. \A v \in Writer : mine'[v] = {}
    BY <1>3 DEF CommitRows, Alone
  <2>. QED
    BY <2>1, <2>2
<1>4. CASE Restart \/ \E w \in Writer : RollbackRows(w)
  BY <1>4 DEF Restart, RollbackRows
<1>5. CASE \E q \in Queue : DrainStep(q) \/ Deliver(q) \/ Acknowledge(q) \/ FailCall(q) \/ FailStatement(q)
  BY <1>1, <1>5 DEF DrainStep, Peek, ReadBatch, MarkSent, Advance, Deliver, Acknowledge, FailCall,
                    FailStatement, database
<1>6. CASE \/ ChangeSettings \/ StartScheduled \/ StartForced
           \/ DeliverLate \/ LoseLate \/ Tick \/ UNCHANGED vars
  BY <1>1, <1>6 DEF ChangeSettings, StartScheduled, StartForced,
                    Start, DeliverLate, LoseLate, Tick, vars, database
<1>. QED
  BY <1>2, <1>3, <1>4, <1>5, <1>6 DEF Next

\* A batch leaves out no pending row below its last one.
LEMMA BatchRows ==
  ASSUME Basics, NEW b \in 0..MaxSeq, NEW m \in FirstPending(b),
         NEW s \in Pending(b), s <= m
  PROVE  s \in FirstPending(b)
<1>. USE ClientAssumption DEF FirstPending, Pending, Committed, SeqNo
<1>1. IsFiniteSet(1..MaxSeq)
  BY FS_Interval
<1>2. IsFiniteSet({r \in Pending(b) : r < m}) /\ IsFiniteSet({r \in Pending(b) : r < s})
  BY <1>1, FS_Subset
<1>3. {r \in Pending(b) : r < s} \subseteq {r \in Pending(b) : r < m}
  OBVIOUS
<1>4. Cardinality({r \in Pending(b) : r < s}) <= Cardinality({r \in Pending(b) : r < m})
  BY <1>2, <1>3, FS_Subset
<1>5. /\ Cardinality({r \in Pending(b) : r < s}) \in Nat
      /\ Cardinality({r \in Pending(b) : r < m}) \in Nat
  BY <1>2, FS_CardinalityType
<1>. QED
  BY <1>4, <1>5

LEMMA PointsStep ==
  ASSUME Alone, Basics, RowsOrdered, Points, [Next]_vars
  PROVE  Points'
<1>. USE DEF Points
<1>0. Committed \subseteq Committed'
  BY RowsStay
<1>1. sent' \subseteq Committed'
  <2>1. CASE sent' \subseteq sent \cup Committed
    BY <2>1, <1>0
  <2>2. CASE \E q \in Queue : DrainStep(q) \/ Deliver(q) \/ Acknowledge(q) \/ FailCall(q) \/ FailStatement(q)
    BY <2>1, <2>2 DEF DrainStep, Peek, ReadBatch, MarkSent, Advance, Deliver, Acknowledge, FailCall,
                      FailStatement, database
  <2>3. CASE \/ \E w \in Writer : Enqueue(w) \/ CommitRows(w) \/ RollbackRows(w)
             \/ ChangeSettings \/ StartScheduled \/ StartForced
             \/ DeliverLate \/ LoseLate \/ Tick \/ Restart \/ UNCHANGED vars
    BY <2>1, <2>3 DEF Enqueue, CommitRows, RollbackRows, ChangeSettings, StartScheduled, StartForced,
                      Start, DeliverLate, LoseLate, Tick, Restart, vars, database
  <2>. QED
    BY <2>2, <2>3 DEF Next
<1>2. ASSUME NEW t \in Target PROVE cursor'[t] \in Committed' \cup {0}
  <2>1. CASE UNCHANGED cursor
    BY <2>1, <1>0
  <2>2. ASSUME NEW q \in Queue, Advance(q) PROVE cursor'[t] \in Committed' \cup {0}
    BY <2>2, <1>0 DEF Advance, Greatest, Basics, DatabaseOK
  <2>3. CASE \E q \in Queue : Peek(q) \/ ReadBatch(q) \/ MarkSent(q) \/ Deliver(q)
                              \/ Acknowledge(q) \/ FailCall(q) \/ FailStatement(q)
    BY <2>1, <2>3 DEF Peek, ReadBatch, MarkSent, Deliver, Acknowledge, FailCall, FailStatement, database
  <2>4. CASE \/ \E w \in Writer : Enqueue(w) \/ CommitRows(w) \/ RollbackRows(w)
             \/ ChangeSettings \/ StartScheduled \/ StartForced
             \/ DeliverLate \/ LoseLate \/ Tick \/ Restart \/ UNCHANGED vars
    BY <2>1, <2>4 DEF Enqueue, CommitRows, RollbackRows, ChangeSettings, StartScheduled, StartForced,
                      Start, DeliverLate, LoseLate, Tick, Restart, vars, database
  <2>. QED
    BY <2>2, <2>3, <2>4 DEF Next, DrainStep
<1>3. ASSUME NEW p \in Queue PROVE base'[p] \in Committed' \cup {0} /\ top'[p] \in Committed' \cup {0}
  <2>. USE DEF Basics, DrainOK
  <2>1. CASE UNCHANGED <<base, top>>
    BY <2>1, <1>0
  <2>2. ASSUME NEW q \in Queue, Finish(q)
        PROVE  base'[p] \in Committed' \cup {0} /\ top'[p] \in Committed' \cup {0}
    BY <2>2, <1>0 DEF Finish, Leave
  <2>3. ASSUME NEW q \in Queue, Peek(q), ~Finish(q)
        PROVE  base'[p] \in Committed' \cup {0} /\ top'[p] \in Committed' \cup {0}
    BY <2>3, <1>0 DEF Peek
  <2>4. ASSUME NEW q \in Queue, ReadBatch(q), ~Finish(q)
        PROVE  base'[p] \in Committed' \cup {0} /\ top'[p] \in Committed' \cup {0}
    <3>1. FirstPending(base[q]) \subseteq Committed
      BY DEF FirstPending, Pending
    <3>2. base' = base /\ \E m \in FirstPending(base[q]) : top' = [top EXCEPT ![q] = m]
      BY <2>4 DEF ReadBatch
    <3>. QED
      BY <3>1, <3>2, <1>0
  <2>5. ASSUME NEW q \in Queue, Advance(q)
        PROVE  base'[p] \in Committed' \cup {0} /\ top'[p] \in Committed' \cup {0}
    BY <2>5, <1>0 DEF Advance, Leave
  <2>6. CASE \E q \in Queue : MarkSent(q) \/ Deliver(q) \/ Acknowledge(q)
    BY <2>1, <2>6 DEF MarkSent, Deliver, Acknowledge, drain
  <2>7. CASE Restart
    BY <2>7 DEF Restart
  <2>8. CASE \/ \E w \in Writer : Enqueue(w) \/ CommitRows(w) \/ RollbackRows(w)
             \/ ChangeSettings \/ StartScheduled \/ StartForced
             \/ DeliverLate \/ LoseLate \/ Tick \/ UNCHANGED vars
    BY <2>1, <2>8 DEF Enqueue, CommitRows, RollbackRows, ChangeSettings, StartScheduled, StartForced,
                      Start, DeliverLate, LoseLate, Tick, vars, drain
  <2>. QED
    BY <2>2, <2>3, <2>4, <2>5, <2>6, <2>7, <2>8 DEF Next, DrainStep, FailCall, FailStatement
<1>. QED
  BY <1>1, <1>2, <1>3

LEMMA BaseReachedStep ==
  ASSUME Alone, Basics, Upload, [Next]_vars
  PROVE  BaseReached'
<1>. SUFFICES ASSUME NEW p \in Queue, qpc'[p] = "read", NEW s \in Committed', s <= base'[p]
              PROVE  After(target'[p], outbox'[s])
  BY DEF BaseReached, Reached, After
<1>. USE DEF Upload
<1>1. base'[p] \in Committed \cup {0} => s \in Committed /\ outbox'[s] = outbox[s]
  BY OldBelow
<1>2. CASE Peek(p)
  <2>1. base'[p] = cursor[target[p]] /\ target'[p] = target[p] /\ target[p] \in Target
    BY <1>2 DEF Peek, Finish, Leave, Basics, DrainOK
  <2>2. s \in Committed /\ outbox'[s] = outbox[s]
    BY <1>1, <2>1 DEF Points
  <2>3. Reached(target[p], outbox[s])
    BY <2>1, <2>2 DEF CursorSkipsNothing
  <2>. QED
    BY <2>1, <2>2, <2>3, ReachedStays
<1>3. CASE Still(p)
  <2>1. s \in Committed /\ outbox'[s] = outbox[s]
    BY <1>1, <1>3 DEF Points, Still
  <2>2. Reached(target[p], outbox[s])
    BY <1>3, <2>1 DEF BaseReached, Still
  <2>. QED
    BY <1>3, <2>1, <2>2, ReachedStays DEF Still
<1>4. CASE ReadBatch(p) \/ Deliver(p) \/ Acknowledge(p) \/ MarkSent(p)
  BY <1>4 DEF ReadBatch, Deliver, Acknowledge, MarkSent, Finish, Leave, Basics, DrainOK
<1>. QED
  BY <1>2, <1>3, <1>4, OneDrain

\* What a drain reads covers everything up to its last row: rows at or below the
\* base and rows marked sent have been uploaded.
LEMMA ReadCovers ==
  ASSUME Alone, Basics, Upload, NEW p \in Queue, ReadBatch(p), qpc'[p] = "posted",
         NEW s \in Committed, s <= top'[p]
  PROVE  outbox[s] \in load'[p] \/ Reached(target[p], outbox[s])
<1>. DEFINE rows == FirstPending(base[p])
<1>1. rows # {}
  BY DEF ReadBatch, Finish, Leave, Basics, DrainOK
<1>2. load' = [load EXCEPT ![p] = {outbox[x] : x \in rows}]
      /\ \E m \in rows : top' = [top EXCEPT ![p] = m]
  BY <1>1 DEF ReadBatch
<1>3. top'[p] \in rows /\ load'[p] = {outbox[x] : x \in rows}
  BY <1>2 DEF Basics, DrainOK
<1>4. base[p] \in 0..MaxSeq /\ target[p] \in Target /\ qpc[p] = "read"
  BY DEF ReadBatch, Basics, DrainOK
<1>5. CASE s <= base[p]
  BY <1>4, <1>5 DEF Upload, BaseReached
<1>6. CASE s \in sent
  <2>1. PICK t \in Target : Reached(t, outbox[s])
    BY <1>6 DEF Upload, SentReachedServer
  <2>. QED
    BY <2>1, <1>4 DEF Alone
<1>7. CASE ~(s <= base[p]) /\ s \notin sent
  <2>1. s \in Pending(base[p])
    BY <1>4, <1>7 DEF Pending, Committed, SeqNo
  <2>2. s \in rows
    BY <1>3, <1>4, <2>1, BatchRows
  <2>. QED
    BY <1>3, <2>2
<1>. QED
  BY <1>5, <1>6, <1>7

LEMMA BatchCoversStep ==
  ASSUME Alone, Basics, Upload, [Next]_vars
  PROVE  BatchCovers'
<1>. SUFFICES ASSUME NEW p \in Queue, qpc'[p] \in {"posted", "served", "acked", "advance"},
                     NEW s \in Committed', s <= top'[p]
              PROVE  outbox'[s] \in load'[p] \/ After(target'[p], outbox'[s])
  BY DEF BatchCovers, Reached, After
<1>. USE DEF Upload
<1>1. CASE ReadBatch(p)
  <2>1. /\ qpc'[p] = "posted" /\ target'[p] = target[p] /\ outbox' = outbox
    BY <1>1 DEF ReadBatch, Finish, Leave, Basics, DrainOK, database
  <2>2. outbox[s] \in load'[p] \/ Reached(target[p], outbox[s])
    BY <1>1, <2>1, ReadCovers DEF Committed
  <2>. QED
    BY <2>1, <2>2, ReachedStays
<1>2. CASE /\ qpc[p] \in {"posted", "served", "acked", "advance"}
           /\ target'[p] = target[p] /\ top'[p] = top[p] /\ load'[p] = load[p]
  <2>1. s \in Committed /\ outbox'[s] = outbox[s]
    BY <1>2, OldBelow DEF Points
  <2>2. outbox[s] \in load[p] \/ Reached(target[p], outbox[s])
    BY <1>2, <2>1 DEF BatchCovers
  <2>. QED
    BY <1>2, <2>1, <2>2, ReachedStays
<1>3. CASE Peek(p)
  BY <1>3 DEF Peek, Finish, Leave, Basics, DrainOK
<1>. QED
  BY <1>1, <1>2, <1>3, OneDrain DEF Still, Deliver, Acknowledge, MarkSent, drain

LEMMA BatchServedStep ==
  ASSUME Alone, Basics, Upload, [Next]_vars
  PROVE  BatchServed'
<1>. SUFFICES ASSUME NEW p \in Queue, qpc'[p] \in {"served", "acked", "advance"}, NEW e \in load'[p]
              PROVE  After(target'[p], e)
  BY DEF BatchServed, Reached, After
<1>. USE DEF Upload
<1>1. CASE Deliver(p)
  BY <1>1 DEF Deliver, Serve, Call, After, drain, Basics, AppOK
<1>2. CASE /\ qpc[p] \in {"served", "acked", "advance"}
           /\ target'[p] = target[p] /\ load'[p] = load[p]
  BY <1>2, ReachedStays DEF BatchServed
<1>3. CASE Peek(p) \/ ReadBatch(p)
  BY <1>3 DEF Peek, ReadBatch, Finish, Leave, Basics, DrainOK
<1>. QED
  BY <1>1, <1>2, <1>3, OneDrain DEF Still, Acknowledge, MarkSent, drain

\* A drain whose batch was served has brought everything up to its last row.
LEMMA TopReached ==
  ASSUME Basics, Upload, NEW p \in Queue, qpc[p] \in {"acked", "advance"},
         NEW s \in Committed, s <= top[p]
  PROVE  Reached(target[p], outbox[s])
BY DEF Upload, BatchCovers, BatchServed

LEMMA SentStep ==
  ASSUME Alone, Basics, Upload, [Next]_vars
  PROVE  SentReachedServer'
<1>. SUFFICES ASSUME NEW s \in sent' PROVE \E t \in Target : After(t, outbox'[s])
  BY DEF SentReachedServer, Reached, After
<1>. USE DEF Upload
<1>1. CASE s \in sent
  <2>1. s \in Committed /\ outbox'[s] = outbox[s]
    BY <1>1, RowsStay DEF Points
  <2>. QED
    BY <1>1, <2>1, ReachedStays DEF SentReachedServer
<1>2. ASSUME NEW q \in Queue, MarkSent(q), s \notin sent
      PROVE  \E t \in Target : After(t, outbox'[s])
  <2>1. s \in Committed /\ s <= top[q] /\ qpc[q] = "acked" /\ outbox' = outbox
    BY <1>2 DEF MarkSent
  <2>. QED
    BY <2>1, TopReached, ReachedStays DEF Basics, DrainOK
<1>3. CASE sent' \subseteq sent
  BY <1>1, <1>3
<1>4. CASE \E q \in Queue : \/ Peek(q) \/ ReadBatch(q) \/ Advance(q) \/ Deliver(q) \/ Acknowledge(q)
                            \/ FailCall(q) \/ FailStatement(q)
  BY <1>3, <1>4 DEF Peek, ReadBatch, Advance, Deliver, Acknowledge, FailCall, FailStatement, database
<1>5. CASE \/ \E w \in Writer : Enqueue(w) \/ CommitRows(w) \/ RollbackRows(w)
           \/ ChangeSettings \/ StartScheduled \/ StartForced
           \/ DeliverLate \/ LoseLate \/ Tick \/ Restart \/ UNCHANGED vars
  BY <1>3, <1>5 DEF Enqueue, CommitRows, RollbackRows, ChangeSettings, StartScheduled, StartForced,
                    Start, DeliverLate, LoseLate, Tick, Restart, vars, database
<1>. QED
  BY <1>1, <1>2, <1>4, <1>5 DEF Next, DrainStep

LEMMA CursorStep ==
  ASSUME Alone, Basics, Upload, [Next]_vars
  PROVE  CursorSkipsNothing'
<1>. SUFFICES ASSUME NEW t \in Target, NEW s \in Committed', s <= cursor'[t]
              PROVE  After(t, outbox'[s])
  BY DEF CursorSkipsNothing, Reached, After
<1>. USE DEF Upload
<1>1. CASE cursor'[t] = cursor[t]
  <2>1. s \in Committed /\ outbox'[s] = outbox[s]
    BY <1>1, OldBelow DEF Points
  <2>. QED
    BY <1>1, <2>1, ReachedStays DEF CursorSkipsNothing
<1>2. ASSUME NEW q \in Queue, Advance(q), cursor'[t] # cursor[t]
      PROVE  After(t, outbox'[s])
  <2>1. t = target[q] /\ cursor'[t] = top[q] /\ outbox' = outbox /\ qpc[q] = "advance"
    BY <1>2 DEF Advance, Greatest, Basics, DatabaseOK
  <2>2. s \in Committed
    BY <2>1 DEF Committed
  <2>. QED
    BY <2>1, <2>2, TopReached, ReachedStays
<1>3. CASE \E q \in Queue : \/ Peek(q) \/ ReadBatch(q) \/ MarkSent(q) \/ Deliver(q) \/ Acknowledge(q)
                            \/ FailCall(q) \/ FailStatement(q)
  BY <1>1, <1>3 DEF Peek, ReadBatch, MarkSent, Deliver, Acknowledge, FailCall, FailStatement, database
<1>4. CASE \/ \E w \in Writer : Enqueue(w) \/ CommitRows(w) \/ RollbackRows(w)
           \/ ChangeSettings \/ StartScheduled \/ StartForced
           \/ DeliverLate \/ LoseLate \/ Tick \/ Restart \/ UNCHANGED vars
  BY <1>1, <1>4 DEF Enqueue, CommitRows, RollbackRows, ChangeSettings, StartScheduled, StartForced,
                    Start, DeliverLate, LoseLate, Tick, Restart, vars, database
<1>. QED
  BY <1>1, <1>2, <1>3, <1>4 DEF Next, DrainStep

LEMMA UploadStep == Alone /\ Basics /\ Upload /\ [Next]_vars => Upload'
BY RowsOrderedStep, PointsStep, BaseReachedStep, BatchCoversStep, BatchServedStep,
   SentStep, CursorStep DEF Upload

LEMMA UploadAlways == ASSUME Alone PROVE Spec => [](Basics /\ Upload)
<1>1. Init => Basics /\ Upload
  BY BasicsInit, UploadInit
<1>2. Basics /\ Upload /\ [Next]_vars => (Basics /\ Upload)'
  BY BasicsStep, UploadStep
<1>. QED
  BY <1>1, <1>2, PTL DEF Spec

(***************************************************************************)
(* With one writer and one target, a row marked sent has been processed by *)
(* a server, whatever drains, restarts and lost answers come together.     *)
(***************************************************************************)
THEOREM ClientSentReached == ASSUME Alone PROVE Spec => []SentReachedServer
<1>1. Upload => SentReachedServer
  BY DEF Upload
<1>. QED
  BY <1>1, UploadAlways, PTL

(***************************************************************************)
(* With one writer and one target, the cursor passes no row that a server  *)
(* has not processed.                                                      *)
(***************************************************************************)
THEOREM ClientCursorSkipsNothing == ASSUME Alone PROVE Spec => []CursorSkipsNothing
<1>1. Upload => CursorSkipsNothing
  BY DEF Upload
<1>. QED
  BY <1>1, UploadAlways, PTL
=============================================================================
