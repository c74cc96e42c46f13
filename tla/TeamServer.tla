----------------------------- MODULE TeamServer -----------------------------
(***************************************************************************)
(* The upload path of the team-sync server: the batchUpsert route of       *)
(* server/http.ts, TeamService.batchUpsert and upsertEvent/upsertDaily of  *)
(* server/team-service.ts, over the connection pool of server/db.ts.       *)
(*                                                                         *)
(* Each HTTP request runs one Postgres transaction.  A transaction's       *)
(* writes are private (the variables whose name starts with "my") until    *)
(* Commit publishes them; its reads see committed rows and its own writes  *)
(* (READ COMMITTED).  One action is one database round trip, so requests   *)
(* interleave wherever the code awaits.                                    *)
(*                                                                         *)
(* What Postgres does and the code relies on is modelled, not assumed      *)
(* away: the row lock that INSERT .. ON CONFLICT DO UPDATE takes on a node  *)
(* row is held until the transaction ends (NodeLocked), and a primary-key  *)
(* collision would fail the insert.  The pool hands out PoolSize           *)
(* connections and makes later callers wait without a timeout.             *)
(*                                                                         *)
(* Left out: authentication, timestamps and the response's cursor, which   *)
(* the client ignores; token and cost sums, which the rollup statement     *)
(* adds up exactly as it adds event_count.                                 *)
(***************************************************************************)
EXTENDS Naturals, Sequences, FiniteSets

CONSTANTS
  Team, User, Node,
  Local,        \* local event ids; for a daily payload, its date|provider|model
  Content,      \* distinct payload contents
  NoContent,
  Day,          \* the date|provider|model|project_hash part of a rollup key
  DayOf,        \* DayOf[c]: the Day of content c
  NoOwner,
  NotLoaded,
  NoRequest,
  Req,          \* concurrent HTTP requests
  Request,      \* the POSTs considered: [team |-> t, events |-> <<payload, ..>>]
  MaxDevices,   \* maxDevicesPerUser
  PoolSize      \* pg.Pool max

EventId == Team \X User \X Node \X Local
Bucket  == Team \X User \X Node \X Day
Owner   == Team \X User

TeamOf(id) == id[1]
UserOf(id) == id[2]
NodeOf(id) == id[3]
OwnerOf(id) == <<id[1], id[2]>>

\* The primary key of event_daily_rollup that an event is counted under.
KeyOf == [e \in EventId \X Content |->
            <<e[1][1], e[1][2], e[1][3], DayOf[e[2]]>>]

(***************************************************************************)
(* A payload: "id" holds its own team, user, node and local id, "claimed"  *)
(* the sync_event_id the client computed for it.                           *)
(***************************************************************************)
Payload == [kind : {"event", "daily"}, id : EventId, claimed : EventId,
            content : Content]

ASSUME ServerAssumption ==
  /\ IsFiniteSet(EventId)
  /\ NoContent \notin Content
  /\ NoOwner \notin Owner
  /\ \A S \in SUBSET Node : S # NotLoaded
  /\ DayOf \in [Content -> Day]
  /\ Request \subseteq [team : Team, events : Seq(Payload)]
  /\ NoRequest \notin Request
  /\ MaxDevices \in Nat
  /\ PoolSize \in Nat

VARIABLES
  \* committed tables
  members,      \* team_members.status of each <<team, user>>, "none" if no row
  nodes,        \* the <<team, user>> of each row of nodes, NoOwner if no row
  usageEvents,  \* usage_events: content per sync_event_id
  rollup,       \* event_daily_rollup.event_count
  daily,        \* daily_aggregates: latest upload per bucket
  conflicts,    \* sync_conflicts rows <<id, prior, new>>, as a set
  \* one per request
  pc,
  request,      \* the team of the URL and the payloads of the body
  verdicts,     \* "accepted", "duplicate" or "rejected" for the payloads done
  memberCache,  \* the Map memberships, per user
  deviceCache,  \* the Map userNodeSets, per user
  touched,      \* the Set touchedNodes of <<user, node>>
  myNodes,      \* uncommitted rows of nodes
  myEvents,     \* uncommitted rows of usage_events
  myDelta,      \* the Map rollupDeltas
  myDaily,      \* uncommitted rows of daily_aggregates
  myConflicts,  \* uncommitted rows of sync_conflicts
  \* history
  acked,        \* event ids some 200 response reported accepted or duplicate
  wasActive     \* owners active at some moment since the request arrived

tables == <<members, nodes, usageEvents, rollup, daily, conflicts>>
caches == <<memberCache, deviceCache, touched>>
writes == <<myNodes, myEvents, myDelta, myDaily, myConflicts>>
vars   == <<tables, pc, request, verdicts, caches, writes, acked, wasActive>>

Status  == {"none", "active", "revoked"}
Verdict == {"accepted", "duplicate", "rejected"}

NoRows      == [id \in EventId |-> NoContent]
NoNodes     == [n \in Node |-> NoOwner]
NoDeltas    == [k \in Bucket |-> 0]
NoMembers   == [u \in User |-> "none"]
NoDevices   == [u \in User |-> NotLoaded]

Active == {o \in Owner : members[o] = "active"}

(***************************************************************************)
(* Connections and locks.                                                  *)
(***************************************************************************)
InTransaction == {"next", "member", "devices", "touch", "select", "insert",
                  "daily", "commit"}

Holders == {r \in Req : pc[r] \in InTransaction}

\* A caller of pool.connect() or pool.query() is served only then.
ConnectionFree == Cardinality(Holders) < PoolSize

\* The rows that ON CONFLICT DO UPDATE has locked for r.
TouchedNodes(r) == {n \in Node : \E u \in User : <<u, n>> \in touched[r]}

\* Mutant of NodeLocked: the node upsert goes to the pool, as getMembership does,
\* so that its lock ends with the statement.
LockedByStatement(r, n) == FALSE

\* Another open transaction has upserted the row of node n.
NodeLocked(r, n) == \E s \in Req \ {r} : n \in TouchedNodes(s)

(***************************************************************************)
(* The payload a request is working on.                                    *)
(***************************************************************************)
At(r)   == Len(verdicts[r]) + 1
Body(r) == request[r].events
Cur(r)  == Body(r)[At(r)]
Id(r)   == Cur(r).id

Step(r, from, to) == pc[r] = from /\ pc' = [pc EXCEPT ![r] = to]

\* Mutant of Judge: the code falls through to the next check.
JudgeTwice(r, v) == verdicts' = [verdicts EXCEPT ![r] = Append(Append(@, v), v)]

\* push to accepted, duplicates or rejected.
Judge(r, v) == verdicts' = [verdicts EXCEPT ![r] = Append(@, v)]

Init ==
  /\ members = [o \in Owner |-> "none"]
  /\ nodes = NoNodes
  /\ usageEvents = NoRows
  /\ rollup = NoDeltas
  /\ daily = NoRows
  /\ conflicts = {}
  /\ pc = [r \in Req |-> "idle"]
  /\ request = [r \in Req |-> NoRequest]
  /\ verdicts = [r \in Req |-> <<>>]
  /\ memberCache = [r \in Req |-> NoMembers]
  /\ deviceCache = [r \in Req |-> NoDevices]
  /\ touched = [r \in Req |-> {}]
  /\ myNodes = [r \in Req |-> NoNodes]
  /\ myEvents = [r \in Req |-> NoRows]
  /\ myDelta = [r \in Req |-> NoDeltas]
  /\ myDaily = [r \in Req |-> NoRows]
  /\ myConflicts = [r \in Req |-> {}]
  /\ acked = {}
  /\ wasActive = [r \in Req |-> {}]

(***************************************************************************)
(* The request handler.                                                    *)
(***************************************************************************)

\* Mutant of NewMaps: the caches belong to the service, not to the batch.
KeepMaps(r) == UNCHANGED <<memberCache, deviceCache>>

\* The Maps of a call of batchUpsert start empty and end with it.
NewMaps(r) ==
  /\ memberCache' = [memberCache EXCEPT ![r] = NoMembers]
  /\ deviceCache' = [deviceCache EXCEPT ![r] = NoDevices]

\* POST /v1/teams/:t/events:batchUpsert; an empty body is answered before any
\* connection is asked for.
Receive(r) ==
  /\ pc[r] = "idle"
  /\ \E q \in Request :
       /\ request' = [request EXCEPT ![r] = q]
       /\ pc' = [pc EXCEPT ![r] = IF q.events = <<>> THEN "answered" ELSE "connect"]
  /\ verdicts' = [verdicts EXCEPT ![r] = <<>>]
  /\ NewMaps(r)
  /\ wasActive' = [wasActive EXCEPT ![r] = Active]
  /\ UNCHANGED <<tables, touched, writes, acked>>

\* pool.connect() and BEGIN.
Connect(r) ==
  /\ ConnectionFree
  /\ Step(r, "connect", "next")
  /\ UNCHANGED <<tables, request, verdicts, caches, writes, acked, wasActive>>

\* The head of the loop up to the first await: the payload's team must be that
\* of the URL and an event's id the recomputed one; then the membership, from
\* the cache when it is there.
Screen(r) ==
  /\ pc[r] = "next"
  /\ At(r) <= Len(Body(r))
  /\ LET p == Cur(r)
         forged == p.kind = "event" /\ p.claimed # p.id
         status == memberCache[r][UserOf(p.id)]
         refused == TeamOf(p.id) # request[r].team \/ forged \/ status = "revoked"
     IN  \/ /\ refused
            /\ Judge(r, "rejected")
            /\ UNCHANGED pc
         \/ /\ ~refused
            /\ pc' = [pc EXCEPT ![r] = IF status = "none" THEN "member" ELSE "devices"]
            /\ UNCHANGED verdicts
  /\ UNCHANGED <<tables, request, caches, writes, acked, wasActive>>

\* this.getMembership: a query of the pool, not of the client this request
\* already holds.  A missing row is not cached.
LookupMember(r) ==
  /\ ConnectionFree
  /\ pc[r] = "member"
  /\ LET status == members[OwnerOf(Id(r))]
     IN  /\ memberCache' = [memberCache EXCEPT ![r][UserOf(Id(r))] = status]
         /\ pc' = [pc EXCEPT ![r] = IF status = "active" THEN "devices" ELSE "next"]
         /\ IF status = "active" THEN UNCHANGED verdicts ELSE Judge(r, "rejected")
  /\ UNCHANGED <<tables, request, deviceCache, touched, writes, acked, wasActive>>

\* The rows SELECT id FROM nodes WHERE team_id, user_id returns inside r.
DevicesSeen(r, o) == {n \in Node : nodes[n] = o \/ myNodes[r][n] = o}

\* A node the user is not known by when the cap is reached.
OverCap(known, n) == n \notin known /\ Cardinality(known) >= MaxDevices

\* The device cap, against the set loaded once per user and batch.
CheckDevice(r) ==
  /\ pc[r] = "devices"
  /\ LET u == UserOf(Id(r))
         n == NodeOf(Id(r))
         known == IF deviceCache[r][u] = NotLoaded
                  THEN DevicesSeen(r, OwnerOf(Id(r)))
                  ELSE deviceCache[r][u]
         over == OverCap(known, n)
     IN  /\ deviceCache' = [deviceCache EXCEPT ![r][u] = known]
         /\ pc' = [pc EXCEPT ![r] = IF over THEN "next" ELSE "touch"]
         /\ IF over THEN Judge(r, "rejected") ELSE UNCHANGED verdicts
  /\ UNCHANGED <<tables, request, memberCache, touched, writes, acked, wasActive>>

\* The node row is upserted once per <<user, node>> of the batch, which waits
\* for any other transaction that holds the row.  An existing row keeps its
\* owner.
Touch(r) ==
  /\ pc[r] = "touch"
  /\ pc' = [pc EXCEPT ![r] = IF Cur(r).kind = "event" THEN "select" ELSE "daily"]
  /\ LET u == UserOf(Id(r))
         n == NodeOf(Id(r))
     IN  IF <<u, n>> \in touched[r]
         THEN UNCHANGED <<touched, myNodes, deviceCache>>
         ELSE /\ ~NodeLocked(r, n)
              /\ touched' = [touched EXCEPT ![r] = @ \cup {<<u, n>>}]
              /\ deviceCache' = [deviceCache EXCEPT ![r][u] = @ \cup {n}]
              /\ myNodes' = [myNodes EXCEPT ![r][n] =
                               IF nodes[n] = NoOwner /\ @ = NoOwner
                               THEN OwnerOf(Id(r)) ELSE @]
  /\ UNCHANGED <<tables, request, verdicts, memberCache, myEvents, myDelta,
                 myDaily, myConflicts, acked, wasActive>>

\* Mutant of Seen: the SELECT goes to the pool instead of the transaction.
SeenOutside(r, id) == usageEvents[id]

\* The content a SELECT on usage_events finds inside transaction r.
Seen(r, id) == IF myEvents[r][id] # NoContent THEN myEvents[r][id]
               ELSE usageEvents[id]

\* Mutant of ConflictRow: the columns of the two contents are swapped.
SwappedRow(id, prior, new) == <<id, new, prior>>

\* The columns of sync_conflicts.
ConflictRow(id, prior, new) == <<id, prior, new>>

\* The SELECT of upsertEvent: unknown, an exact duplicate, or a conflict that
\* is logged and leaves the older row in place.
SelectEvent(r) ==
  /\ pc[r] = "select"
  /\ LET prior == Seen(r, Id(r))
         c == Cur(r).content
     IN  \/ /\ prior = NoContent
            /\ pc' = [pc EXCEPT ![r] = "insert"]
            /\ UNCHANGED <<verdicts, myConflicts>>
         \/ /\ prior # NoContent
            /\ pc' = [pc EXCEPT ![r] = "next"]
            /\ Judge(r, "duplicate")
            /\ myConflicts' = [myConflicts EXCEPT ![r] =
                                 IF prior = c THEN @ ELSE @ \cup {ConflictRow(Id(r), prior, c)}]
  /\ UNCHANGED <<tables, request, caches, myNodes, myEvents, myDelta, myDaily,
                 acked, wasActive>>

\* An INSERT of id would meet its primary key in r's snapshot or in the
\* uncommitted rows of another transaction.
Collides(r, id) == Seen(r, id) # NoContent
                   \/ \E s \in Req \ {r} : myEvents[s][id] # NoContent

\* The INSERT of upsertEvent, which has no ON CONFLICT clause, and the delta
\* its bucket gets.
InsertEvent(r) ==
  /\ Step(r, "insert", "next")
  /\ ~Collides(r, Id(r))
  /\ Judge(r, "accepted")
  /\ myEvents' = [myEvents EXCEPT ![r][Id(r)] = Cur(r).content]
  /\ myDelta' = [myDelta EXCEPT ![r][KeyOf[<<Id(r), Cur(r).content>>]] = @ + 1]
  /\ UNCHANGED <<tables, request, caches, myNodes, myDaily, myConflicts, acked,
                 wasActive>>

\* upsertDaily: the bucket is overwritten.
UpsertDaily(r) ==
  /\ Step(r, "daily", "next")
  /\ Judge(r, "accepted")
  /\ myDaily' = [myDaily EXCEPT ![r][Id(r)] = Cur(r).content]
  /\ UNCHANGED <<tables, request, caches, myNodes, myEvents, myDelta,
                 myConflicts, acked, wasActive>>

EndLoop(r) ==
  /\ Step(r, "next", "commit")
  /\ At(r) > Len(Body(r))
  /\ UNCHANGED <<tables, request, verdicts, caches, writes, acked, wasActive>>

\* Mutant of Discard: the connection is released inside its transaction.
LeaveOpen(r) == UNCHANGED <<touched, writes>>

\* The private writes are gone and the locks released.
Discard(r) ==
  /\ touched' = [touched EXCEPT ![r] = {}]
  /\ myNodes' = [myNodes EXCEPT ![r] = NoNodes]
  /\ myEvents' = [myEvents EXCEPT ![r] = NoRows]
  /\ myDelta' = [myDelta EXCEPT ![r] = NoDeltas]
  /\ myDaily' = [myDaily EXCEPT ![r] = NoRows]
  /\ myConflicts' = [myConflicts EXCEPT ![r] = {}]

\* Mutant of Publish: the rollup is upserted outside the transaction and may
\* miss it.
PublishApart(r) ==
  /\ nodes' = [n \in Node |->
                 IF myNodes[r][n] = NoOwner THEN nodes[n] ELSE myNodes[r][n]]
  /\ usageEvents' = [id \in EventId |->
                 IF myEvents[r][id] = NoContent THEN usageEvents[id] ELSE myEvents[r][id]]
  /\ rollup' \in {rollup, [k \in Bucket |-> rollup[k] + myDelta[r][k]]}
  /\ UNCHANGED <<daily, conflicts>>

\* The private writes become everybody's: the accumulating rollup upserts and
\* COMMIT, whose row locks the node locks of this transaction already cover.
Publish(r) ==
  /\ nodes' = [n \in Node |->
                 IF myNodes[r][n] = NoOwner THEN nodes[n] ELSE myNodes[r][n]]
  /\ usageEvents' = [id \in EventId |->
                 IF myEvents[r][id] = NoContent THEN usageEvents[id] ELSE myEvents[r][id]]
  /\ rollup' = [k \in Bucket |-> rollup[k] + myDelta[r][k]]
  /\ daily' = [id \in EventId |->
                 IF myDaily[r][id] = NoContent THEN daily[id] ELSE myDaily[r][id]]
  /\ conflicts' = conflicts \cup myConflicts[r]

\* COMMIT; if its acknowledgement is lost the writes stand and the client is
\* told 500.
Commit(r) ==
  /\ pc[r] = "commit"
  /\ \E out \in {"answered", "failed"} : pc' = [pc EXCEPT ![r] = out]
  /\ Publish(r)
  /\ Discard(r)
  /\ UNCHANGED <<members, request, verdicts, memberCache, deviceCache, acked,
                 wasActive>>

\* A statement has failed or the connection is lost: ROLLBACK, release, 500.
\* No statement is in flight while a request waits for the pool.
Fail(r) ==
  /\ pc[r] \in InTransaction \/ pc[r] = "connect"
  /\ pc[r] \in {"connect", "member"} => ConnectionFree
  /\ pc' = [pc EXCEPT ![r] = "failed"]
  /\ Discard(r)
  /\ UNCHANGED <<tables, request, verdicts, memberCache, deviceCache, acked,
                 wasActive>>

\* Mutant of Reported: what was refused is reported as well.
ReportedAll(r) == {Body(r)[i].id : i \in {j \in DOMAIN verdicts[r] :
                     Body(r)[j].kind = "event"}}

\* The event ids of the response's accepted and duplicates.
Reported(r) == {Body(r)[i].id : i \in {j \in DOMAIN verdicts[r] :
                  Body(r)[j].kind = "event" /\ verdicts[r][j] # "rejected"}}

\* The response leaves; the caller may send the same or another body again.
Reply(r) ==
  /\ pc[r] \in {"answered", "failed"}
  /\ pc' = [pc EXCEPT ![r] = "idle"]
  /\ acked' = IF pc[r] = "answered" THEN acked \cup Reported(r) ELSE acked
  /\ request' = [request EXCEPT ![r] = NoRequest]
  /\ verdicts' = [verdicts EXCEPT ![r] = <<>>]
  /\ NewMaps(r)
  /\ wasActive' = [wasActive EXCEPT ![r] = {}]
  /\ UNCHANGED <<tables, touched, writes>>

(***************************************************************************)
(* Membership management, one statement each as far as uploads can tell.   *)
(***************************************************************************)

\* addMember creates the row or reactivates it.
AddMember(t, u) ==
  /\ ConnectionFree
  /\ members[<<t, u>>] # "active"
  /\ members' = [members EXCEPT ![<<t, u>>] = "active"]
  /\ wasActive' = [r \in Req |-> IF pc[r] = "idle" THEN {}
                                 ELSE wasActive[r] \cup {<<t, u>>}]
  /\ UNCHANGED <<nodes, usageEvents, rollup, daily, conflicts, pc, request,
                 verdicts, caches, writes, acked>>

RevokeMember(t, u) ==
  /\ ConnectionFree
  /\ members[<<t, u>>] = "active"
  /\ members' = [members EXCEPT ![<<t, u>>] = "revoked"]
  /\ UNCHANGED <<nodes, usageEvents, rollup, daily, conflicts, pc, request,
                 verdicts, caches, writes, acked, wasActive>>

Handle(r) ==
  \/ Connect(r) \/ Screen(r) \/ LookupMember(r) \/ CheckDevice(r)
  \/ Touch(r) \/ SelectEvent(r) \/ InsertEvent(r) \/ UpsertDaily(r)
  \/ EndLoop(r) \/ Commit(r) \/ Reply(r)

Next ==
  \/ \E r \in Req : Receive(r) \/ Handle(r) \/ Fail(r)
  \/ \E t \in Team, u \in User : AddMember(t, u) \/ RevokeMember(t, u)

Spec == Init /\ [][Next]_vars

(***************************************************************************)
(* Fairness.  Node runs every callback that is ready and Postgres every    *)
(* statement, hence WF of the handler's own steps.  pg.Pool serves its     *)
(* waiters first come first served, and so does a Postgres row lock, hence *)
(* SF of the three steps that wait.  Postgres breaks a cycle of row locks  *)
(* by failing a transaction of it.  Nothing else has to fail, and nobody   *)
(* has to send a request.                                                  *)
(***************************************************************************)
Waits(r, s) ==
  /\ r # s
  /\ pc[r] = "touch"
  /\ <<UserOf(Id(r)), NodeOf(Id(r))>> \notin touched[r]
  /\ NodeOf(Id(r)) \in TouchedNodes(s)

DetectDeadlock(r) ==
  /\ \E S \in SUBSET Req :
       /\ r \in S
       /\ \A s \in S : (\E q \in S : Waits(s, q)) /\ (\E q \in S : Waits(q, s))
  /\ Fail(r)

QueuedStep(r) == Connect(r) \/ LookupMember(r) \/ Touch(r)

Fairness == \A r \in Req :
  /\ WF_vars(Handle(r))
  /\ SF_vars(QueuedStep(r))
  /\ WF_vars(DetectDeadlock(r))

FairSpec == Spec /\ Fairness

(***************************************************************************)
(* Properties.                                                             *)
(***************************************************************************)

\* Every variable holds a value of its kind.
TypeOK ==
  /\ members \in [Owner -> Status]
  /\ nodes \in [Node -> Owner \cup {NoOwner}]
  /\ usageEvents \in [EventId -> Content \cup {NoContent}]
  /\ rollup \in [Bucket -> Nat]
  /\ daily \in [EventId -> Content \cup {NoContent}]
  /\ conflicts \subseteq EventId \X Content \X Content
  /\ pc \in [Req -> InTransaction \cup {"idle", "connect", "answered", "failed"}]
  /\ request \in [Req -> Request \cup {NoRequest}]
  /\ verdicts \in [Req -> Seq(Verdict)]
  /\ memberCache \in [Req -> [User -> Status]]
  /\ deviceCache \in [Req -> [User -> {NotLoaded} \cup SUBSET Node]]
  /\ touched \in [Req -> SUBSET (User \X Node)]
  /\ myNodes \in [Req -> [Node -> Owner \cup {NoOwner}]]
  /\ myEvents \in [Req -> [EventId -> Content \cup {NoContent}]]
  /\ myDelta \in [Req -> [Bucket -> Nat]]
  /\ myDaily \in [Req -> [EventId -> Content \cup {NoContent}]]
  /\ myConflicts \in [Req -> SUBSET (EventId \X Content \X Content)]
  /\ acked \subseteq EventId
  /\ wasActive \in [Req -> SUBSET Owner]

Ledger == INSTANCE EventLedger
            WITH Key <- Bucket, ledger <- usageEvents

(***************************************************************************)
(* The inductive invariant behind the ledger: a node row is touched by one *)
(* open transaction at a time and an event is written only under the lock  *)
(* of its node, so what a transaction has not committed is new to          *)
(* everybody, and its delta counts exactly that.                           *)
(***************************************************************************)
OnPayload == {"member", "devices", "touch", "select", "insert", "daily"}

\* The payloads are judged one by one, and a request past the loop head has one
\* to work on.
HasPayload ==
  \A r \in Req :
    /\ pc[r] # "idle" => request[r] \in Request /\ Len(verdicts[r]) <= Len(Body(r))
    /\ pc[r] \in OnPayload => At(r) <= Len(Body(r))

DevicesKnown ==
  \A r \in Req : pc[r] = "touch" => deviceCache[r][UserOf(Id(r))] # NotLoaded

NothingPending ==
  \A r \in Req : pc[r] \notin InTransaction =>
    /\ touched[r] = {}
    /\ myEvents[r] = NoRows
    /\ myDelta[r] = NoDeltas

NodesExclusive ==
  \A r, s \in Req : r # s => TouchedNodes(r) \cap TouchedNodes(s) = {}

WritesLocked ==
  \A r \in Req : \A id \in EventId :
    myEvents[r][id] # NoContent => NodeOf(id) \in TouchedNodes(r)

WritesFresh ==
  \A r \in Req : \A id \in EventId :
    myEvents[r][id] # NoContent => usageEvents[id] = NoContent

EventLocked ==
  \A r \in Req : pc[r] \in {"select", "insert"} => NodeOf(Id(r)) \in TouchedNodes(r)

InsertFresh ==
  \A r \in Req : pc[r] = "insert" => Seen(r, Id(r)) = NoContent

DeltaCounts ==
  \A r \in Req : \A k \in Bucket :
    myDelta[r][k] = Cardinality(Ledger!InBucket(myEvents[r], k))

\* Every variable holds a value of its kind, each payload is judged at most once
\* (the loop of batchUpsert never answers for more payloads than the body has),
\* and a node is written only after the user's devices were loaded.
TypeInv == TypeOK /\ HasPayload /\ DevicesKnown

LockInv == /\ NothingPending /\ NodesExclusive /\ WritesLocked /\ WritesFresh
           /\ EventLocked /\ InsertFresh

IInv == TypeInv /\ LockInv /\ DeltaCounts

(***************************************************************************)
(* The events and the rollup change together, first write wins, and a      *)
(* retry, a duplicate or a conflict is never counted: the upload path      *)
(* implements the ledger, whatever transactions interleave or fail.        *)
(***************************************************************************)
ImplementsLedger == Ledger!LedgerSpec

(***************************************************************************)
(* Every bucket of event_daily_rollup counts the usage_events rows that    *)
(* belong to it, although each transaction only adds its own delta.        *)
(***************************************************************************)
RollupMatchesEvents == Ledger!RollupMatches

(***************************************************************************)
(* upsertEvent's INSERT never meets a row its SELECT did not see: two      *)
(* transactions with the same event are ordered by the node row that both  *)
(* upsert first.                                                           *)
(***************************************************************************)
InsertNeverCollides ==
  \A r \in Req : pc[r] = "insert" => ~Collides(r, Id(r))

(***************************************************************************)
(* An event a 200 response reported accepted or duplicate is in the        *)
(* committed table for good; the client never sends it again.              *)
(***************************************************************************)
AckedIsStored == acked \subseteq Ledger!Stored(usageEvents)

(***************************************************************************)
(* A request that arrived after a user was revoked, with no reactivation   *)
(* since, records nothing for that user: the status cached per batch never *)
(* outlives its batch.                                                     *)
(***************************************************************************)
RevokedStaysOut ==
  \A r \in Req : \A id \in EventId :
    myEvents[r][id] # NoContent => OwnerOf(id) \in wasActive[r]

(***************************************************************************)
(* A sync_conflicts row names as prior the content that stands in          *)
(* usage_events, so the older record won and the audit row says so.        *)
(***************************************************************************)
ConflictKeepsOlder ==
  \A x \in conflicts : usageEvents[x[1]] = x[2] /\ x[2] # x[3]

(***************************************************************************)
(* What makes the last three inductive, next to IInv: what a request has   *)
(* judged is stored, at least among its own rows, and nobody's commit can  *)
(* change what it saw; a cached "active" was true since it arrived.        *)
(***************************************************************************)
NothingJudged == \A r \in Req : pc[r] \in {"idle", "connect"} => verdicts[r] = <<>>

KindMatches == \A r \in Req : pc[r] = "daily" => Cur(r).kind = "daily"

ReportsStored ==
  \A r \in Req : \A id \in Reported(r) :
    /\ pc[r] \in InTransaction => Seen(r, id) # NoContent
    /\ pc[r] = "answered" => usageEvents[id] # NoContent

ConflictsFound ==
  \A r \in Req : \A x \in myConflicts[r] :
    /\ pc[r] \in InTransaction
    /\ Seen(r, x[1]) = x[2]
    /\ x[2] # NoContent
    /\ x[2] # x[3]

ActiveKnown == \A r \in Req : pc[r] # "idle" => Active \subseteq wasActive[r]

CacheWasActive ==
  \A r \in Req : \A u \in User :
    pc[r] # "idle" /\ memberCache[r][u] = "active" =>
      <<request[r].team, u>> \in wasActive[r]

Screened == \A r \in Req : pc[r] \in OnPayload => TeamOf(Id(r)) = request[r].team

Admitted ==
  \A r \in Req : pc[r] \in OnPayload \ {"member"} =>
    memberCache[r][UserOf(Id(r))] = "active"

AnswerInv == /\ NothingJudged /\ KindMatches /\ ReportsStored /\ ConflictsFound
             /\ AckedIsStored /\ ConflictKeepsOlder

MemberInv == /\ ActiveKnown /\ CacheWasActive /\ Screened /\ Admitted
             /\ RevokedStaysOut

\* A request's uncommitted rows, locks, deltas, verdicts and caches agree with
\* the tables and with each other: all that the safety properties follow from.
FullInv == IInv /\ AnswerInv /\ MemberInv

(***************************************************************************)
(* Every upload that reached the server is eventually answered.            *)
(***************************************************************************)
Answered == \A r \in Req : pc[r] = "connect" ~> pc[r] \in {"answered", "failed"}

=============================================================================
