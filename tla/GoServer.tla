------------------------------ MODULE GoServer ------------------------------
(***************************************************************************)
(* Uploads and members in the Go rewrite of the team server: go-server.     *)
(* Against the TypeScript server (TeamServer) it reads the membership on    *)
(* the connection of the transaction, and has no rollup, device cap or      *)
(* daily rows.  Both may serve one database: revocations come from there.   *)
(*                                                                         *)
(* An event id names its user, node and local event (it is their hash).  A  *)
(* payload is an id, a hash of the contents, and whether its team and its   *)
(* recomputed id are right.                                                 *)
(***************************************************************************)
EXTENDS Naturals, Sequences, FiniteSets

CONSTANTS User, Node, LocalEvent, Hash, NoHash,
          Request, NoRequest,   \* HTTP requests in flight
          Bodies,               \* bodies of uploads: sequences of payloads
          MaxConns,             \* the pool of db.Open
          Rounds                \* bound on the requests per Request

EventIds == User \X Node \X LocalEvent
Payloads == [id : EventIds, hash : Hash, ours : BOOLEAN]

ASSUME GoServerAssumption == /\ NoHash \notin Hash /\ NoRequest \notin Request
                             /\ MaxConns \in Nat \ {0} /\ Rounds \in Nat
                             \* an empty body is answered at once
                             /\ Bodies \subseteq Seq(Payloads) /\ <<>> \notin Bodies

VARIABLES usage,      \* usage_events, committed: the hash of each id
          conflicts,  \* sync_conflicts, committed
          nodeRow,    \* which transaction holds the row of a node
          status,     \* team_members.status
          call        \* requests in flight

goServerVars == <<usage, conflicts, nodeRow, status, call>>

NoCall == [pc |-> "idle", body |-> <<>>, cached |-> [u \in User |-> "none"], touched |-> {},
           new |-> [id \in EventIds |-> NoHash], log |-> {},
           taken |-> {}, barred |-> {}, round |-> 0]
Stage(r)    == call[r].pc
This(r)  == Head(call[r].body)
InTx(r)  == Stage(r) \in {"member", "node", "select", "insert", "commit"}
NodeKey(p)  == <<p.id[1], p.id[2]>>
Sees(r, id) == IF call[r].new[id] # NoHash THEN call[r].new[id] ELSE usage[id]

GoServerInit ==
  /\ usage = [id \in EventIds |-> NoHash] /\ conflicts = {}
  /\ nodeRow = [n \in Node |-> NoRequest]
  /\ status = [u \in User |-> "none"]
  /\ call = [r \in Request |-> NoCall]

With(r, f)  == call' = [call EXCEPT ![r] = f]
\* On to the next payload, or to COMMIT after the last one.
Then(f)     == [f EXCEPT !.body = Tail(@), !.pc = IF Len(f.body) > 1 THEN "member" ELSE "commit"]

-----------------------------------------------------------------------------
(* BatchUpsert                                                               *)

Upload(r) ==
  /\ Stage(r) = "idle" /\ call[r].round < Rounds
  /\ \E body \in Bodies :
       With(r, [NoCall EXCEPT !.pc = "begin", !.body = body, !.barred = {u \in User : status[u] # "active"},
                              !.round = call[r].round + 1])
  /\ UNCHANGED <<usage, conflicts, nodeRow, status>>

BeginTx(r) ==
  /\ Stage(r) = "begin" /\ Cardinality({q \in Request : InTx(q)}) < MaxConns
  /\ With(r, [call[r] EXCEPT !.pc = "member"])
  /\ UNCHANGED <<usage, conflicts, nodeRow, status>>

\* The team of the URL, the recomputed id, and the membership: a row that was
\* found is cached for the batch, whatever its status.
IsActive(u)  == status[u] = "active"
CheckMember(r) ==
  /\ Stage(r) = "member"
  /\ LET p == This(r)
         u == p.id[1]
         s == IF call[r].cached[u] # "none" THEN call[r].cached[u]
              ELSE IF IsActive(u) THEN "active" ELSE status[u]
         known == [call[r] EXCEPT !.cached[u] = s]
     IN With(r, IF ~p.ours THEN Then(call[r])
                ELSE IF s # "active" THEN Then(known)
                ELSE [known EXCEPT !.pc = "node"])
  /\ UNCHANGED <<usage, conflicts, nodeRow, status>>

\* INSERT INTO nodes .. ON CONFLICT DO UPDATE, once per user and node: waits
\* for the transaction that wrote the row.
Untouched(r, p) == NodeKey(p) \notin call[r].touched
RowFree(r, n)   == nodeRow[n] \in {r, NoRequest}
TouchNode(r) ==
  /\ Stage(r) = "node"
  /\ LET p == This(r)
         n == p.id[2]
     IN IF Untouched(r, p)
        THEN /\ RowFree(r, n)
             /\ nodeRow' = [nodeRow EXCEPT ![n] = r]
             /\ With(r, [call[r] EXCEPT !.pc = "select", !.touched = @ \cup {NodeKey(p)}])
        ELSE UNCHANGED nodeRow /\ With(r, [call[r] EXCEPT !.pc = "select"])
  /\ UNCHANGED <<usage, conflicts, status>>

\* upsertEvent: the SELECT, with the audit row of a conflict ...
Audit(id, prior, hash)    == <<id, prior, hash>>
SelectEvent(r) ==
  /\ Stage(r) = "select"
  /\ LET p == This(r)
         prior == Sees(r, p.id)
         dup == [call[r] EXCEPT !.taken = @ \cup {p.id}]
     IN With(r, CASE prior = NoHash -> [call[r] EXCEPT !.pc = "insert"]
                  [] prior = p.hash -> Then(dup)
                  [] OTHER -> Then([dup EXCEPT !.log = @ \cup {Audit(p.id, prior, p.hash)}]))
  /\ UNCHANGED <<usage, conflicts, nodeRow, status>>

\* ... and the INSERT, which a row that appeared meanwhile would fail.
InsertEvent(r) ==
  /\ Stage(r) = "insert"
  /\ LET p == This(r)
     IN With(r, Then([call[r] EXCEPT !.new[p.id] = p.hash, !.taken = @ \cup {p.id}]))
  /\ UNCHANGED <<usage, conflicts, nodeRow, status>>

RowsFreed(r) == [n \in Node |-> IF nodeRow[n] = r THEN NoRequest ELSE nodeRow[n]]
Reply(r, taken) == [call[r] EXCEPT !.pc = "idle", !.body = <<>>, !.taken = taken,
                                    !.cached = NoCall.cached, !.touched = {}, !.log = {},
                                    !.new = NoCall.new]

\* COMMIT; the answer may be lost, or the COMMIT fail unnoticed by the table.
LogOnly(r)   == conflicts' = conflicts \cup call[r].log /\ UNCHANGED usage
Publishes(r) == /\ usage' = [id \in EventIds |-> Sees(r, id)]
                /\ conflicts' = conflicts \cup call[r].log
CommitBatch(r) ==
  /\ Stage(r) = "commit" /\ Publishes(r) /\ nodeRow' = RowsFreed(r)
  /\ \E taken \in {call[r].taken, {}} : With(r, Reply(r, taken))
  /\ UNCHANGED status

\* A statement fails, the client goes away, Postgres breaks a deadlock, or the
\* server dies: the deferred Rollback, and a 500 or nothing at all.
Abort(r) ==
  /\ Stage(r) # "idle"
  /\ nodeRow' = RowsFreed(r) /\ With(r, Reply(r, {}))
  /\ UNCHANGED <<usage, conflicts, status>>

WaitsFor(r, q) == /\ Stage(r) = "node" /\ Untouched(r, This(r))
                  /\ q # r /\ nodeRow[This(r).id[2]] = q
BreakDeadlock(r) == /\ \E q \in Request : WaitsFor(r, q) /\ WaitsFor(q, r)
                    /\ Abort(r)

-----------------------------------------------------------------------------
\* AddMember for an admin: inserts the row or reactivates it, in one transaction
\* under the row of the team.
Reactivate(u) ==
  /\ status[u] # "active" /\ status' = [status EXCEPT ![u] = "active"]
  /\ call' = [r \in Request |-> [call[r] EXCEPT !.barred = @ \ {u}]]
  /\ UNCHANGED <<usage, conflicts, nodeRow>>

\* The TypeScript server revokes; here the handlers of revocation and roles are
\* empty and answer 200.
RevokedElsewhere(u) ==
  /\ status[u] = "active" /\ status' = [status EXCEPT ![u] = "revoked"]
  /\ UNCHANGED <<usage, conflicts, nodeRow, call>>

Serve(r) == BeginTx(r) \/ CheckMember(r) \/ TouchNode(r) \/ SelectEvent(r)
            \/ InsertEvent(r) \/ CommitBatch(r)

GoServerNext ==
  \/ \E r \in Request : Upload(r) \/ Serve(r) \/ Abort(r) \/ BreakDeadlock(r)
  \/ \E u \in User : Reactivate(u) \/ RevokedElsewhere(u)

\* Statements are answered and Postgres ends deadlocks.
GoServerFairness ==
  \A r \in Request : /\ WF_goServerVars(Serve(r))
                     /\ WF_goServerVars(BreakDeadlock(r))

GoServerSpec == GoServerInit /\ [][GoServerNext]_goServerVars

-----------------------------------------------------------------------------
(* The INSERT never meets a row its SELECT did not see, although it has no ON  *)
(* CONFLICT: the row of the node, written before, orders the transactions that *)
(* carry the same event.                                                       *)
GoInsertNeverCollides ==
  \A r \in Request : Stage(r) = "insert" =>
    LET id == This(r).id
    IN usage[id] = NoHash /\ \A q \in Request \ {r} : call[q].new[id] = NoHash

(* What an answer calls accepted or duplicate is stored.                       *)
GoAnsweredIsStored ==
  \A r \in Request : Stage(r) = "idle" =>
    \A id \in call[r].taken : usage[id] # NoHash

(* The older content stays, and the audit row names it as the prior one.       *)
GoConflictKeepsOlder == \A c \in conflicts : usage[c[1]] = c[2] /\ c[2] # c[3]

(* An upload that arrived after its user was revoked stores nothing, unless    *)
(* the user is let in again meanwhile, although the membership is cached.      *)
GoRevokedStaysOut ==
  \A r \in Request, id \in EventIds :
    id[1] \in call[r].barred => call[r].new[id] = NoHash /\ id \notin call[r].taken

(* Every upload is answered: no wait for a connection or a node is for ever,   *)
(* also with as many uploads in flight as there are connections.               *)
GoAnswered == \A r \in Request : (Stage(r) # "idle") ~> (Stage(r) = "idle")

(* What uploads that overlap leave in the tables and in their answers.         *)
GoServerSound ==
  GoInsertNeverCollides /\ GoAnsweredIsStored /\ GoConflictKeepsOlder /\ GoRevokedStaysOut
=============================================================================
