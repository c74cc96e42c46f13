--------------------------- MODULE TeamMembership ---------------------------
(***************************************************************************)
(* Who may manage a team: the admin routes of server/http.ts and           *)
(* addMember, revokeMember, setMemberRole and setPrivacyFloor of           *)
(* server/team-service.ts, for one team; every statement names its team,   *)
(* so teams do not meet.                                                   *)
(*                                                                         *)
(* One action is one database round trip.  requireAdmin reads the caller's *)
(* row first and the change comes later, with awaits between.  Postgres    *)
(* gives FOR UPDATE, UPDATE and ON CONFLICT DO UPDATE the lock of their     *)
(* row until the transaction ends; a plain SELECT sees committed rows.     *)
(*                                                                         *)
(* Left out: the connection pool (no request here asks for a second        *)
(* connection while it holds one), display names and times.                *)
(***************************************************************************)
EXTENDS FiniteSets

CONSTANTS
  User,
  Console,   \* a caller of TeamService inside the server, not over HTTP
  Req,       \* concurrent requests
  NoReq,
  NoCall,
  NoTeam,
  Level,     \* privacy levels
  Call,      \* the calls considered
  Seed       \* the memberships operators may have inserted beforehand

Role == {"admin", "member"}

AddCall    == [op : {"add"}, by : User \cup {Console}, target : User,
               role : Role \cup {"unset"}]
RevokeCall == [op : {"revoke"}, by : User \cup {Console}, target : User]
RoleCall   == [op : {"setRole"}, by : User \cup {Console}, target : User, role : Role]
FloorCall  == [op : {"setFloor"}, by : User \cup {Console}, level : Level]

ASSUME MembershipAssumption ==
  /\ IsFiniteSet(User)
  /\ Console \notin User
  /\ NoReq \notin Req
  /\ NoTeam \notin Level
  /\ Call \subseteq AddCall \cup RevokeCall \cup RoleCall \cup FloorCall
  /\ NoCall \notin Call
  /\ Seed \subseteq [User -> Role \cup {"none"}]

VARIABLES
  role,      \* team_members.role of each user, "none" if there is no row
  status,    \* team_members.status, "none" if there is no row
  floor,     \* teams.privacy_floor, NoTeam if there is no row
  teamLock,  \* the request that holds the row of teams
  rowLock,   \* the request that holds the row of a member
  pc,
  call,
  elected,   \* effectiveRole of addMember
  \* history
  trusted,   \* the caller was an active admin at some moment since the call
  raced      \* somebody was demoted since the request counted the admins

tables  == <<role, status, floor>>
locks   == <<teamLock, rowLock>>
session == <<pc, call, elected>>
vars    == <<tables, locks, session, trusted, raced>>

AdminRows    == {u \in User : role[u] = "admin"}
ActiveAdmins == {u \in AdminRows : status[u] = "active"}

Init ==
  /\ role \in Seed
  /\ status = [u \in User |-> IF role[u] = "none" THEN "none" ELSE "active"]
  /\ floor \in Level \cup {NoTeam}
  /\ teamLock = NoReq
  /\ rowLock = [u \in User |-> NoReq]
  /\ pc = [r \in Req |-> "idle"]
  /\ call = [r \in Req |-> NoCall]
  /\ elected = [r \in Req |-> "member"]
  /\ trusted = [r \in Req |-> FALSE]
  /\ raced = [r \in Req |-> FALSE]

Goto(r, from, to) == pc[r] = from /\ pc' = [pc EXCEPT ![r] = to]

\* Mutant of Release: the connection is released with its transaction open.
ReleaseTeam(r) ==
  /\ teamLock' = IF teamLock = r THEN NoReq ELSE teamLock
  /\ UNCHANGED rowLock

\* ROLLBACK or COMMIT: r holds nothing any more.
Release(r) ==
  /\ teamLock' = IF teamLock = r THEN NoReq ELSE teamLock
  /\ rowLock' = [u \in User |-> IF rowLock[u] = r THEN NoReq ELSE rowLock[u]]

\* The response leaves; the caller may send its next request.
Answer(r) ==
  /\ pc' = [pc EXCEPT ![r] = "idle"]
  /\ call' = [call EXCEPT ![r] = NoCall]
  /\ elected' = [elected EXCEPT ![r] = "member"]

\* History: r is over; the others see who is an admin now, and that somebody was
\* demoted.
Note(r, demoted) ==
  /\ trusted' = [s \in Req |-> /\ s # r
                               /\ pc[s] # "idle"
                               /\ trusted[s] \/ call[s].by \in ActiveAdmins']
  /\ raced' = [s \in Req |-> /\ s # r
                             /\ pc[s] \in {"upsert", "commit"}
                             /\ raced[s] \/ demoted]

(***************************************************************************)
(* Every route.                                                            *)
(***************************************************************************)
Receive(r) ==
  /\ pc[r] = "idle"
  /\ \E c \in Call :
       /\ call' = [call EXCEPT ![r] = c]
       /\ pc' = [pc EXCEPT ![r] = IF c.by = Console THEN "start" ELSE "check"]
       /\ trusted' = [trusted EXCEPT ![r] = c.by \in ActiveAdmins]
  /\ UNCHANGED <<tables, locks, elected, raced>>

\* Mutant of MayManage: the status is not looked at.
HasAdminRole(u) == role[u] = "admin"

MayManage(u) == status[u] = "active" /\ role[u] = "admin"

\* requireAdmin; the body of the request is read after it.
RequireAdmin(r) ==
  /\ pc[r] = "check"
  /\ UNCHANGED <<tables, locks>>
  /\ \/ /\ MayManage(call[r].by)
        /\ pc' = [pc EXCEPT ![r] = "start"]
        /\ UNCHANGED <<call, elected, trusted, raced>>
     \/ /\ ~MayManage(call[r].by)
        /\ Answer(r)
        /\ Note(r, FALSE)

(***************************************************************************)
(* addMember.                                                              *)
(***************************************************************************)

\* Mutant of TakeTeam: the row is read without FOR UPDATE.
PeekTeam(r) == UNCHANGED teamLock

\* SELECT .. FROM teams FOR UPDATE: serialises the elections, if there is a row.
TakeTeam(r) ==
  /\ floor # NoTeam => teamLock = NoReq
  /\ teamLock' = IF floor = NoTeam THEN teamLock ELSE r

LockTeam(r) ==
  /\ pc[r] = "start"
  /\ call[r].op = "add"
  /\ pc' = [pc EXCEPT ![r] = IF call[r].role = "unset" THEN "count" ELSE "upsert"]
  /\ TakeTeam(r)
  /\ elected' = [elected EXCEPT ![r] = IF call[r].role = "unset" THEN "member"
                                       ELSE call[r].role]
  /\ UNCHANGED <<tables, rowLock, call, trusted, raced>>

\* Mutant of NoAdmin: members are counted instead of admins.
NoMember == \A u \in User : role[u] = "none"

NoAdmin == AdminRows = {}

\* The first member of a team without admin rows becomes one.
CountAdmins(r) ==
  /\ Goto(r, "count", "upsert")
  /\ elected' = [elected EXCEPT ![r] = IF NoAdmin THEN "admin" ELSE @]
  /\ UNCHANGED <<tables, locks, call, trusted, raced>>

\* INSERT .. ON CONFLICT DO UPDATE takes the member's row.
UpsertMember(r) ==
  /\ Goto(r, "upsert", "commit")
  /\ rowLock[call[r].target] = NoReq
  /\ rowLock' = [rowLock EXCEPT ![call[r].target] = r]
  /\ UNCHANGED <<tables, teamLock, call, elected, trusted, raced>>

\* Mutant of NewRole: ON CONFLICT sets the role as well.
RoleGiven(u, new) == new

\* A row that exists keeps its role.
NewRole(u, new) == IF role[u] = "none" THEN new ELSE role[u]

\* The member is active, again or for the first time.
CommitAdd(r) ==
  /\ pc[r] = "commit"
  /\ call[r].op = "add"
  /\ role' = [role EXCEPT ![call[r].target] = NewRole(call[r].target, elected[r])]
  /\ status' = [status EXCEPT ![call[r].target] = "active"]
  /\ UNCHANGED floor
  /\ Release(r)
  /\ Answer(r)
  /\ Note(r, FALSE)

(***************************************************************************)
(* revokeMember and setPrivacyFloor, one statement each.                   *)
(***************************************************************************)

\* Mutant of HasRow: an upsert instead of an UPDATE.
AnyRow(u) == TRUE

HasRow(u) == status[u] # "none"

Revoke(r) ==
  /\ pc[r] = "start"
  /\ call[r].op = "revoke"
  /\ LET u == call[r].target
     IN  /\ HasRow(u) => rowLock[u] = NoReq
         /\ status' = [status EXCEPT ![u] = IF HasRow(u) THEN "revoked" ELSE @]
  /\ UNCHANGED <<role, floor, locks>>
  /\ Answer(r)
  /\ Note(r, FALSE)

\* An UPDATE of a team without a row is answered 404.
SetFloor(r) ==
  /\ pc[r] = "start"
  /\ call[r].op = "setFloor"
  /\ floor # NoTeam => teamLock = NoReq
  /\ floor' = IF floor = NoTeam THEN NoTeam ELSE call[r].level
  /\ UNCHANGED <<role, status, locks>>
  /\ Answer(r)
  /\ Note(r, FALSE)

(***************************************************************************)
(* setMemberRole.                                                          *)
(***************************************************************************)
Demotes(r) == call[r].op = "setRole" /\ call[r].role # "admin"

\* SELECT role .. FOR UPDATE of a row that is there.
SelectMember(r) ==
  /\ pc[r] = "start"
  /\ call[r].op = "setRole"
  /\ LET u == call[r].target
     IN  /\ HasRow(u)
         /\ rowLock[u] = NoReq
         /\ rowLock' = [rowLock EXCEPT ![u] = r]
         /\ pc' = [pc EXCEPT ![r] =
                     IF role[u] = "admin" /\ Demotes(r) THEN "others" ELSE "commit"]
  /\ UNCHANGED <<tables, teamLock, call, elected, trusted, raced>>

\* Mutant of Others: the user to be demoted is counted as well.
Admins(u) == AdminRows

Others(u) == AdminRows \ {u}

\* The last admin is not demoted, as far as the committed rows tell.
CountOthers(r) ==
  /\ Goto(r, "others", "commit")
  /\ Others(call[r].target) # {}
  /\ UNCHANGED <<tables, locks, call, elected, trusted, raced>>

\* "member not found" and "cannot demote the last admin": ROLLBACK, 404 or 400.
Refuse(r) ==
  /\ \/ pc[r] = "start" /\ call[r].op = "setRole" /\ ~HasRow(call[r].target)
     \/ pc[r] = "others" /\ Others(call[r].target) = {}
  /\ UNCHANGED tables
  /\ Release(r)
  /\ Answer(r)
  /\ Note(r, FALSE)

\* UPDATE .. SET role and COMMIT.
CommitRole(r) ==
  /\ pc[r] = "commit"
  /\ call[r].op = "setRole"
  /\ role' = [role EXCEPT ![call[r].target] = call[r].role]
  /\ UNCHANGED <<status, floor>>
  /\ Release(r)
  /\ Answer(r)
  /\ Note(r, Demotes(r))

(***************************************************************************)
(* Failures.                                                               *)
(***************************************************************************)

\* No valid token (401), a bad body (400), or a failing statement or connection
\* (ROLLBACK, 500).
Fail(r) ==
  /\ pc[r] # "idle"
  /\ UNCHANGED tables
  /\ Release(r)
  /\ Answer(r)
  /\ Note(r, FALSE)

Handle(r) ==
  \/ RequireAdmin(r) \/ LockTeam(r) \/ CountAdmins(r) \/ UpsertMember(r)
  \/ CommitAdd(r) \/ Revoke(r) \/ SetFloor(r) \/ SelectMember(r)
  \/ CountOthers(r) \/ Refuse(r) \/ CommitRole(r)

Next == \E r \in Req : Receive(r) \/ Handle(r) \/ Fail(r)

Spec == Init /\ [][Next]_vars

\* Node and Postgres go on with what can go on; a row lock is served first come
\* first served, hence the strong fairness of the steps that wait for one.
Waiting(r) == LockTeam(r) \/ UpsertMember(r) \/ Revoke(r) \/ SetFloor(r) \/ SelectMember(r)

Fairness == \A r \in Req : WF_vars(Handle(r)) /\ SF_vars(Waiting(r))

FairSpec == Spec /\ Fairness

(***************************************************************************)
(* Properties.                                                             *)
(***************************************************************************)

\* Every variable holds a value of its kind, and a row has a role iff it has a
\* status.
TypeOK ==
  /\ role \in [User -> Role \cup {"none"}]
  /\ status \in [User -> {"none", "active", "revoked"}]
  /\ \A u \in User : role[u] = "none" <=> status[u] = "none"
  /\ floor \in Level \cup {NoTeam}
  /\ teamLock \in Req \cup {NoReq}
  /\ rowLock \in [User -> Req \cup {NoReq}]
  /\ pc \in [Req -> {"idle", "check", "start", "count", "upsert", "others", "commit"}]
  /\ call \in [Req -> Call \cup {NoCall}]
  /\ elected \in [Req -> Role]
  /\ trusted \in [Req -> BOOLEAN]
  /\ raced \in [Req -> BOOLEAN]

(***************************************************************************)
(* Whoever gets past requireAdmin was an active admin at some moment since *)
(* the request arrived, although the change is made after further awaits:  *)
(* a demotion or revocation that came first is obeyed.                     *)
(***************************************************************************)
ChangesAuthorized ==
  \A r \in Req : pc[r] \notin {"idle", "check"} /\ call[r].by # Console => trusted[r]

Adding(r) == pc[r] \in {"upsert", "commit"} /\ call[r].op = "add"
             /\ call[r].role = "unset"

(***************************************************************************)
(* addMember's elections are serialised by the row of the team: two first  *)
(* members never both find the team without an admin.                      *)
(***************************************************************************)
OneElection ==
  \A r, s \in Req : Adding(r) /\ Adding(s) /\ floor # NoTeam => r = s

(***************************************************************************)
(* A new member added without a role leaves the team with an admin, unless *)
(* somebody is demoted between addMember's count and its commit.           *)
(***************************************************************************)
FirstMemberElected ==
  [][\A r \in Req : CommitAdd(r) /\ Adding(r) /\ ~raced[r]
                    /\ role[call[r].target] = "none" => AdminRows' # {}]_vars

(***************************************************************************)
(* A demotion leaves an admin, unless another one is committed between the *)
(* count of setMemberRole and its commit.                                  *)
(***************************************************************************)
DemotionLeavesAdmin ==
  [][\A r \in Req : CommitRole(r) /\ Demotes(r) /\ ~raced[r]
                    /\ role[call[r].target] = "admin" => AdminRows' # {}]_vars

(***************************************************************************)
(* A member who is there becomes an admin by setMemberRole only: addMember *)
(* promotes nobody, however stale the count that its election was made on. *)
(***************************************************************************)
PromotedOnPurpose ==
  [][\A u \in User : role[u] = "member" /\ role'[u] = "admin" =>
       \E r \in Req : CommitRole(r) /\ call[r].target = u /\ ~Demotes(r)]_vars

(***************************************************************************)
(* A team that has an admin keeps one: setMemberRole "refuses to demote    *)
(* the last admin so a team can never end up unmanageable".                *)
(***************************************************************************)
AdminKept == [][AdminRows # {} => AdminRows' # {}]_vars

(***************************************************************************)
(* Every management request is eventually answered: its locks are waited   *)
(* for in one order, and given back on every path.                         *)
(***************************************************************************)
ManagementAnswered == \A r \in Req : pc[r] # "idle" ~> pc[r] = "idle"

=============================================================================
