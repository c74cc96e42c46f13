------------------------ MODULE TeamMembershipProofs ------------------------
(***************************************************************************)
(* Theorems about TeamMembership, for any number of users and concurrent   *)
(* requests.                                                               *)
(*                                                                         *)
(* What a request does late rests on what it read early, and the tables    *)
(* may have changed in between.  The invariant says what is left of each   *)
(* reading: an active admin is noticed while the request is under way      *)
(* (Noticed), an election is made under the lock of the team               *)
(* (ElectionLocked) and is right until somebody is demoted (Elected), a    *)
(* member's row stands still while it is locked (RowHeld), and another     *)
(* admin is there until somebody is demoted (OtherAdmin).                  *)
(***************************************************************************)
EXTENDS TeamMembership, TLAPS

Noticed ==
  \A r \in Req : pc[r] # "idle" /\ call[r].by \in ActiveAdmins => trusted[r]

Called == \A r \in Req : pc[r] # "idle" => call[r] \in Call

ElectionLocked ==
  \A r \in Req : pc[r] \in {"count", "upsert", "commit"} /\ call[r].op = "add"
                 /\ floor # NoTeam => teamLock = r

Elected ==
  \A r \in Req : Adding(r) /\ ~raced[r] /\ elected[r] = "member" => AdminRows # {}

RowHeld ==
  \A r \in Req : pc[r] \in {"others", "commit"} => rowLock[call[r].target] = r

OtherAdmin ==
  \A r \in Req : pc[r] = "commit" /\ Demotes(r) /\ ~raced[r]
                 /\ role[call[r].target] = "admin" => Others(call[r].target) # {}

\* The programs of the two transactions.
InOrder ==
  \A r \in Req : /\ pc[r] \in {"count", "upsert"} => call[r].op = "add"
                 /\ pc[r] = "others" => call[r].op = "setRole"
                 /\ pc[r] = "commit" => call[r].op \in {"add", "setRole"}

\* Rows are never deleted.
RowThere ==
  \A r \in Req : pc[r] \in {"others", "commit"} /\ call[r].op = "setRole" =>
                   HasRow(call[r].target)

Basics == TypeOK /\ Called /\ InOrder /\ RowThere

IInv == /\ Basics
        /\ Noticed /\ ChangesAuthorized
        /\ ElectionLocked /\ Elected
        /\ RowHeld /\ OtherAdmin


(***************************************************************************)
(* Types and the order of the statements.                                  *)
(***************************************************************************)

\* The fields of a call, which depend on what it asks for.
LEMMA CallFields ==
  ASSUME NEW c \in Call
  PROVE  /\ c.op \in {"add", "revoke", "setRole", "setFloor"}
         /\ c.by \in User \cup {Console}
         /\ c.op # "setFloor" => c.target \in User
         /\ c.op = "add" => c.role \in Role \cup {"unset"}
         /\ c.op = "setRole" => c.role \in Role
         /\ c.op = "setFloor" => c.level \in Level
BY MembershipAssumption DEF AddCall, RevokeCall, RoleCall, FloorCall

LEMMA BasicsInit == Init => Basics
<1>. SUFFICES ASSUME Init PROVE Basics
  OBVIOUS
<1>1. role \in [User -> Role \cup {"none"}]
  BY MembershipAssumption DEF Init
<1>. QED
  BY <1>1 DEF Init, Basics, TypeOK, Called, InOrder, RowThere, Role

(***************************************************************************)
(* What every step of a request s does.                                    *)
(***************************************************************************)
Step(s) == Receive(s) \/ Handle(s) \/ Fail(s)

\* It leaves the other requests where they are.
LEMMA OthersWait ==
  ASSUME TypeOK, NEW s \in Req, Step(s), NEW r \in Req, r # s
  PROVE  pc'[r] = pc[r] /\ call'[r] = call[r] /\ elected'[r] = elected[r]
<1>. USE DEF TypeOK
<1>1. CASE Receive(s)
  BY <1>1 DEF Receive, session, Goto
<1>2. CASE RequireAdmin(s)
  BY <1>2 DEF RequireAdmin, Answer, session, Goto
<1>3. CASE LockTeam(s)
  BY <1>3 DEF LockTeam, TakeTeam, session, Goto
<1>4. CASE CountAdmins(s)
  BY <1>4 DEF CountAdmins, Goto, session
<1>5. CASE UpsertMember(s)
  BY <1>5 DEF UpsertMember, Goto, session
<1>6. CASE CommitAdd(s)
  BY <1>6 DEF CommitAdd, NewRole, Answer, Release, session, Goto
<1>7. CASE Revoke(s)
  BY <1>7 DEF Revoke, HasRow, Answer, session, Goto
<1>8. CASE SetFloor(s)
  BY <1>8 DEF SetFloor, Answer, session, Goto
<1>9. CASE SelectMember(s)
  BY <1>9 DEF SelectMember, HasRow, session, Goto
<1>10. CASE CountOthers(s)
  BY <1>10 DEF CountOthers, Goto, session
<1>11. CASE Refuse(s)
  BY <1>11 DEF Refuse, HasRow, Answer, Release, session, Goto
<1>12. CASE CommitRole(s)
  BY <1>12 DEF CommitRole, Answer, Release, session, Goto
<1>13. CASE Fail(s)
  BY <1>13 DEF Fail, Answer, Release, session, Goto
<1>. QED
  BY <1>1, <1>2, <1>3, <1>4, <1>5, <1>6, <1>7, <1>8, <1>9, <1>10, <1>11, <1>12, <1>13 DEF Handle, Step

\* No row is deleted.
LEMMA RowsStay ==
  ASSUME TypeOK, NEW s \in Req, Step(s), NEW u \in User, HasRow(u)
  PROVE  HasRow(u)'
<1>. USE DEF TypeOK, HasRow, tables
<1>1. CASE Receive(s)
  BY <1>1 DEF Receive
<1>2. CASE RequireAdmin(s)
  BY <1>2 DEF RequireAdmin
<1>3. CASE LockTeam(s)
  BY <1>3 DEF LockTeam, TakeTeam
<1>4. CASE CountAdmins(s)
  BY <1>4 DEF CountAdmins, Goto
<1>5. CASE UpsertMember(s)
  BY <1>5 DEF UpsertMember, Goto
<1>6. CASE CommitAdd(s)
  BY <1>6 DEF CommitAdd, NewRole, Release
<1>7. CASE Revoke(s)
  BY <1>7 DEF Revoke
<1>8. CASE SetFloor(s)
  BY <1>8 DEF SetFloor
<1>9. CASE SelectMember(s)
  BY <1>9 DEF SelectMember
<1>10. CASE CountOthers(s)
  BY <1>10 DEF CountOthers, Goto
<1>11. CASE Refuse(s)
  BY <1>11 DEF Refuse, Release
<1>12. CASE CommitRole(s)
  BY <1>12 DEF CommitRole, Release
<1>13. CASE Fail(s)
  BY <1>13 DEF Fail, Release
<1>. QED
  BY <1>1, <1>2, <1>3, <1>4, <1>5, <1>6, <1>7, <1>8, <1>9, <1>10, <1>11, <1>12, <1>13 DEF Handle, Step

\* The history variables stay flags.
LEMMA NoteType ==
  ASSUME NEW s \in Req, NEW demoted, Note(s, demoted)
  PROVE  trusted' \in [Req -> BOOLEAN] /\ raced' \in [Req -> BOOLEAN]
BY DEF Note

LEMMA TypesStep ==
  ASSUME Basics, NEW s \in Req, Step(s)
  PROVE  TypeOK' /\ Called' /\ InOrder'
<1>. USE DEF Basics, Called, InOrder, Role
<1>0. pc[s] # "idle" => /\ call[s] \in Call
                        /\ call[s].op \in {"add", "revoke", "setRole", "setFloor"}
                        /\ call[s].op # "setFloor" => call[s].target \in User
                        /\ call[s].op = "add" => call[s].role \in Role \cup {"unset"}
                        /\ call[s].op = "setRole" => call[s].role \in Role
                        /\ call[s].op = "setFloor" => call[s].level \in Level
  BY CallFields
<1>1. CASE Receive(s)
  <2>1. PICK c \in Call :
          /\ call' = [call EXCEPT ![s] = c]
          /\ pc' = [pc EXCEPT ![s] = IF c.by = Console THEN "start" ELSE "check"]
          /\ trusted' = [trusted EXCEPT ![s] = c.by \in ActiveAdmins]
    BY <1>1 DEF Receive
  <2>. QED
    BY <1>1, <2>1 DEF Receive, TypeOK, tables, locks
<1>2. CASE RequireAdmin(s)
  <2>1. /\ UNCHANGED <<role, status, floor, teamLock, rowLock>>
        /\ pc[s] = "check"
    BY <1>2 DEF RequireAdmin, tables, locks
  <2>2. CASE pc' = [pc EXCEPT ![s] = "start"] /\ UNCHANGED <<call, elected, trusted, raced>>
    BY <2>1, <2>2 DEF TypeOK
  <2>3. CASE Answer(s) /\ Note(s, FALSE)
    BY <2>1, <2>3, NoteType DEF TypeOK, Answer
  <2>. QED
    BY <1>2, <2>2, <2>3 DEF RequireAdmin
<1>3. CASE LockTeam(s)
  BY <1>3, <1>0, NoteType DEF LockTeam, TakeTeam, TypeOK, tables, locks, session
<1>4. CASE CountAdmins(s)
  BY <1>4, <1>0, NoteType DEF CountAdmins, Goto, TypeOK, tables, locks, session
<1>5. CASE UpsertMember(s)
  BY <1>5, <1>0, NoteType DEF UpsertMember, Goto, TypeOK, tables, locks, session
<1>6. CASE CommitAdd(s)
  BY <1>6, <1>0, NoteType DEF CommitAdd, NewRole, Answer, Release, TypeOK, tables, locks, session
<1>7. CASE Revoke(s)
  BY <1>7, <1>0, NoteType DEF Revoke, HasRow, Answer, TypeOK, tables, locks, session
<1>8. CASE SetFloor(s)
  BY <1>8, <1>0, NoteType DEF SetFloor, Answer, TypeOK, tables, locks, session
<1>9. CASE SelectMember(s)
  BY <1>9, <1>0, NoteType DEF SelectMember, HasRow, TypeOK, tables, locks, session
<1>10. CASE CountOthers(s)
  BY <1>10, <1>0, NoteType DEF CountOthers, Goto, TypeOK, tables, locks, session
<1>11. CASE Refuse(s)
  BY <1>11, <1>0, NoteType DEF Refuse, HasRow, Answer, Release, TypeOK, tables, locks, session
<1>12. CASE CommitRole(s)
  <2>1. /\ role' = [role EXCEPT ![call[s].target] = call[s].role]
        /\ UNCHANGED <<status, floor>>
        /\ call[s].op = "setRole" /\ pc[s] = "commit"
    BY <1>12 DEF CommitRole
  <2>2. /\ role' \in [User -> Role \cup {"none"}]
        /\ \A u \in User : role'[u] = "none" <=> status'[u] = "none"
    BY <2>1, <1>0 DEF TypeOK, RowThere, HasRow
  <2>3. trusted' \in [Req -> BOOLEAN] /\ raced' \in [Req -> BOOLEAN]
    BY <1>12, NoteType DEF CommitRole
  <2>. QED
    BY <1>12, <2>1, <2>2, <2>3 DEF CommitRole, Answer, Release, TypeOK
<1>13. CASE Fail(s)
  BY <1>13, <1>0, NoteType DEF Fail, Answer, Release, TypeOK, tables, locks, session
<1>. QED
  BY <1>1, <1>2, <1>3, <1>4, <1>5, <1>6, <1>7, <1>8, <1>9, <1>10, <1>11, <1>12, <1>13 DEF Handle, Step

\* Which step brings a request where.
LEMMA Moves ==
  ASSUME TypeOK, NEW s \in Req, Step(s)
  PROVE  /\ pc'[s] = "count" => LockTeam(s)
         /\ pc'[s] = "upsert" => LockTeam(s) \/ CountAdmins(s)
         /\ pc'[s] = "others" => SelectMember(s)
         /\ pc'[s] = "commit" => UpsertMember(s) \/ SelectMember(s) \/ CountOthers(s)
<1>. USE DEF TypeOK
<1>1. CASE Receive(s)
  BY <1>1 DEF Receive
<1>2. CASE RequireAdmin(s)
  BY <1>2 DEF RequireAdmin, Answer
<1>3. CASE LockTeam(s)
  BY <1>3 DEF LockTeam
<1>4. CASE CountAdmins(s)
  BY <1>4 DEF CountAdmins, Goto
<1>5. CASE UpsertMember(s)
  BY <1>5 DEF UpsertMember, Goto
<1>6. CASE CommitAdd(s)
  BY <1>6 DEF CommitAdd, Answer
<1>7. CASE Revoke(s)
  BY <1>7 DEF Revoke, Answer
<1>8. CASE SetFloor(s)
  BY <1>8 DEF SetFloor, Answer
<1>9. CASE SelectMember(s)
  BY <1>9 DEF SelectMember
<1>10. CASE CountOthers(s)
  BY <1>10 DEF CountOthers, Goto
<1>11. CASE Refuse(s)
  BY <1>11 DEF Refuse, Answer
<1>12. CASE CommitRole(s)
  BY <1>12 DEF CommitRole, Answer
<1>13. CASE Fail(s)
  BY <1>13 DEF Fail, Answer
<1>. QED
  BY <1>1, <1>2, <1>3, <1>4, <1>5, <1>6, <1>7, <1>8, <1>9, <1>10, <1>11, <1>12, <1>13 DEF Handle, Step

\* Roles change at the two commits, and the row of the team neither comes nor goes.
LEMMA Effects ==
  ASSUME Basics, NEW s \in Req, Step(s)
  PROVE  /\ UNCHANGED role \/ CommitAdd(s) \/ CommitRole(s)
         /\ floor' = NoTeam <=> floor = NoTeam
<1>. USE DEF TypeOK
<1>0. \A c \in Call : c.op = "setFloor" => c.level # NoTeam
  BY CallFields, MembershipAssumption
<1>1. CASE Receive(s)
  BY <1>1 DEF Receive, tables
<1>2. CASE RequireAdmin(s)
  BY <1>2 DEF RequireAdmin, tables
<1>3. CASE LockTeam(s)
  BY <1>3 DEF LockTeam, tables
<1>4. CASE CountAdmins(s)
  BY <1>4 DEF CountAdmins, tables
<1>5. CASE UpsertMember(s)
  BY <1>5 DEF UpsertMember, tables
<1>6. CASE CommitAdd(s)
  BY <1>6 DEF CommitAdd, tables
<1>7. CASE Revoke(s)
  BY <1>7 DEF Revoke, tables
<1>8. CASE SetFloor(s)
  BY <1>0, <1>8 DEF SetFloor, Basics, Called, tables
<1>9. CASE SelectMember(s)
  BY <1>9 DEF SelectMember, tables
<1>10. CASE CountOthers(s)
  BY <1>10 DEF CountOthers, tables
<1>11. CASE Refuse(s)
  BY <1>11 DEF Refuse, tables
<1>12. CASE CommitRole(s)
  BY <1>12 DEF CommitRole, tables
<1>13. CASE Fail(s)
  BY <1>13 DEF Fail, tables
<1>. QED
  BY <1>1, <1>2, <1>3, <1>4, <1>5, <1>6, <1>7, <1>8, <1>9, <1>10, <1>11, <1>12, <1>13 DEF Handle, Step

\* A lock stays with the request that holds it while others move.
LEMMA LocksStay ==
  ASSUME TypeOK, NEW s \in Req, Step(s), NEW r \in Req, r # s
  PROVE  /\ teamLock = r => teamLock' = r \/ floor = NoTeam
         /\ \A u \in User : rowLock[u] = r => rowLock'[u] = r
<1>. USE DEF TypeOK
<1>0. r # NoReq
  BY MembershipAssumption
<1>1. CASE Receive(s)
  BY <1>1, <1>0 DEF Receive, locks
<1>2. CASE RequireAdmin(s)
  BY <1>2, <1>0 DEF RequireAdmin, locks
<1>3. CASE LockTeam(s)
  BY <1>3, <1>0 DEF LockTeam, locks, TakeTeam
<1>4. CASE CountAdmins(s)
  BY <1>4, <1>0 DEF CountAdmins, locks
<1>5. CASE UpsertMember(s)
  BY <1>5, <1>0 DEF UpsertMember, locks
<1>6. CASE CommitAdd(s)
  BY <1>6, <1>0 DEF CommitAdd, locks, Release
<1>7. CASE Revoke(s)
  BY <1>7, <1>0 DEF Revoke, locks
<1>8. CASE SetFloor(s)
  BY <1>8, <1>0 DEF SetFloor, locks
<1>9. CASE SelectMember(s)
  BY <1>9, <1>0 DEF SelectMember, locks
<1>10. CASE CountOthers(s)
  BY <1>10, <1>0 DEF CountOthers, locks
<1>11. CASE Refuse(s)
  BY <1>11, <1>0 DEF Refuse, locks, Release
<1>12. CASE CommitRole(s)
  BY <1>12, <1>0 DEF CommitRole, locks, Release
<1>13. CASE Fail(s)
  BY <1>13, <1>0 DEF Fail, locks, Release
<1>. QED
  BY <1>1, <1>2, <1>3, <1>4, <1>5, <1>6, <1>7, <1>8, <1>9, <1>10, <1>11, <1>12, <1>13 DEF Handle, Step

\* A step that changes a table, or ends a request, is noted.
LEMMA Watch ==
  ASSUME TypeOK, NEW s \in Req, Step(s)
  PROVE  \/ Receive(s)
         \/ /\ UNCHANGED <<tables, trusted, raced, call>>
            /\ pc[s] # "idle"
            /\ pc[s] = "check" => MayManage(call[s].by)
         \/ /\ Note(s, FALSE) \/ (CommitRole(s) /\ Note(s, Demotes(s)))
            /\ pc'[s] = "idle"
<1>. USE DEF TypeOK
<1>1. CASE Receive(s)
  BY <1>1 DEF Receive, tables
<1>2. CASE RequireAdmin(s)
  BY <1>2 DEF RequireAdmin, tables, Answer
<1>3. CASE LockTeam(s)
  BY <1>3 DEF LockTeam, tables
<1>4. CASE CountAdmins(s)
  BY <1>4 DEF CountAdmins, tables, Goto
<1>5. CASE UpsertMember(s)
  BY <1>5 DEF UpsertMember, tables, Goto
<1>6. CASE CommitAdd(s)
  BY <1>6 DEF CommitAdd, tables, Answer
<1>7. CASE Revoke(s)
  BY <1>7 DEF Revoke, tables, Answer
<1>8. CASE SetFloor(s)
  BY <1>8 DEF SetFloor, tables, Answer
<1>9. CASE SelectMember(s)
  BY <1>9 DEF SelectMember, tables
<1>10. CASE CountOthers(s)
  BY <1>10 DEF CountOthers, tables, Goto
<1>11. CASE Refuse(s)
  BY <1>11 DEF Refuse, tables, Answer
<1>12. CASE CommitRole(s)
  BY <1>12 DEF CommitRole, tables, Answer
<1>13. CASE Fail(s)
  BY <1>13 DEF Fail, tables, Answer
<1>. QED
  BY <1>1, <1>2, <1>3, <1>4, <1>5, <1>6, <1>7, <1>8, <1>9, <1>10, <1>11, <1>12, <1>13 DEF Handle, Step

(***************************************************************************)
(* The invariant, part by part.                                            *)
(***************************************************************************)
LEMMA RowThereStep ==
  ASSUME Basics, NEW s \in Req, Step(s)
  PROVE  RowThere'
<1>. SUFFICES ASSUME NEW r \in Req, (pc[r] \in {"others", "commit"})',
                     (call[r].op = "setRole")'
              PROVE  HasRow(call[r].target)'
  BY DEF RowThere
<1>. USE DEF Basics
<1>1. CASE r # s
  <2>1. pc[r] \in {"others", "commit"} /\ call[r].op = "setRole" /\ call'[r] = call[r]
    BY <1>1, OthersWait
  <2>2. HasRow(call[r].target) /\ call[r].target \in User
    BY <2>1, CallFields DEF RowThere, Called
  <2>. QED
    BY <2>1, <2>2, RowsStay DEF HasRow
<1>2. CASE r = s
  <2>1. CASE SelectMember(s)
    BY <1>2, <2>1 DEF SelectMember, HasRow, tables
  <2>2. CASE CountOthers(s)
    BY <1>2, <2>2 DEF CountOthers, Goto, RowThere, HasRow, tables
  <2>3. CASE UpsertMember(s)
    BY <1>2, <2>3 DEF UpsertMember, Goto, InOrder
  <2>. QED
    BY <1>2, <2>1, <2>2, <2>3, Moves
<1>. QED
  BY <1>1, <1>2

\* A caller who is an admin is noticed, and who got past requireAdmin was one.
LEMMA NoticedStep ==
  ASSUME Basics, Noticed, ChangesAuthorized, NEW s \in Req, Step(s)
  PROVE  Noticed' /\ ChangesAuthorized'
<1>. SUFFICES ASSUME NEW r \in Req, pc'[r] # "idle"
              PROVE  /\ call'[r].by \in ActiveAdmins' => trusted'[r]
                     /\ pc'[r] # "check" /\ call'[r].by # Console => trusted'[r]
  BY DEF Noticed, ChangesAuthorized
<1>. USE DEF Basics
<1>1. CASE r # s
  <2>1. pc[r] = pc'[r] /\ call'[r] = call[r]
    BY <1>1, OthersWait
  <2>2. CASE Receive(s)
    BY <1>1, <2>1, <2>2 DEF Receive, tables, ActiveAdmins, AdminRows, TypeOK, Noticed,
                            ChangesAuthorized
  <2>3. CASE UNCHANGED <<tables, trusted>>
    BY <2>1, <2>3 DEF tables, ActiveAdmins, AdminRows, Noticed, ChangesAuthorized
  <2>4. CASE \E d \in BOOLEAN : Note(s, d)
    BY <1>1, <2>1, <2>4 DEF Note, Noticed, ChangesAuthorized
  <2>5. Demotes(s) \in BOOLEAN
    BY DEF Demotes
  <2>. QED
    BY <2>2, <2>3, <2>4, <2>5, Watch
<1>2. CASE r = s
  <2>1. CASE Receive(s)
    <3>1. PICK c \in Call :
            /\ call' = [call EXCEPT ![s] = c]
            /\ pc' = [pc EXCEPT ![s] = IF c.by = Console THEN "start" ELSE "check"]
            /\ trusted' = [trusted EXCEPT ![s] = c.by \in ActiveAdmins]
      BY <2>1 DEF Receive
    <3>2. ActiveAdmins' = ActiveAdmins
      BY <2>1 DEF Receive, tables, ActiveAdmins, AdminRows
    <3>. QED
      BY <1>2, <3>1, <3>2 DEF TypeOK
  <2>2. CASE /\ UNCHANGED <<tables, trusted, raced, call>>
             /\ pc[s] # "idle"
             /\ pc[s] = "check" => MayManage(call[s].by)
    <3>1. ActiveAdmins' = ActiveAdmins
      BY <2>2 DEF tables, ActiveAdmins, AdminRows
    <3>2. call[s].by \in User \cup {Console}
      BY <2>2, CallFields DEF Called
    <3>3. MayManage(call[s].by) /\ call[s].by # Console => call[s].by \in ActiveAdmins
      BY <3>2 DEF MayManage, ActiveAdmins, AdminRows
    <3>. QED
      BY <1>2, <2>2, <3>1, <3>3 DEF Noticed, ChangesAuthorized
  <2>. QED
    BY <1>2, <2>1, <2>2, Watch
<1>. QED
  BY <1>1, <1>2

\* An election is made, and its result used, under the lock of the team.
LEMMA ElectionLockedStep ==
  ASSUME Basics, ElectionLocked, NEW s \in Req, Step(s)
  PROVE  ElectionLocked'
<1>. SUFFICES ASSUME NEW r \in Req, (pc[r] \in {"count", "upsert", "commit"})',
                     (call[r].op = "add")', floor' # NoTeam
              PROVE  teamLock' = r
  BY DEF ElectionLocked
<1>. USE DEF Basics
<1>0. floor # NoTeam
  BY Effects
<1>1. CASE r # s
  BY <1>0, <1>1, OthersWait, LocksStay DEF ElectionLocked
<1>2. CASE r = s
  <2>1. CASE LockTeam(s)
    BY <1>0, <1>2, <2>1 DEF LockTeam, TakeTeam
  <2>2. CASE CountAdmins(s)
    BY <1>0, <1>2, <2>2 DEF CountAdmins, Goto, locks, ElectionLocked, InOrder
  <2>3. CASE UpsertMember(s)
    BY <1>0, <1>2, <2>3 DEF UpsertMember, Goto, ElectionLocked, InOrder
  <2>4. CASE SelectMember(s) \/ CountOthers(s)
    BY <1>2, <2>4 DEF SelectMember, CountOthers, Goto, InOrder
  <2>. QED
    BY <1>2, <2>1, <2>2, <2>3, <2>4, Moves
<1>. QED
  BY <1>1, <1>2

\* The row of the member is held until the commit.
LEMMA RowHeldStep ==
  ASSUME Basics, RowHeld, NEW s \in Req, Step(s)
  PROVE  RowHeld'
<1>. SUFFICES ASSUME NEW r \in Req, (pc[r] \in {"others", "commit"})'
              PROVE  (rowLock[call[r].target] = r)'
  BY DEF RowHeld
<1>. USE DEF Basics
<1>1. CASE r # s
  <2>1. pc[r] = pc'[r] /\ call'[r] = call[r]
    BY <1>1, OthersWait
  <2>2. call[r].target \in User
    BY <2>1, CallFields DEF Called, InOrder
  <2>. QED
    BY <1>1, <2>1, <2>2, LocksStay DEF RowHeld
<1>2. CASE r = s
  <2>1. CASE UpsertMember(s) \/ SelectMember(s)
    <3>1. call[s].target \in User /\ call' = call
      BY <2>1, CallFields DEF UpsertMember, SelectMember, Goto, Called, InOrder
    <3>. QED
      BY <1>2, <2>1, <3>1 DEF UpsertMember, SelectMember, TypeOK
  <2>2. CASE CountOthers(s)
    BY <1>2, <2>2 DEF CountOthers, Goto, locks, RowHeld
  <2>. QED
    BY <1>2, <2>1, <2>2, Moves
<1>. QED
  BY <1>1, <1>2

\* Only a demotion can empty the set of admins, and it is noted.
LEMMA AdminsStay ==
  ASSUME Basics, NEW s \in Req, Step(s), NEW u \in User,
         role[u] = "admin", role'[u] # "admin"
  PROVE  CommitRole(s) /\ Demotes(s) /\ u = call[s].target /\ Note(s, TRUE)
<1>. USE DEF Basics
<1>1. CASE CommitAdd(s)
  BY <1>1 DEF CommitAdd, NewRole, TypeOK
<1>2. CASE CommitRole(s)
  BY <1>2 DEF CommitRole, Demotes, TypeOK
<1>. QED
  BY <1>1, <1>2, Effects

\* An election that made nobody an admin found one, who stays until a demotion.
LEMMA ElectedStep ==
  ASSUME Basics, Elected, NEW s \in Req, Step(s)
  PROVE  Elected'
<1>. SUFFICES ASSUME NEW r \in Req, Adding(r)', ~raced'[r], elected'[r] = "member"
              PROVE  AdminRows' # {}
  BY DEF Elected
<1>. USE DEF Basics
<1>1. CASE r # s
  <2>1. Adding(r) /\ elected[r] = "member"
    BY <1>1, OthersWait DEF Adding
  <2>2. ~raced[r]
    BY <1>1, <2>1, Watch DEF Note, Receive, Adding
  <2>3. PICK u \in User : role[u] = "admin"
    BY <2>1, <2>2 DEF Elected, AdminRows
  <2>4. role'[u] = "admin"
    <3>. SUFFICES ASSUME role'[u] # "admin" PROVE FALSE
      OBVIOUS
    <3>1. Note(s, TRUE)
      BY <2>3, AdminsStay
    <3>. QED
      BY <1>1, <2>1, <3>1 DEF Note, Adding
  <2>. QED
    BY <2>4 DEF AdminRows
<1>2. CASE r = s
  <2>1. CASE LockTeam(s)
    BY <1>2, <2>1 DEF LockTeam, Adding, TypeOK
  <2>2. CASE CountAdmins(s)
    BY <1>2, <2>2 DEF CountAdmins, NoAdmin, AdminRows, tables, TypeOK
  <2>3. CASE UpsertMember(s)
    BY <1>2, <2>3 DEF UpsertMember, Goto, Elected, Adding, AdminRows, tables
  <2>4. CASE SelectMember(s) \/ CountOthers(s)
    BY <1>2, <2>4 DEF SelectMember, CountOthers, Goto, InOrder, Adding
  <2>. QED
    BY <1>2, <2>1, <2>2, <2>3, <2>4, Moves DEF Adding
<1>. QED
  BY <1>1, <1>2

\* A row changes its role only at the hand of the request that holds it.
LEMMA RolesStay ==
  ASSUME Basics, RowHeld, NEW s \in Req, Step(s),
         NEW u \in User, rowLock[u] # s
  PROVE  role'[u] = role[u]
<1>. USE DEF Basics
<1>1. CASE CommitAdd(s)
  BY <1>1 DEF CommitAdd, RowHeld, TypeOK
<1>2. CASE CommitRole(s)
  BY <1>2 DEF CommitRole, RowHeld, TypeOK
<1>. QED
  BY <1>1, <1>2, Effects

\* The other admin that a demotion counted stays until another demotion.
LEMMA OtherAdminStep ==
  ASSUME Basics, RowHeld, OtherAdmin, NEW s \in Req, Step(s)
  PROVE  OtherAdmin'
<1>. SUFFICES ASSUME NEW r \in Req, pc'[r] = "commit", Demotes(r)', ~raced'[r],
                     role'[call'[r].target] = "admin"
              PROVE  (Others(call[r].target))' # {}
  BY DEF OtherAdmin
<1>. USE DEF Basics
<1>1. CASE r # s
  <2>1. pc[r] = "commit" /\ call'[r] = call[r] /\ Demotes(r)
    BY <1>1, OthersWait DEF Demotes
  <2>2. call[r].target \in User /\ rowLock[call[r].target] = r
    BY <2>1, CallFields DEF Called, RowHeld, Demotes
  <2>3. ~raced[r]
    BY <1>1, <2>1, Watch DEF Note, Receive
  <2>4. role[call[r].target] = "admin"
    BY <1>1, <2>1, <2>2, RolesStay
  <2>5. PICK u \in User \ {call[r].target} : role[u] = "admin"
    BY <2>1, <2>3, <2>4 DEF OtherAdmin, Others, AdminRows
  <2>6. role'[u] = "admin"
    <3>. SUFFICES ASSUME role'[u] # "admin" PROVE FALSE
      OBVIOUS
    <3>1. Note(s, TRUE)
      BY <2>5, AdminsStay
    <3>. QED
      BY <1>1, <2>1, <3>1 DEF Note
  <2>. QED
    BY <2>1, <2>5, <2>6 DEF Others, AdminRows
<1>2. CASE r = s
  <2>1. CASE UpsertMember(s)
    BY <1>2, <2>1 DEF UpsertMember, Goto, InOrder, Demotes
  <2>2. CASE SelectMember(s)
    BY <1>2, <2>2 DEF SelectMember, Demotes, tables, TypeOK
  <2>3. CASE CountOthers(s)
    BY <1>2, <2>3 DEF CountOthers, Others, AdminRows, tables
  <2>. QED
    BY <1>2, <2>1, <2>2, <2>3, Moves
<1>. QED
  BY <1>1, <1>2

(***************************************************************************)
(* The theorems.                                                           *)
(***************************************************************************)
LEMMA Inductive == IInv /\ [Next]_vars => IInv'
<1>. SUFFICES ASSUME IInv, [Next]_vars PROVE IInv'
  OBVIOUS
<1>1. CASE UNCHANGED vars
  BY <1>1 DEF IInv, Basics, TypeOK, Called, InOrder, RowThere, HasRow, Noticed,
              ChangesAuthorized, ActiveAdmins, AdminRows, ElectionLocked, Elected, Adding,
              RowHeld, OtherAdmin, Others, Demotes, vars, tables, locks, session
<1>2. ASSUME NEW s \in Req, Step(s)
      PROVE  IInv'
  <2>1. Basics'
    BY <1>2, TypesStep, RowThereStep DEF IInv, Basics
  <2>2. Noticed' /\ ChangesAuthorized'
    BY <1>2, NoticedStep DEF IInv
  <2>3. ElectionLocked' /\ Elected'
    BY <1>2, ElectionLockedStep, ElectedStep DEF IInv
  <2>4. RowHeld' /\ OtherAdmin'
    BY <1>2, RowHeldStep, OtherAdminStep DEF IInv
  <2>. QED
    BY <2>1, <2>2, <2>3, <2>4 DEF IInv
<1>. QED
  BY <1>1, <1>2 DEF Next, Step

LEMMA InvInit == Init => IInv
<1>. SUFFICES ASSUME Init PROVE IInv
  OBVIOUS
<1>1. Basics
  BY BasicsInit
<1>. QED
  BY <1>1 DEF Init, IInv, Noticed, ChangesAuthorized, ElectionLocked, Elected, Adding,
              RowHeld, OtherAdmin

LEMMA InvHolds == Spec => []IInv
BY InvInit, Inductive, PTL DEF Spec

(***************************************************************************)
(* Type correctness of the admin routes.                                   *)
(***************************************************************************)
THEOREM MembershipTypes == Spec => []TypeOK
<1>1. IInv => TypeOK
  BY DEF IInv, Basics
<1>. QED
  BY InvHolds, <1>1, PTL

(***************************************************************************)
(* Whoever gets past requireAdmin was an active admin since the request    *)
(* arrived.                                                                *)
(***************************************************************************)
THEOREM MembershipAuthorized == Spec => []ChangesAuthorized
<1>1. IInv => ChangesAuthorized
  BY DEF IInv
<1>. QED
  BY InvHolds, <1>1, PTL

(***************************************************************************)
(* The elections of addMember are serialised.                              *)
(***************************************************************************)
THEOREM MembershipOneElection == Spec => []OneElection
<1>1. IInv => OneElection
  BY DEF IInv, ElectionLocked, OneElection, Adding
<1>. QED
  BY InvHolds, <1>1, PTL

(***************************************************************************)
(* A new member leaves the team with an admin, unless somebody is demoted  *)
(* between the count of addMember and its commit.                          *)
(***************************************************************************)
THEOREM MembershipFirstElected == Spec => FirstMemberElected
<1>1. ASSUME IInv, NEW r \in Req, CommitAdd(r), Adding(r), ~raced[r],
             role[call[r].target] = "none"
      PROVE  AdminRows' # {}
  <2>. USE DEF IInv, Basics
  <2>1. call[r].target \in User /\ elected[r] \in Role
    BY <1>1, CallFields DEF CommitAdd, Called, TypeOK
  <2>2. CASE elected[r] = "admin"
    BY <1>1, <2>1, <2>2 DEF CommitAdd, NewRole, AdminRows, TypeOK
  <2>3. CASE elected[r] = "member"
    <3>1. PICK u \in User : role[u] = "admin"
      BY <1>1, <2>3 DEF Elected, AdminRows
    <3>2. role'[u] = "admin"
      BY <1>1, <3>1 DEF CommitAdd, NewRole, TypeOK
    <3>. QED
      BY <3>2 DEF AdminRows
  <2>. QED
    BY <2>1, <2>2, <2>3 DEF Role
<1>2. IInv /\ [Next]_vars =>
        [\A r \in Req : CommitAdd(r) /\ Adding(r) /\ ~raced[r]
                        /\ role[call[r].target] = "none" => AdminRows' # {}]_vars
  BY <1>1
<1>. QED
  BY InvHolds, <1>2, PTL DEF Spec, FirstMemberElected

(***************************************************************************)
(* A demotion leaves an admin, unless another demotion is committed        *)
(* between its count and its commit.                                       *)
(***************************************************************************)
THEOREM MembershipDemotion == Spec => DemotionLeavesAdmin
<1>1. ASSUME IInv, NEW r \in Req, CommitRole(r), Demotes(r), ~raced[r],
             role[call[r].target] = "admin"
      PROVE  AdminRows' # {}
  <2>1. PICK u \in User \ {call[r].target} : role[u] = "admin"
    BY <1>1 DEF IInv, OtherAdmin, CommitRole, Others, AdminRows
  <2>2. role'[u] = "admin"
    BY <1>1, <2>1 DEF IInv, Basics, CommitRole, TypeOK
  <2>. QED
    BY <2>2 DEF AdminRows
<1>2. IInv /\ [Next]_vars =>
        [\A r \in Req : CommitRole(r) /\ Demotes(r) /\ ~raced[r]
                        /\ role[call[r].target] = "admin" => AdminRows' # {}]_vars
  BY <1>1
<1>. QED
  BY InvHolds, <1>2, PTL DEF Spec, DemotionLeavesAdmin

(***************************************************************************)
(* A member who is there becomes an admin by setMemberRole only.           *)
(***************************************************************************)
THEOREM MembershipPromotion == Spec => PromotedOnPurpose
<1>1. ASSUME IInv, NEW s \in Req, Step(s),
             NEW u \in User, role[u] = "member", role'[u] = "admin"
      PROVE  CommitRole(s) /\ call[s].target = u /\ ~Demotes(s)
  <2>. USE DEF IInv, Basics
  <2>1. CASE CommitAdd(s)
    BY <1>1, <2>1 DEF CommitAdd, NewRole, TypeOK
  <2>2. CASE CommitRole(s)
    BY <1>1, <2>2 DEF CommitRole, Demotes, TypeOK
  <2>. QED
    BY <1>1, <2>1, <2>2, Effects
<1>2. ASSUME IInv, [Next]_vars
      PROVE  [\A u \in User : role[u] = "member" /\ role'[u] = "admin" =>
                \E r \in Req : CommitRole(r) /\ call[r].target = u /\ ~Demotes(r)]_vars
  <2>1. CASE UNCHANGED vars
    BY <2>1
  <2>2. CASE \E s \in Req : Step(s)
    BY <1>1, <1>2, <2>2
  <2>. QED
    BY <1>2, <2>1, <2>2 DEF Next, Step
<1>. QED
  BY InvHolds, <1>2, PTL DEF Spec, PromotedOnPurpose

=============================================================================
