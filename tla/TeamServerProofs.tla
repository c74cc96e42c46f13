-------------------------- MODULE TeamServerProofs --------------------------
(***************************************************************************)
(* What TeamServer guarantees for any number of users, nodes, requests and *)
(* connections.  The argument: TypeInv is inductive by itself; given it,   *)
(* LockInv says that uncommitted events are private and new; given both,   *)
(* every step is a step or a stutter of the ledger.  MemberInv follows a   *)
(* cached "active" back to the tables; AnswerInv follows a verdict to the  *)
(* row it speaks of, which nobody's commit can change because LockInv      *)
(* keeps uncommitted events apart.                                         *)
(***************************************************************************)
EXTENDS TeamServer, FiniteSetTheorems, TLAPS

(***************************************************************************)
(* Types.                                                                  *)
(***************************************************************************)

\* The payload a request works on, and the parts of its id.
LEMMA PayloadType ==
  ASSUME TypeInv, NEW r \in Req, pc[r] # "idle", At(r) <= Len(Body(r))
  PROVE  /\ Cur(r) \in Payload
         /\ Id(r) \in EventId
         /\ OwnerOf(Id(r)) \in Owner
         /\ TeamOf(Id(r)) \in Team
         /\ UserOf(Id(r)) \in User
         /\ NodeOf(Id(r)) \in Node
<1>1. request[r] \in [team : Team, events : Seq(Payload)]
  BY ServerAssumption DEF TypeInv, HasPayload
<1>2. Body(r) \in Seq(Payload)
  BY <1>1 DEF Body
<1>3. verdicts[r] \in Seq(Verdict)
  BY DEF TypeInv, TypeOK
<1>4. At(r) \in 1..Len(Body(r))
  BY <1>2, <1>3 DEF At
<1>5. Cur(r) \in Payload
  BY <1>2, <1>4 DEF Cur
<1>6. Id(r) \in EventId
  BY <1>5 DEF Id, Payload
<1>. QED
  BY <1>5, <1>6 DEF EventId, Owner, OwnerOf, TeamOf, UserOf, NodeOf

\* The empty tables and caches have the types of the full ones.
LEMMA NoRowsType ==
  /\ NoRows \in [EventId -> Content \cup {NoContent}]
  /\ NoNodes \in [Node -> Owner \cup {NoOwner}]
  /\ NoDeltas \in [Bucket -> Nat]
  /\ NoMembers \in [User -> Status]
  /\ NoDevices \in [User -> {NotLoaded} \cup SUBSET Node]
BY DEF NoRows, NoNodes, NoDeltas, NoMembers, NoDevices, Status

\* A verdict more, or none.
LEMMA JudgeType ==
  ASSUME TypeOK, NEW r \in Req, NEW v \in Verdict, Judge(r, v)
  PROVE  verdicts' \in [Req -> Seq(Verdict)]
<1>1. Append(verdicts[r], v) \in Seq(Verdict)
  BY DEF TypeOK
<1>. QED
  BY <1>1 DEF TypeOK, Judge

\* The server starts with typed, empty tables and idle requests.
LEMMA TypeInit == Init => TypeInv
<1>. SUFFICES ASSUME Init PROVE TypeInv
  OBVIOUS
<1>1. TypeOK
  BY NoRowsType DEF Init, TypeOK, NoMembers, NoDevices, Status
<1>2. HasPayload /\ DevicesKnown
  BY DEF Init, HasPayload, DevicesKnown, OnPayload
<1>. QED
  BY <1>1, <1>2 DEF TypeInv

\* Every action keeps the types, and a request past the loop head has a payload.
LEMMA TypeStep == TypeInv /\ [Next]_vars => TypeInv'
<1>. SUFFICES ASSUME TypeInv, [Next]_vars PROVE TypeInv'
  OBVIOUS
<1>. USE DEF InTransaction
<1>t. TypeOK
  BY DEF TypeInv
<1>d. DevicesKnown
  BY DEF TypeInv
<1>1. ASSUME NEW r \in Req, Receive(r) PROVE TypeInv'
  <2>1. PICK q \in Request :
          /\ request' = [request EXCEPT ![r] = q]
          /\ pc' = [pc EXCEPT ![r] = IF q.events = <<>> THEN "answered" ELSE "connect"]
    BY <1>1 DEF Receive
  <2>2. TypeOK'
    BY <1>1, <1>t, <2>1, NoRowsType DEF Receive, NewMaps, TypeOK, Active, tables, writes
  <2>3. HasPayload'
    BY <1>1, <2>1 DEF Receive, NewMaps, TypeInv, TypeOK, HasPayload, OnPayload, At, Body
  <2>4. DevicesKnown'
    BY <1>1, <2>1 DEF Receive, NewMaps, TypeInv, TypeOK, DevicesKnown, Id, Cur, At, Body
  <2>. QED
    BY <2>2, <2>3, <2>4 DEF TypeInv
<1>2. ASSUME NEW r \in Req, Connect(r) PROVE TypeInv'
  <2>a. TypeOK'
    BY <1>2, <1>t DEF Connect, Step, tables, caches, writes, TypeOK
  <2>b. HasPayload'
    BY <1>2 DEF Connect, Step, tables, caches, writes, TypeInv, TypeOK, HasPayload, OnPayload, At, Body
  <2>c. DevicesKnown'
    BY <1>2 DEF Connect, Step, tables, caches, writes, TypeInv, TypeOK, DevicesKnown, Id, Cur, At, Body
  <2>. QED
    BY <2>a, <2>b, <2>c DEF TypeInv
<1>3. ASSUME NEW r \in Req, Screen(r) PROVE TypeInv'
  <2>0. pc[r] # "idle" /\ At(r) <= Len(Body(r))
    BY <1>3 DEF Screen, TypeInv, HasPayload, OnPayload, Step
  <2>1. /\ Id(r) \in EventId /\ Cur(r) \in Payload /\ OwnerOf(Id(r)) \in Owner
        /\ UserOf(Id(r)) \in User /\ NodeOf(Id(r)) \in Node
    BY <2>0, PayloadType
  <2>a. TypeOK'
    <3>1. verdicts' \in [Req -> Seq(Verdict)]
      BY <1>3, <1>t, JudgeType DEF Screen, Verdict, TypeOK
    <3>2. pc' \in [Req -> InTransaction \cup {"idle", "connect", "answered", "failed"}]
      BY <1>3, <1>t DEF Screen, TypeOK
    <3>. QED
      BY <1>3, <1>t, <3>1, <3>2 DEF Screen, tables, caches, writes, TypeOK
  <2>b. HasPayload'
    BY <1>3, <2>0 DEF Screen, Judge, tables, caches, writes, TypeInv, TypeOK, HasPayload, OnPayload, At, Body
  <2>c. DevicesKnown'
    BY <1>3, <2>0 DEF Screen, Judge, tables, caches, writes, TypeInv, TypeOK, DevicesKnown, Id, Cur, At, Body
  <2>. QED
    BY <2>a, <2>b, <2>c DEF TypeInv
<1>4. ASSUME NEW r \in Req, LookupMember(r) PROVE TypeInv'
  <2>0. pc[r] # "idle" /\ At(r) <= Len(Body(r))
    BY <1>4 DEF LookupMember, TypeInv, HasPayload, OnPayload, Step
  <2>1. /\ Id(r) \in EventId /\ Cur(r) \in Payload /\ OwnerOf(Id(r)) \in Owner
        /\ UserOf(Id(r)) \in User /\ NodeOf(Id(r)) \in Node
    BY <2>0, PayloadType
  <2>a. TypeOK'
    <3>1. verdicts' \in [Req -> Seq(Verdict)]
      BY <1>4, <1>t, JudgeType DEF LookupMember, Verdict, TypeOK
    <3>2. members[OwnerOf(Id(r))] \in Status
      BY <1>t, <2>1 DEF TypeOK
    <3>3. memberCache' \in [Req -> [User -> Status]]
      BY <1>4, <1>t, <2>1, <3>2 DEF LookupMember, TypeOK
    <3>4. pc' \in [Req -> InTransaction \cup {"idle", "connect", "answered", "failed"}]
      BY <1>4, <1>t DEF LookupMember, TypeOK
    <3>. QED
      BY <1>4, <1>t, <3>1, <3>3, <3>4 DEF LookupMember, tables, writes, TypeOK
  <2>b. HasPayload'
    BY <1>4, <2>0 DEF LookupMember, Judge, tables, writes, TypeInv, TypeOK, HasPayload, OnPayload, At, Body
  <2>c. DevicesKnown'
    BY <1>4, <2>0 DEF LookupMember, Judge, tables, writes, TypeInv, TypeOK, DevicesKnown, Id, Cur, At, Body
  <2>. QED
    BY <2>a, <2>b, <2>c DEF TypeInv
<1>5. ASSUME NEW r \in Req, CheckDevice(r) PROVE TypeInv'
  <2>0. pc[r] # "idle" /\ At(r) <= Len(Body(r))
    BY <1>5 DEF CheckDevice, TypeInv, HasPayload, OnPayload, Step
  <2>1. /\ Id(r) \in EventId /\ Cur(r) \in Payload /\ OwnerOf(Id(r)) \in Owner
        /\ UserOf(Id(r)) \in User /\ NodeOf(Id(r)) \in Node
    BY <2>0, PayloadType
  <2>. DEFINE u == UserOf(Id(r))
              known == IF deviceCache[r][u] = NotLoaded
                       THEN DevicesSeen(r, OwnerOf(Id(r))) ELSE deviceCache[r][u]
  <2>d. known \in SUBSET Node
    <3>1. deviceCache[r][u] \in {NotLoaded} \cup SUBSET Node
      BY <1>t, <2>1 DEF TypeOK
    <3>. QED
      BY <3>1 DEF DevicesSeen
  <2>e. deviceCache' = [deviceCache EXCEPT ![r][u] = known]
    BY <1>5 DEF CheckDevice
  <2>. HIDE DEF known
  <2>a. TypeOK'
    <3>1. verdicts' \in [Req -> Seq(Verdict)]
      BY <1>5, <1>t, JudgeType DEF CheckDevice, Verdict, TypeOK
    <3>2. deviceCache' \in [Req -> [User -> {NotLoaded} \cup SUBSET Node]]
      BY <1>t, <2>1, <2>d, <2>e DEF TypeOK
    <3>3. pc' \in [Req -> InTransaction \cup {"idle", "connect", "answered", "failed"}]
      BY <1>5, <1>t DEF CheckDevice, TypeOK
    <3>. QED
      BY <1>5, <1>t, <3>1, <3>2, <3>3 DEF CheckDevice, tables, writes, TypeOK
  <2>b. HasPayload'
    BY <1>5, <2>0 DEF CheckDevice, Judge, DevicesSeen, tables, writes, TypeInv, TypeOK, HasPayload, OnPayload, At, Body
  <2>c. DevicesKnown'
    <3>1. known # NotLoaded
      BY <2>d, ServerAssumption
    <3>2. pc'[r] = "touch" => verdicts' = verdicts
      BY <1>5, <1>t DEF CheckDevice, TypeOK
    <3>3. \A q \in Req : pc'[q] = "touch" => Id(q)' = Id(q)
      BY <1>5, <1>t, <3>2 DEF CheckDevice, Judge, TypeOK, Id, Cur, At, Body
    <3>. QED
      BY <1>5, <1>d, <1>t, <2>1, <2>d, <2>e, <3>1, <3>3 DEF CheckDevice, TypeOK, DevicesKnown
  <2>. QED
    BY <2>a, <2>b, <2>c DEF TypeInv
<1>6. ASSUME NEW r \in Req, Touch(r) PROVE TypeInv'
  <2>0. pc[r] # "idle" /\ At(r) <= Len(Body(r))
    BY <1>6 DEF Touch, TypeInv, HasPayload, OnPayload, Step
  <2>1. /\ Id(r) \in EventId /\ Cur(r) \in Payload /\ OwnerOf(Id(r)) \in Owner
        /\ UserOf(Id(r)) \in User /\ NodeOf(Id(r)) \in Node
    BY <2>0, PayloadType
  <2>a. TypeOK'
    <3>1. pc' \in [Req -> InTransaction \cup {"idle", "connect", "answered", "failed"}]
      BY <1>6, <1>t DEF Touch, TypeOK
    <3>. DEFINE u == UserOf(Id(r))
                n == NodeOf(Id(r))
    <3>2. CASE <<u, n>> \in touched[r]
      BY <1>6, <1>t, <3>1, <3>2 DEF Touch, tables, TypeOK
    <3>3. CASE <<u, n>> \notin touched[r]
      <4>1. touched' = [touched EXCEPT ![r] = @ \cup {<<u, n>>}]
        BY <1>6, <3>3 DEF Touch
      <4>2. touched' \in [Req -> SUBSET (User \X Node)]
        BY <1>t, <2>1, <4>1 DEF TypeOK
      <4>3. deviceCache' = [deviceCache EXCEPT ![r][u] = @ \cup {n}]
        BY <1>6, <3>3 DEF Touch
      <4>4. deviceCache[r][u] \in SUBSET Node
        BY <1>6, <1>t, <1>d, <2>1 DEF Touch, TypeOK, DevicesKnown
      <4>5. deviceCache' \in [Req -> [User -> {NotLoaded} \cup SUBSET Node]]
        BY <1>t, <2>1, <4>3, <4>4 DEF TypeOK
      <4>. DEFINE o == IF nodes[n] = NoOwner /\ myNodes[r][n] = NoOwner
                       THEN OwnerOf(Id(r)) ELSE myNodes[r][n]
      <4>6. myNodes' = [myNodes EXCEPT ![r][n] = o]
        BY <1>6, <3>3 DEF Touch
      <4>8. o \in Owner \cup {NoOwner}
        BY <1>t, <2>1 DEF TypeOK
      <4>. HIDE DEF o
      <4>7. myNodes' \in [Req -> [Node -> Owner \cup {NoOwner}]]
        BY <1>t, <2>1, <4>6, <4>8 DEF TypeOK
      <4>. QED
        BY <1>6, <1>t, <3>1, <4>2, <4>5, <4>7 DEF Touch, tables, TypeOK
    <3>. QED
      BY <3>2, <3>3
  <2>b. HasPayload'
    BY <1>6, <2>0 DEF Touch, tables, TypeInv, TypeOK, HasPayload, OnPayload, At, Body
  <2>c. DevicesKnown'
    BY <1>6, <2>0, <2>1 DEF Touch, tables, TypeInv, TypeOK, DevicesKnown, Id, Cur, At, Body
  <2>. QED
    BY <2>a, <2>b, <2>c DEF TypeInv
<1>7. ASSUME NEW r \in Req, SelectEvent(r) PROVE TypeInv'
  <2>0. pc[r] # "idle" /\ At(r) <= Len(Body(r))
    BY <1>7 DEF SelectEvent, TypeInv, HasPayload, OnPayload, Step
  <2>1. /\ Id(r) \in EventId /\ Cur(r) \in Payload /\ OwnerOf(Id(r)) \in Owner
        /\ UserOf(Id(r)) \in User /\ NodeOf(Id(r)) \in Node
    BY <2>0, PayloadType
  <2>a. TypeOK'
    <3>1. verdicts' \in [Req -> Seq(Verdict)]
      BY <1>7, <1>t, JudgeType DEF SelectEvent, Verdict, TypeOK
    <3>2. Seen(r, Id(r)) \in Content \cup {NoContent} /\ Cur(r).content \in Content
      BY <1>t, <2>1 DEF Seen, TypeOK, Payload
    <3>3. myConflicts' \in [Req -> SUBSET (EventId \X Content \X Content)]
      <4>. DEFINE row == <<Id(r), Seen(r, Id(r)), Cur(r).content>>
      <4>1. \/ myConflicts' = myConflicts
            \/ /\ Seen(r, Id(r)) # NoContent
               /\ myConflicts' = [myConflicts EXCEPT ![r] = @ \cup {row}]
        BY <1>7, <1>t DEF SelectEvent, ConflictRow, TypeOK
      <4>2. Seen(r, Id(r)) # NoContent => row \in EventId \X Content \X Content
        BY <2>1, <3>2
      <4>. DEFINE Rows == SUBSET (EventId \X Content \X Content)
      <4>3. myConflicts \in [Req -> Rows]
        BY <1>t DEF TypeOK
      <4>4. Seen(r, Id(r)) # NoContent => myConflicts[r] \cup {row} \in Rows
        BY <4>2, <4>3
      <4>. HIDE DEF row, Rows
      <4>5. myConflicts' \in [Req -> Rows]
        BY <4>1, <4>3, <4>4
      <4>. QED
        BY <4>5 DEF Rows
    <3>4. pc' \in [Req -> InTransaction \cup {"idle", "connect", "answered", "failed"}]
      BY <1>7, <1>t DEF SelectEvent, TypeOK
    <3>. QED
      BY <1>7, <1>t, <3>1, <3>3, <3>4 DEF SelectEvent, tables, caches, TypeOK
  <2>b. HasPayload'
    BY <1>7, <2>0 DEF SelectEvent, Judge, Seen, tables, caches, TypeInv, TypeOK, HasPayload, OnPayload, At, Body
  <2>c. DevicesKnown'
    BY <1>7, <2>0 DEF SelectEvent, Judge, Seen, tables, caches, TypeInv, TypeOK, DevicesKnown, Id, Cur, At, Body
  <2>. QED
    BY <2>a, <2>b, <2>c DEF TypeInv
<1>8. ASSUME NEW r \in Req, InsertEvent(r) PROVE TypeInv'
  <2>0. pc[r] # "idle" /\ At(r) <= Len(Body(r))
    BY <1>8 DEF InsertEvent, TypeInv, HasPayload, OnPayload, Step
  <2>1. /\ Id(r) \in EventId /\ Cur(r) \in Payload /\ OwnerOf(Id(r)) \in Owner
        /\ UserOf(Id(r)) \in User /\ NodeOf(Id(r)) \in Node
    BY <2>0, PayloadType
  <2>a. TypeOK'
    <3>1. verdicts' \in [Req -> Seq(Verdict)]
      BY <1>8, <1>t, JudgeType DEF InsertEvent, Verdict, TypeOK
    <3>2. KeyOf[<<Id(r), Cur(r).content>>] \in Bucket /\ Cur(r).content \in Content
      BY <2>1, ServerAssumption DEF KeyOf, Payload, EventId, Bucket
    <3>3. myEvents' \in [Req -> [EventId -> Content \cup {NoContent}]]
      BY <1>8, <1>t, <2>1, <3>2 DEF InsertEvent, TypeOK
    <3>4. myDelta' \in [Req -> [Bucket -> Nat]]
      BY <1>8, <1>t, <3>2 DEF InsertEvent, TypeOK
    <3>5. pc' \in [Req -> InTransaction \cup {"idle", "connect", "answered", "failed"}]
      BY <1>8, <1>t DEF InsertEvent, Step, TypeOK
    <3>. QED
      BY <1>8, <1>t, <3>1, <3>3, <3>4, <3>5 DEF InsertEvent, tables, caches, TypeOK
  <2>b. HasPayload'
    BY <1>8, <2>0 DEF InsertEvent, Step, Judge, tables, caches, TypeInv, TypeOK, HasPayload, OnPayload, At, Body
  <2>c. DevicesKnown'
    BY <1>8, <2>0 DEF InsertEvent, Step, Judge, tables, caches, TypeInv, TypeOK, DevicesKnown, Id, Cur, At, Body
  <2>. QED
    BY <2>a, <2>b, <2>c DEF TypeInv
<1>9. ASSUME NEW r \in Req, UpsertDaily(r) PROVE TypeInv'
  <2>0. pc[r] # "idle" /\ At(r) <= Len(Body(r))
    BY <1>9 DEF UpsertDaily, TypeInv, HasPayload, OnPayload, Step
  <2>1. /\ Id(r) \in EventId /\ Cur(r) \in Payload /\ OwnerOf(Id(r)) \in Owner
        /\ UserOf(Id(r)) \in User /\ NodeOf(Id(r)) \in Node
    BY <2>0, PayloadType
  <2>a. TypeOK'
    <3>1. verdicts' \in [Req -> Seq(Verdict)]
      BY <1>9, <1>t, JudgeType DEF UpsertDaily, Verdict, TypeOK
    <3>2. myDaily' \in [Req -> [EventId -> Content \cup {NoContent}]]
      BY <1>9, <1>t, <2>1 DEF UpsertDaily, TypeOK, Payload
    <3>3. pc' \in [Req -> InTransaction \cup {"idle", "connect", "answered", "failed"}]
      BY <1>9, <1>t DEF UpsertDaily, Step, TypeOK
    <3>. QED
      BY <1>9, <1>t, <3>1, <3>2, <3>3 DEF UpsertDaily, tables, caches, TypeOK
  <2>b. HasPayload'
    BY <1>9, <2>0 DEF UpsertDaily, Step, Judge, tables, caches, TypeInv, TypeOK, HasPayload, OnPayload, At, Body
  <2>c. DevicesKnown'
    BY <1>9, <2>0 DEF UpsertDaily, Step, Judge, tables, caches, TypeInv, TypeOK, DevicesKnown, Id, Cur, At, Body
  <2>. QED
    BY <2>a, <2>b, <2>c DEF TypeInv
<1>10. ASSUME NEW r \in Req, EndLoop(r) PROVE TypeInv'
  <2>a. TypeOK'
    BY <1>10, <1>t DEF EndLoop, Step, tables, caches, writes, TypeOK
  <2>b. HasPayload'
    BY <1>10 DEF EndLoop, Step, tables, caches, writes, TypeInv, TypeOK, HasPayload, OnPayload, At, Body
  <2>c. DevicesKnown'
    BY <1>10 DEF EndLoop, Step, tables, caches, writes, TypeInv, TypeOK, DevicesKnown, Id, Cur, At, Body
  <2>. QED
    BY <2>a, <2>b, <2>c DEF TypeInv
<1>11. ASSUME NEW r \in Req, Commit(r) PROVE TypeInv'
  <2>a. TypeOK'
    BY <1>11, <1>t, NoRowsType DEF Commit, Publish, Discard, TypeOK
  <2>b. HasPayload'
    BY <1>11 DEF Commit, Publish, Discard, TypeInv, TypeOK, HasPayload, OnPayload, At, Body
  <2>c. DevicesKnown'
    BY <1>11 DEF Commit, Publish, Discard, TypeInv, TypeOK, DevicesKnown, Id, Cur, At, Body
  <2>. QED
    BY <2>a, <2>b, <2>c DEF TypeInv
<1>12. ASSUME NEW r \in Req, Fail(r) PROVE TypeInv'
  <2>a. TypeOK'
    BY <1>12, <1>t, NoRowsType DEF Fail, Discard, tables, TypeOK
  <2>b. HasPayload'
    BY <1>12 DEF Fail, Discard, tables, TypeInv, TypeOK, HasPayload, OnPayload, At, Body
  <2>c. DevicesKnown'
    BY <1>12 DEF Fail, Discard, tables, TypeInv, TypeOK, DevicesKnown, Id, Cur, At, Body
  <2>. QED
    BY <2>a, <2>b, <2>c DEF TypeInv
<1>13. ASSUME NEW r \in Req, Reply(r) PROVE TypeInv'
  <2>a. TypeOK'
    <3>1. ASSUME pc[r] = "answered" PROVE Reported(r) \subseteq EventId
      <4>1. request[r] \in [team : Team, events : Seq(Payload)]
        BY <3>1, ServerAssumption DEF TypeInv, HasPayload
      <4>2. Body(r) \in Seq(Payload)
        BY <4>1 DEF Body
      <4>3. verdicts[r] \in Seq(Verdict) /\ Len(verdicts[r]) <= Len(Body(r))
        BY <3>1, <1>t DEF TypeOK, TypeInv, HasPayload
      <4>4. \A i \in DOMAIN verdicts[r] : Body(r)[i] \in Payload
        BY <4>2, <4>3
      <4>. QED
        BY <4>4 DEF Reported, Payload
    <3>2. verdicts' \in [Req -> Seq(Verdict)]
      BY <1>13, <1>t DEF Reply, TypeOK
    <3>. QED
      BY <1>13, <1>t, <3>1, <3>2, NoRowsType DEF Reply, NewMaps, tables, writes, TypeOK
  <2>b. HasPayload'
    BY <1>13 DEF Reply, NewMaps, Reported, tables, writes, TypeInv, TypeOK, HasPayload, OnPayload, At, Body
  <2>c. DevicesKnown'
    BY <1>13 DEF Reply, NewMaps, Reported, tables, writes, TypeInv, TypeOK, DevicesKnown, Id, Cur, At, Body
  <2>. QED
    BY <2>a, <2>b, <2>c DEF TypeInv
<1>14. ASSUME NEW t \in Team, NEW u \in User, AddMember(t, u) \/ RevokeMember(t, u)
       PROVE  TypeInv'
  <2>1. <<t, u>> \in Owner
    BY DEF Owner
  <2>2. members' \in [Owner -> Status]
    BY <1>14, <1>t, <2>1 DEF AddMember, RevokeMember, TypeOK, Status
  <2>3. \A r \in Req : wasActive[r] \cup {<<t, u>>} \in SUBSET Owner
    BY <1>t, <2>1 DEF TypeOK
  <2>4. wasActive' \in [Req -> SUBSET Owner]
    <3>1. CASE AddMember(t, u)
      <4>1. wasActive' = [r \in Req |-> IF pc[r] = "idle" THEN {}
                                       ELSE wasActive[r] \cup {<<t, u>>}]
        BY <3>1 DEF AddMember
      <4>. QED
        BY <2>3, <4>1
    <3>2. CASE RevokeMember(t, u)
      BY <1>t, <3>2 DEF RevokeMember, TypeOK
    <3>. QED
      BY <1>14, <3>1, <3>2
  <2>a. TypeOK'
    BY <1>14, <1>t, <2>2, <2>4 DEF AddMember, RevokeMember, TypeOK, caches, writes
  <2>b. HasPayload' /\ DevicesKnown'
    BY <1>14 DEF AddMember, RevokeMember, caches, TypeInv, HasPayload, DevicesKnown,
                 OnPayload, At, Body, Id, Cur
  <2>. QED
    BY <2>a, <2>b DEF TypeInv
<1>15. CASE UNCHANGED vars
  BY <1>15 DEF vars, tables, caches, writes, TypeInv, TypeOK, HasPayload, DevicesKnown,
               OnPayload, At, Body, Id, Cur
<1>. QED
  BY <1>1, <1>2, <1>3, <1>4, <1>5, <1>6, <1>7, <1>8, <1>9, <1>10, <1>11, <1>12, <1>13,
     <1>14, <1>15 DEF Next, Handle

(***************************************************************************)
(* Every table, cache and private write set keeps its type, and the loop   *)
(* judges each payload of a body at most once.                             *)
(***************************************************************************)
THEOREM ServerTypes == Spec => []TypeInv
BY TypeInit, TypeStep, PTL DEF Spec

-----------------------------------------------------------------------------
(***************************************************************************)
(* The upload path implements the ledger.  LockInv is the point: whoever   *)
(* writes an event holds the row of its node, so no two transactions can   *)
(* have the same event uncommitted, and Commit only adds rows nobody has.  *)
(***************************************************************************)

\* The steps that leave events, locks and deltas alone keep LockInv, unless
\* they lead to a statement on usage_events.
LEMMA QuietStep ==
  ASSUME TypeInv, LockInv, NEW r \in Req,
         UNCHANGED <<touched, myEvents, myDelta, usageEvents>>,
         \A s \in Req \ {r} : /\ pc'[s] = pc[s]
                              /\ request'[s] = request[s]
                              /\ verdicts'[s] = verdicts[s],
         pc'[r] \notin InTransaction => pc[r] \notin InTransaction,
         pc'[r] \notin {"select", "insert"}
  PROVE  LockInv'
<1>1. NothingPending'
  BY DEF LockInv, NothingPending
<1>2. NodesExclusive' /\ WritesLocked' /\ WritesFresh'
  BY DEF LockInv, NodesExclusive, WritesLocked, WritesFresh, TouchedNodes
<1>3. EventLocked' /\ InsertFresh'
  BY DEF LockInv, EventLocked, InsertFresh, TouchedNodes, Seen, Id, Cur, Body, At
<1>. QED
  BY <1>1, <1>2, <1>3 DEF LockInv

\* No lock is held and nothing is pending at the start.
LEMMA LockInit == Init => LockInv
BY DEF Init, LockInv, NothingPending, NodesExclusive, WritesLocked, WritesFresh,
       EventLocked, InsertFresh, TouchedNodes, NoRows, NoDeltas

\* The node upsert waits for the row's holder, so locks stay exclusive.
LEMMA TouchLocks ==
  ASSUME TypeInv, LockInv, NEW r \in Req, Touch(r)
  PROVE  LockInv'
<1>. DEFINE n == NodeOf(Id(r))
<1>t. TypeOK
  BY DEF TypeInv
<1>p. n \in Node /\ UserOf(Id(r)) \in User
  BY PayloadType DEF Touch, TypeInv, HasPayload, OnPayload
<1>0. /\ pc[r] = "touch" /\ pc' = [pc EXCEPT ![r] = pc'[r]]
      /\ pc'[r] \in {"select", "daily"}
      /\ UNCHANGED <<request, verdicts, myEvents, myDelta, usageEvents>>
  BY <1>t DEF Touch, TypeOK, tables
<1>1. \A s \in Req \ {r} : TouchedNodes(s)' = TouchedNodes(s)
  BY <1>t DEF Touch, TypeOK, TouchedNodes
<1>2. TouchedNodes(r)' = TouchedNodes(r) \cup {n}
  <2>1. CASE <<UserOf(Id(r)), n>> \in touched[r]
    BY <1>p, <2>1 DEF Touch, TouchedNodes
  <2>2. CASE <<UserOf(Id(r)), n>> \notin touched[r]
    <3>1. touched'[r] = touched[r] \cup {<<UserOf(Id(r)), n>>}
      BY <1>t, <2>2 DEF Touch, TypeOK
    <3>. QED
      BY <1>p, <3>1 DEF TouchedNodes
  <2>. QED
    BY <2>1, <2>2
<1>3. \A s \in Req \ {r} : n \notin TouchedNodes(s)
  <2>1. CASE <<UserOf(Id(r)), n>> \in touched[r]
    <3>1. n \in TouchedNodes(r)
      BY <1>p, <2>1 DEF TouchedNodes
    <3>. QED
      BY <3>1 DEF LockInv, NodesExclusive
  <2>2. CASE <<UserOf(Id(r)), n>> \notin touched[r]
    BY <2>2 DEF Touch, NodeLocked
  <2>. QED
    BY <2>1, <2>2
<1>4. NothingPending'
  BY <1>0, <1>t DEF Touch, LockInv, NothingPending, InTransaction, TypeOK
<1>5. NodesExclusive'
  BY <1>1, <1>2, <1>3 DEF LockInv, NodesExclusive
<1>6. WritesLocked' /\ WritesFresh'
  BY <1>0, <1>1, <1>2 DEF LockInv, WritesLocked, WritesFresh
<1>7. EventLocked'
  <2>. SUFFICES ASSUME NEW s \in Req, pc'[s] \in {"select", "insert"}
                PROVE  NodeOf(Id(s)') \in TouchedNodes(s)'
    BY DEF EventLocked, NodeOf
  <2>1. Id(s)' = Id(s)
    BY <1>0 DEF Id, Cur, Body, At
  <2>2. CASE s = r
    BY <1>2, <2>1, <2>2
  <2>3. CASE s # r
    BY <1>0, <1>1, <1>t, <2>1, <2>3 DEF LockInv, EventLocked, TypeOK
  <2>. QED
    BY <2>2, <2>3
<1>8. InsertFresh'
  BY <1>0, <1>t DEF LockInv, InsertFresh, TypeOK, Seen, Id, Cur, Body, At
<1>. QED
  BY <1>4, <1>5, <1>6, <1>7, <1>8 DEF LockInv

\* What the SELECT did not find is absent when the INSERT is reached.
LEMMA SelectLocks ==
  ASSUME TypeInv, LockInv, NEW r \in Req, SelectEvent(r)
  PROVE  LockInv'
<1>t. TypeOK
  BY DEF TypeInv
<1>0. UNCHANGED <<touched, myEvents, myDelta, usageEvents, request>>
  BY DEF SelectEvent, tables, caches
<1>1. CASE Seen(r, Id(r)) # NoContent
  <2>1. pc'[r] = "next" /\ \A s \in Req \ {r} : pc'[s] = pc[s] /\ verdicts'[s] = verdicts[s]
    BY <1>1, <1>t DEF SelectEvent, Judge, TypeOK
  <2>. QED
    BY <1>0, <2>1, QuietStep DEF InTransaction
<1>2. CASE Seen(r, Id(r)) = NoContent
  <2>1. pc[r] = "select" /\ pc' = [pc EXCEPT ![r] = "insert"] /\ UNCHANGED verdicts
    BY <1>2 DEF SelectEvent
  <2>5. NothingPending'
    BY <1>0, <1>t, <2>1 DEF LockInv, NothingPending, InTransaction, TypeOK
  <2>2. NodesExclusive' /\ WritesLocked' /\ WritesFresh'
    BY <1>0 DEF LockInv, NodesExclusive, WritesLocked, WritesFresh, TouchedNodes
  <2>3. \A s \in Req : Id(s)' = Id(s) /\ Seen(s, Id(s))' = Seen(s, Id(s))
                       /\ TouchedNodes(s)' = TouchedNodes(s)
    BY <1>0, <2>1 DEF Id, Cur, Body, At, Seen, TouchedNodes
  <2>4. EventLocked' /\ InsertFresh'
    BY <1>2, <1>t, <2>1, <2>3 DEF LockInv, EventLocked, InsertFresh, TypeOK
  <2>. QED
    BY <2>2, <2>4, <2>5 DEF LockInv
<1>. QED
  BY <1>1, <1>2

\* What a transaction may insert, nobody has committed or is about to.
LEMMA NoCollision ==
  ASSUME TypeInv, LockInv, NEW r \in Req, pc[r] = "insert"
  PROVE  /\ ~Collides(r, Id(r))
         /\ myEvents[r][Id(r)] = NoContent
         /\ usageEvents[Id(r)] = NoContent
<1>1. Id(r) \in EventId
  BY PayloadType DEF TypeInv, HasPayload, OnPayload
<1>2. NodeOf(Id(r)) \in TouchedNodes(r)
  BY DEF LockInv, EventLocked
<1>3. \A s \in Req \ {r} : myEvents[s][Id(r)] = NoContent
  BY <1>1, <1>2 DEF LockInv, WritesLocked, NodesExclusive
<1>4. Seen(r, Id(r)) = NoContent
  BY DEF LockInv, InsertFresh
<1>. QED
  BY <1>3, <1>4 DEF Collides, Seen

\* The INSERT writes under the node lock, where nobody else has the event.
LEMMA InsertLocks ==
  ASSUME TypeInv, LockInv, NEW r \in Req, InsertEvent(r)
  PROVE  LockInv'
<1>t. TypeOK
  BY DEF TypeInv
<1>p. Id(r) \in EventId
  BY PayloadType DEF InsertEvent, Step, TypeInv, HasPayload, OnPayload
<1>0. /\ pc[r] = "insert" /\ pc' = [pc EXCEPT ![r] = "next"]
      /\ UNCHANGED <<touched, usageEvents, request>>
      /\ \A s \in Req \ {r} : verdicts'[s] = verdicts[s] /\ myDelta'[s] = myDelta[s]
      /\ myEvents' = [myEvents EXCEPT ![r][Id(r)] = Cur(r).content]
  BY <1>t DEF InsertEvent, Step, Judge, TypeOK, tables, caches
<1>1. /\ \A s \in Req \ {r} : myEvents'[s] = myEvents[s]
      /\ \A id \in EventId \ {Id(r)} : myEvents'[r][id] = myEvents[r][id]
  BY <1>0, <1>t DEF TypeOK
<1>2. \A s \in Req : TouchedNodes(s)' = TouchedNodes(s)
  BY <1>0 DEF TouchedNodes
<1>3. NothingPending'
  BY <1>0, <1>1, <1>t DEF LockInv, NothingPending, InTransaction, TypeOK
<1>4. NodesExclusive'
  BY <1>2 DEF LockInv, NodesExclusive
<1>5. NodeOf(Id(r)) \in TouchedNodes(r) /\ usageEvents[Id(r)] = NoContent
  BY <1>0, NoCollision DEF LockInv, EventLocked
<1>6. WritesLocked' /\ WritesFresh'
  BY <1>0, <1>1, <1>2, <1>5 DEF LockInv, WritesLocked, WritesFresh
<1>7. \A s \in Req : pc'[s] \in {"select", "insert"} =>
        s # r /\ pc'[s] = pc[s] /\ Id(s)' = Id(s) /\ Seen(s, Id(s))' = Seen(s, Id(s))
  BY <1>0, <1>1, <1>t DEF TypeOK, Seen, Id, Cur, Body, At
<1>8. EventLocked'
  BY <1>2, <1>7 DEF LockInv, EventLocked
<1>9. InsertFresh'
  BY <1>7 DEF LockInv, InsertFresh
<1>. QED
  BY <1>3, <1>4, <1>6, <1>8, <1>9 DEF LockInv

\* Commit and rollback release the locks and the private rows.
LEMMA EndLocks ==
  ASSUME TypeInv, LockInv, NEW r \in Req, Commit(r) \/ Fail(r)
  PROVE  LockInv'
<1>t. TypeOK
  BY DEF TypeInv
<1>0. /\ touched' = [touched EXCEPT ![r] = {}]
      /\ myEvents' = [myEvents EXCEPT ![r] = NoRows]
      /\ myDelta' = [myDelta EXCEPT ![r] = NoDeltas]
      /\ UNCHANGED <<request, verdicts>>
      /\ pc'[r] \in {"answered", "failed"}
      /\ \A s \in Req \ {r} : pc'[s] = pc[s]
  BY <1>t DEF Commit, Fail, Discard, TypeOK
<1>1. /\ TouchedNodes(r)' = {} /\ touched'[r] = {}
      /\ myEvents'[r] = NoRows /\ myDelta'[r] = NoDeltas
      /\ \A s \in Req \ {r} : /\ TouchedNodes(s)' = TouchedNodes(s)
                              /\ touched'[s] = touched[s]
                              /\ myEvents'[s] = myEvents[s]
                              /\ myDelta'[s] = myDelta[s]
  BY <1>0, <1>t DEF TouchedNodes, TypeOK
<1>2. \A id \in EventId : myEvents[r][id] = NoContent => usageEvents'[id] = usageEvents[id]
  BY DEF Commit, Fail, Publish, tables
<1>3. \A s \in Req \ {r} : \A id \in EventId :
        NodeOf(id) \in TouchedNodes(s) => usageEvents'[id] = usageEvents[id]
  BY <1>2 DEF LockInv, NodesExclusive, WritesLocked
<1>4. NothingPending' /\ NodesExclusive' /\ WritesLocked'
  <2>1. NothingPending'
    <3>. SUFFICES ASSUME NEW s \in Req, pc'[s] \notin InTransaction
                  PROVE  touched'[s] = {} /\ myEvents'[s] = NoRows /\ myDelta'[s] = NoDeltas
      BY DEF NothingPending
    <3>. QED
      BY <1>0, <1>1 DEF LockInv, NothingPending
  <2>2. NodesExclusive'
    BY <1>1 DEF LockInv, NodesExclusive
  <2>3. WritesLocked'
    BY <1>1 DEF LockInv, WritesLocked, NoRows
  <2>. QED
    BY <2>1, <2>2, <2>3
<1>5. WritesFresh'
  BY <1>1, <1>3 DEF LockInv, WritesFresh, WritesLocked, NoRows
<1>6. EventLocked'
  BY <1>0, <1>1 DEF LockInv, EventLocked, Id, Cur, Body, At
<1>7. InsertFresh'
  <2>. SUFFICES ASSUME NEW s \in Req, pc'[s] = "insert" PROVE Seen(s, Id(s))' = NoContent
    BY DEF InsertFresh
  <2>1. s # r /\ pc[s] = "insert"
    BY <1>0
  <2>2. Id(s) \in EventId /\ Id(s)' = Id(s)
    BY <1>0, <2>1, PayloadType DEF TypeInv, HasPayload, OnPayload, Id, Cur, Body, At
  <2>3. usageEvents'[Id(s)] = usageEvents[Id(s)] /\ myEvents'[s] = myEvents[s]
    BY <1>1, <1>3, <2>1, <2>2 DEF LockInv, EventLocked
  <2>. QED
    BY <2>1, <2>2, <2>3 DEF LockInv, InsertFresh, Seen
<1>. QED
  BY <1>4, <1>5, <1>6, <1>7 DEF LockInv

\* Every action keeps the lock discipline.
LEMMA LockStep == TypeInv /\ LockInv /\ [Next]_vars => LockInv'
<1>. SUFFICES ASSUME TypeInv, LockInv, [Next]_vars PROVE LockInv'
  OBVIOUS
<1>t. TypeOK
  BY DEF TypeInv
<1>1. ASSUME NEW r \in Req,
             Receive(r) \/ Connect(r) \/ Screen(r) \/ LookupMember(r) \/ CheckDevice(r)
               \/ UpsertDaily(r) \/ EndLoop(r) \/ Reply(r)
      PROVE  LockInv'
  <2>1. UNCHANGED <<touched, myEvents, myDelta, usageEvents>>
    BY <1>1 DEF Receive, Connect, Screen, LookupMember, CheckDevice, UpsertDaily,
       EndLoop, Reply, NewMaps, tables, caches, writes
  <2>2. \A s \in Req \ {r} : pc'[s] = pc[s] /\ request'[s] = request[s]
    BY <1>1, <1>t DEF Receive, Connect, Screen, LookupMember, CheckDevice, UpsertDaily,
       EndLoop, Reply, Step, TypeOK
  <2>3. \A s \in Req \ {r} : verdicts'[s] = verdicts[s]
    BY <1>1, <1>t DEF Receive, Connect, Screen, LookupMember, CheckDevice, UpsertDaily,
       EndLoop, Reply, Judge, TypeOK
  <2>4. pc'[r] \notin InTransaction => pc[r] \notin InTransaction
    BY <1>1, <1>t DEF Receive, Connect, Screen, LookupMember, CheckDevice, UpsertDaily,
       EndLoop, Reply, Step, InTransaction, TypeOK
  <2>5. pc'[r] \notin {"select", "insert"}
    BY <1>1, <1>t DEF Receive, Connect, Screen, LookupMember, CheckDevice, UpsertDaily,
       EndLoop, Reply, Step, TypeOK
  <2>. QED
    BY <2>1, <2>2, <2>3, <2>4, <2>5, QuietStep
<1>2. ASSUME NEW t \in Team, NEW u \in User, AddMember(t, u) \/ RevokeMember(t, u)
      PROVE  LockInv'
  <2>1. UNCHANGED <<usageEvents, pc, request, verdicts, touched, myEvents, myDelta>>
    BY <1>2 DEF AddMember, RevokeMember, caches, writes
  <2>. QED
    BY <2>1 DEF LockInv, NothingPending, NodesExclusive, WritesLocked, WritesFresh,
       EventLocked, InsertFresh, TouchedNodes, Seen, Id, Cur, Body, At
<1>3. CASE UNCHANGED vars
  BY <1>3 DEF vars, tables, caches, writes, LockInv, NothingPending,
     NodesExclusive, WritesLocked, WritesFresh, EventLocked, InsertFresh, TouchedNodes,
     Seen, Id, Cur, Body, At
<1>. QED
  BY <1>1, <1>2, <1>3, TouchLocks, SelectLocks, InsertLocks, EndLocks DEF Next, Handle

(***************************************************************************)
(* The deltas.                                                             *)
(***************************************************************************)
\* An event is counted in a bucket of its own team, user and node.
LEMMA KeyType ==
  ASSUME NEW id \in EventId, NEW c \in Content
  PROVE  KeyOf[<<id, c>>] \in Bucket
BY ServerAssumption DEF KeyOf, EventId, Bucket

\* A bucket of a table of events is finite.
LEMMA DeltaFinite ==
  ASSUME NEW l \in [EventId -> Content \cup {NoContent}], NEW k \in Bucket
  PROVE  IsFiniteSet(Ledger!InBucket(l, k))
<1>1. Ledger!InBucket(l, k) \subseteq EventId
  BY DEF Ledger!InBucket, Ledger!Stored
<1>. QED
  BY <1>1, FS_Subset, ServerAssumption

\* A transaction without writes has a zero delta.
LEMMA EmptyDelta ==
  ASSUME NEW k \in Bucket
  PROVE  NoDeltas[k] = Cardinality(Ledger!InBucket(NoRows, k))
<1>1. Ledger!InBucket(NoRows, k) = {}
  BY DEF Ledger!InBucket, Ledger!Stored, NoRows
<1>. QED
  BY <1>1, FS_EmptySet DEF NoDeltas

\* No transaction has a delta at the start.
LEMMA DeltaInit == Init => DeltaCounts
BY EmptyDelta DEF Init, DeltaCounts

\* An inserted event raises the delta of its bucket by one, and no other.
LEMMA DeltaInsert ==
  ASSUME TypeInv, LockInv, DeltaCounts, NEW r \in Req, InsertEvent(r)
  PROVE  DeltaCounts'
<1>t. TypeOK
  BY DEF TypeInv
<1>. DEFINE id == Id(r)
            c  == Cur(r).content
            k0 == KeyOf[<<id, c>>]
<1>p. id \in EventId /\ c \in Content
  BY PayloadType DEF InsertEvent, Step, TypeInv, HasPayload, OnPayload, Payload
<1>k. k0 \in Bucket
  BY <1>p, KeyType
<1>0. /\ myEvents' = [myEvents EXCEPT ![r][id] = c]
      /\ myDelta' = [myDelta EXCEPT ![r][k0] = @ + 1]
  BY DEF InsertEvent
<1>n. myEvents[r][id] = NoContent /\ c # NoContent
  BY <1>p, NoCollision, ServerAssumption DEF InsertEvent, Step
<1>. HIDE DEF id, c, k0
<1>1. ASSUME NEW s \in Req \ {r}, NEW k \in Bucket
      PROVE  myDelta'[s][k] = Cardinality(Ledger!InBucket(myEvents'[s], k))
  <2>1. myDelta'[s] = myDelta[s] /\ myEvents'[s] = myEvents[s]
    BY <1>0, <1>t DEF TypeOK
  <2>. QED
    BY <2>1 DEF DeltaCounts
<1>2. ASSUME NEW k \in Bucket
      PROVE  myDelta'[r][k] = Cardinality(Ledger!InBucket(myEvents'[r], k))
  <2>. DEFINE old == Ledger!InBucket(myEvents[r], k)
              new == Ledger!InBucket(myEvents'[r], k)
  <2>1. /\ myEvents'[r][id] = c
        /\ \A e \in EventId \ {id} : myEvents'[r][e] = myEvents[r][e]
    BY <1>0, <1>p, <1>t DEF TypeOK
  <2>2. id \notin old /\ IsFiniteSet(old)
    <3>1. id \notin old
      BY <1>n DEF Ledger!InBucket, Ledger!Stored
    <3>2. myEvents[r] \in [EventId -> Content \cup {NoContent}]
      BY <1>t DEF TypeOK
    <3>3. IsFiniteSet(old)
      BY <3>2, DeltaFinite
    <3>. QED
      BY <3>1, <3>3
  <2>3. myDelta[r][k] = Cardinality(old)
    BY DEF DeltaCounts
  <2>4. CASE k = k0
    <3>1. new = old \cup {id}
      BY <1>p, <1>n, <2>1, <2>4 DEF Ledger!InBucket, Ledger!Stored, k0
    <3>2. Cardinality(new) = Cardinality(old) + 1
      BY <2>2, <3>1, FS_AddElement
    <3>3. myDelta'[r][k] = myDelta[r][k] + 1
      BY <1>0, <1>k, <1>t, <2>4 DEF TypeOK
    <3>. QED
      BY <2>3, <3>2, <3>3
  <2>5. CASE k # k0
    <3>1. new = old
      BY <1>p, <1>n, <2>1, <2>5 DEF Ledger!InBucket, Ledger!Stored, k0
    <3>2. myDelta'[r][k] = myDelta[r][k]
      BY <1>0, <1>k, <1>t, <2>5 DEF TypeOK
    <3>. QED
      BY <2>3, <3>1, <3>2
  <2>. QED
    BY <2>4, <2>5
<1>. QED
  BY <1>1, <1>2 DEF DeltaCounts

\* Every action keeps a transaction's delta equal to what it inserted.
LEMMA DeltaStep == TypeInv /\ LockInv /\ DeltaCounts /\ [Next]_vars => DeltaCounts'
<1>. SUFFICES ASSUME TypeInv, LockInv, DeltaCounts, [Next]_vars PROVE DeltaCounts'
  OBVIOUS
<1>t. TypeOK
  BY DEF TypeInv
<1>1. ASSUME UNCHANGED <<myEvents, myDelta>> PROVE DeltaCounts'
  BY <1>1 DEF DeltaCounts
<1>2. ASSUME NEW r \in Req, Commit(r) \/ Fail(r) PROVE DeltaCounts'
  <2>1. /\ myEvents' = [myEvents EXCEPT ![r] = NoRows]
        /\ myDelta' = [myDelta EXCEPT ![r] = NoDeltas]
    BY <1>2 DEF Commit, Fail, Discard
  <2>2. /\ myEvents'[r] = NoRows /\ myDelta'[r] = NoDeltas
        /\ \A s \in Req \ {r} : myEvents'[s] = myEvents[s] /\ myDelta'[s] = myDelta[s]
    BY <2>1, <1>t DEF TypeOK
  <2>. QED
    BY <2>2, EmptyDelta DEF DeltaCounts
<1>3. ASSUME NEW r \in Req, Receive(r) \/ Connect(r) \/ Screen(r) \/ LookupMember(r)
               \/ CheckDevice(r) \/ Touch(r) \/ SelectEvent(r) \/ UpsertDaily(r)
               \/ EndLoop(r) \/ Reply(r)
      PROVE  UNCHANGED <<myEvents, myDelta>>
  BY <1>3 DEF Receive, Connect, Screen, LookupMember, CheckDevice, Touch, SelectEvent,
     UpsertDaily, EndLoop, Reply, writes
<1>4. ASSUME NEW t \in Team, NEW u \in User, AddMember(t, u) \/ RevokeMember(t, u)
      PROVE  UNCHANGED <<myEvents, myDelta>>
  BY <1>4 DEF AddMember, RevokeMember, writes
<1>5. CASE UNCHANGED vars
  BY <1>1, <1>5 DEF vars, writes
<1>. QED
  BY <1>1, <1>2, <1>3, <1>4, <1>5, DeltaInsert DEF Next, Handle

(***************************************************************************)
(* The invariant and what it gives.                                        *)
(***************************************************************************)

\* The invariant that TLC checks on small instances is inductive.
THEOREM ServerInvariant == Spec => []IInv
<1>1. Init => IInv
  BY TypeInit, LockInit, DeltaInit DEF IInv
<1>2. IInv /\ [Next]_vars => IInv'
  BY TypeStep, LockStep, DeltaStep DEF IInv
<1>. QED
  BY <1>1, <1>2, PTL DEF Spec

(***************************************************************************)
(* upsertEvent's INSERT, which has no ON CONFLICT clause, never fails on   *)
(* its primary key, however many uploads carry the same event.             *)
(***************************************************************************)
THEOREM ServerNoCollision == Spec => []InsertNeverCollides
<1>1. IInv => InsertNeverCollides
  BY NoCollision DEF IInv, InsertNeverCollides
<1>. QED
  BY ServerInvariant, <1>1, PTL

\* The instance of EventLedger has a Cardinality of its own; it is the same.
LEMMA SameCardinality ==
  ASSUME NEW S
  PROVE  Ledger!Cardinality(S) = Cardinality(S)
BY DEF Ledger!Cardinality, Cardinality

\* A commit adds to the ledger exactly the events and deltas it wrote.
LEMMA CommitAccepts ==
  ASSUME IInv, NEW r \in Req, Commit(r)
  PROVE  Ledger!Accept
<1>t. TypeOK
  BY DEF IInv, TypeInv
<1>0. /\ usageEvents' = [id \in EventId |->
            IF myEvents[r][id] = NoContent THEN usageEvents[id] ELSE myEvents[r][id]]
      /\ rollup' = [k \in Bucket |-> rollup[k] + myDelta[r][k]]
  BY DEF Commit, Publish
<1>1. usageEvents' \in Ledger!Ledgers
  BY <1>0, <1>t DEF TypeOK, Ledger!Ledgers
<1>2. \A id \in Ledger!Stored(usageEvents) : usageEvents'[id] = usageEvents[id]
  BY <1>0 DEF IInv, LockInv, WritesFresh, Ledger!Stored
<1>3. ASSUME NEW k \in Bucket
      PROVE  Ledger!NewIn(usageEvents, usageEvents', k) = Ledger!InBucket(myEvents[r], k)
  BY <1>0 DEF IInv, LockInv, WritesFresh, Ledger!NewIn, Ledger!InBucket, Ledger!Stored
<1>4. ASSUME NEW k \in Bucket
      PROVE  myDelta[r][k] = Cardinality(Ledger!NewIn(usageEvents, usageEvents', k))
  BY <1>3 DEF IInv, DeltaCounts
<1>5. rollup' = [k \in Bucket |->
                  rollup[k] + Cardinality(Ledger!NewIn(usageEvents, usageEvents', k))]
  BY <1>0, <1>4
<1>. QED
  BY <1>1, <1>2, <1>5, SameCardinality DEF Ledger!Accept

\* Every other action leaves the events and the rollup alone.
LEMMA OnlyCommitAccepts ==
  ASSUME IInv, [Next]_vars
  PROVE  [Ledger!Accept]_(Ledger!ledgerVars)
<1>1. ASSUME UNCHANGED <<usageEvents, rollup>> PROVE UNCHANGED Ledger!ledgerVars
  BY <1>1 DEF Ledger!ledgerVars
<1>2. ASSUME NEW r \in Req, Receive(r) \/ Connect(r) \/ Screen(r) \/ LookupMember(r)
               \/ CheckDevice(r) \/ Touch(r) \/ SelectEvent(r) \/ InsertEvent(r)
               \/ UpsertDaily(r) \/ EndLoop(r) \/ Fail(r) \/ Reply(r)
      PROVE  UNCHANGED <<usageEvents, rollup>>
  BY <1>2 DEF Receive, Connect, Screen, LookupMember, CheckDevice, Touch, SelectEvent,
     InsertEvent, UpsertDaily, EndLoop, Fail, Reply, tables
<1>3. ASSUME NEW t \in Team, NEW u \in User, AddMember(t, u) \/ RevokeMember(t, u)
      PROVE  UNCHANGED <<usageEvents, rollup>>
  BY <1>3 DEF AddMember, RevokeMember
<1>4. CASE UNCHANGED vars
  BY <1>1, <1>4 DEF vars, tables
<1>. QED
  BY <1>1, <1>2, <1>3, <1>4, CommitAccepts DEF Next, Handle

(***************************************************************************)
(* The upload path implements the ledger: committed events are never       *)
(* overwritten or removed, and every step moves usage_events and           *)
(* event_daily_rollup together.                                            *)
(***************************************************************************)
THEOREM ServerImplementsLedger == Spec => ImplementsLedger
<1>1. Init => Ledger!LedgerInit
  BY DEF Init, Ledger!LedgerInit, NoRows, NoDeltas
<1>2. IInv /\ [Next]_vars => [Ledger!Accept]_(Ledger!ledgerVars)
  BY OnlyCommitAccepts
<1>. QED
  BY <1>1, <1>2, ServerInvariant, PTL DEF Spec, ImplementsLedger, Ledger!LedgerSpec

(***************************************************************************)
(* What LedgerRollup says of the abstract ledger therefore holds of the    *)
(* server's tables.                                                        *)
(***************************************************************************)
Abstract == INSTANCE EventLedgerProofs
              WITH Key <- Bucket, ledger <- usageEvents

\* The server's constants satisfy what the ledger assumes of its own.
LEMMA LedgerAssumptionHolds == Abstract!LedgerAssumption
<1>1. KeyOf \in [EventId \X Content -> Bucket]
  BY ServerAssumption DEF KeyOf, EventId, Bucket
<1>2. Abstract!IsFiniteSet(EventId)
  BY ServerAssumption DEF IsFiniteSet, Abstract!IsFiniteSet
<1>. QED
  BY <1>1, <1>2, ServerAssumption DEF Abstract!LedgerAssumption

(***************************************************************************)
(* At every moment, and although each transaction only adds its own delta, *)
(* a bucket of event_daily_rollup counts the events that belong to it:     *)
(* for any number of requests, retries, rollbacks and lost commits.        *)
(***************************************************************************)
THEOREM ServerRollupMatches == Spec => []RollupMatchesEvents
<1>1. Ledger!LedgerInit => Abstract!LedgerInit
  BY DEF Ledger!LedgerInit, Abstract!LedgerInit
<1>2. [Ledger!Accept]_(Ledger!ledgerVars) => [Abstract!Accept]_(Abstract!ledgerVars)
  BY DEF Ledger!Accept, Ledger!ledgerVars, Abstract!Accept, Abstract!ledgerVars,
     Ledger!Ledgers, Abstract!Ledgers, Ledger!Stored, Abstract!Stored,
     Ledger!NewIn, Abstract!NewIn, Ledger!InBucket, Abstract!InBucket,
     Ledger!Cardinality, Abstract!Cardinality
<1>3. Abstract!RollupMatches => RollupMatchesEvents
  BY DEF RollupMatchesEvents, Abstract!RollupMatches, Ledger!RollupMatches,
     Ledger!InBucket, Abstract!InBucket, Ledger!Stored, Abstract!Stored,
     Ledger!Cardinality, Abstract!Cardinality
<1>4. Abstract!LedgerSpec => []Abstract!RollupMatches
  BY LedgerAssumptionHolds, Abstract!LedgerRollup
<1>. QED
  BY <1>1, <1>2, <1>3, <1>4, ServerImplementsLedger, PTL
     DEF ImplementsLedger, Ledger!LedgerSpec, Abstract!LedgerSpec

(***************************************************************************)
(* Membership.                                                             *)
(***************************************************************************)

\* An idle server has cached, admitted and written nothing.
LEMMA MemberInit == Init => MemberInv
BY DEF Init, MemberInv, ActiveKnown, CacheWasActive, Screened, Admitted,
       RevokedStaysOut, OnPayload, NoRows

\* The steps that leave members and caches alone, and write an event only for
\* an owner who was active.
LEMMA MemberQuiet ==
  ASSUME MemberInv, NEW r \in Req,
         UNCHANGED <<members, memberCache, wasActive, request>>,
         \A s \in Req \ {r} : /\ pc'[s] = pc[s]
                              /\ verdicts'[s] = verdicts[s]
                              /\ myEvents'[s] = myEvents[s],
         pc[r] # "idle",
         pc'[r] \in OnPayload => /\ pc[r] \in OnPayload \ {"member"}
                                 /\ verdicts'[r] = verdicts[r],
         \A id \in EventId : myEvents'[r][id] # NoContent =>
           myEvents[r][id] # NoContent \/ OwnerOf(id) \in wasActive[r]
  PROVE  MemberInv'
<1>1. ActiveKnown' /\ CacheWasActive'
  BY DEF MemberInv, ActiveKnown, CacheWasActive, Active
<1>2. \A s \in Req : pc'[s] \in OnPayload => Id(s)' = Id(s)
  BY DEF Id, Cur, Body, At
<1>3. Screened' /\ Admitted'
  BY <1>2 DEF MemberInv, Screened, Admitted, TeamOf, UserOf
<1>4. RevokedStaysOut'
  BY DEF MemberInv, RevokedStaysOut, OwnerOf
<1>. QED
  BY <1>1, <1>3, <1>4 DEF MemberInv

\* The loop head lets a payload through only for the team of the URL, and past
\* the lookup only when the cache says "active".
LEMMA MemberScreen ==
  ASSUME TypeInv, MemberInv, NEW r \in Req, Screen(r)
  PROVE  MemberInv'
<1>t. TypeOK
  BY DEF TypeInv
<1>p. UserOf(Id(r)) \in User
  BY PayloadType DEF Screen
<1>0. /\ UNCHANGED <<members, memberCache, wasActive, request, myEvents>>
      /\ pc[r] = "next" /\ pc'[r] \in {"next", "member", "devices"}
      /\ \A s \in Req \ {r} : pc'[s] = pc[s] /\ verdicts'[s] = verdicts[s]
  BY <1>t DEF Screen, Judge, TypeOK, tables, caches, writes
<1>1. pc'[r] # "next" => /\ UNCHANGED verdicts
                         /\ TeamOf(Id(r)) = request[r].team
                         /\ memberCache[r][UserOf(Id(r))] # "revoked"
                         /\ pc'[r] = "devices" => memberCache[r][UserOf(Id(r))] # "none"
  BY <1>0, <1>t DEF Screen, TypeOK, Id
<1>2. memberCache[r][UserOf(Id(r))] \in Status
  BY <1>p, <1>t DEF TypeOK
<1>3. \A s \in Req : pc'[s] \in OnPayload => Id(s)' = Id(s)
  BY <1>0, <1>1 DEF OnPayload, Id, Cur, Body, At
<1>4. ActiveKnown' /\ CacheWasActive' /\ RevokedStaysOut'
  BY <1>0 DEF MemberInv, ActiveKnown, CacheWasActive, RevokedStaysOut, Active, OwnerOf
<1>5. Screened'
  BY <1>0, <1>1, <1>3 DEF MemberInv, Screened, OnPayload, TeamOf
<1>6. Admitted'
  BY <1>0, <1>1, <1>2, <1>3 DEF MemberInv, Admitted, OnPayload, UserOf, Status
<1>. QED
  BY <1>4, <1>5, <1>6 DEF MemberInv

\* What the lookup caches is true at that moment.
LEMMA MemberLookup ==
  ASSUME TypeInv, MemberInv, NEW r \in Req, LookupMember(r)
  PROVE  MemberInv'
<1>t. TypeOK
  BY DEF TypeInv
<1>. DEFINE u == UserOf(Id(r))
            status == members[OwnerOf(Id(r))]
<1>p. u \in User /\ OwnerOf(Id(r)) \in Owner
  BY PayloadType DEF LookupMember, TypeInv, HasPayload, OnPayload
<1>0. /\ UNCHANGED <<members, wasActive, request, myEvents>>
      /\ pc[r] = "member"
      /\ memberCache' = [memberCache EXCEPT ![r][u] = status]
      /\ pc'[r] = IF status = "active" THEN "devices" ELSE "next"
      /\ status = "active" => UNCHANGED verdicts
      /\ \A s \in Req \ {r} : pc'[s] = pc[s] /\ verdicts'[s] = verdicts[s]
  BY <1>t DEF LookupMember, Judge, TypeOK, tables, writes
<1>1. /\ memberCache'[r][u] = status
      /\ \A v \in User \ {u} : memberCache'[r][v] = memberCache[r][v]
      /\ \A s \in Req \ {r} : memberCache'[s] = memberCache[s]
  BY <1>0, <1>p, <1>t DEF TypeOK
<1>2. OwnerOf(Id(r)) = <<request[r].team, u>>
  BY <1>0 DEF MemberInv, Screened, OnPayload, OwnerOf, TeamOf, UserOf
<1>3. status = "active" => <<request[r].team, u>> \in wasActive[r]
  BY <1>0, <1>2, <1>p DEF MemberInv, ActiveKnown, Active
<1>4. \A s \in Req : pc'[s] \in OnPayload => Id(s)' = Id(s)
  BY <1>0 DEF OnPayload, Id, Cur, Body, At
<1>. HIDE DEF status
<1>5. ActiveKnown' /\ RevokedStaysOut'
  BY <1>0 DEF MemberInv, ActiveKnown, RevokedStaysOut, Active, OwnerOf
<1>6. CacheWasActive'
  BY <1>0, <1>1, <1>3 DEF MemberInv, CacheWasActive
<1>7. Screened'
  BY <1>0, <1>4 DEF MemberInv, Screened, OnPayload, TeamOf
<1>8. Admitted'
  <2>. SUFFICES ASSUME NEW s \in Req, pc'[s] \in OnPayload \ {"member"}
                PROVE  memberCache'[s][UserOf(Id(s)')] = "active"
    BY DEF Admitted, UserOf
  <2>1. CASE s = r
    BY <1>0, <1>1, <1>4, <2>1 DEF OnPayload
  <2>2. CASE s # r
    BY <1>0, <1>1, <1>4, <2>2 DEF MemberInv, Admitted
  <2>. QED
    BY <2>1, <2>2
<1>. QED
  BY <1>5, <1>6, <1>7, <1>8 DEF MemberInv

\* A call of batchUpsert starts and ends with empty Maps.
LEMMA MemberEnds ==
  ASSUME TypeInv, LockInv, MemberInv, NEW r \in Req, Receive(r) \/ Reply(r)
  PROVE  MemberInv'
<1>t. TypeOK
  BY DEF TypeInv
<1>0. /\ UNCHANGED <<members, myEvents>>
      /\ pc[r] \notin InTransaction
      /\ pc'[r] \in {"idle", "connect", "answered"}
      /\ pc'[r] # "idle" => wasActive'[r] = Active
      /\ memberCache'[r] = NoMembers
      /\ \A s \in Req \ {r} : /\ pc'[s] = pc[s] /\ request'[s] = request[s]
                              /\ verdicts'[s] = verdicts[s]
                              /\ memberCache'[s] = memberCache[s]
                              /\ wasActive'[s] = wasActive[s]
  <2>1. CASE Receive(r)
    BY <1>t, <2>1 DEF Receive, NewMaps, TypeOK, InTransaction, tables, writes
  <2>2. CASE Reply(r)
    BY <1>t, <2>2 DEF Reply, NewMaps, TypeOK, InTransaction, tables, writes
  <2>. QED
    BY <2>1, <2>2
<1>1. myEvents[r] = NoRows
  BY <1>0 DEF LockInv, NothingPending
<1>2. ActiveKnown'
  BY <1>0 DEF MemberInv, ActiveKnown, Active
<1>3. CacheWasActive'
  BY <1>0 DEF MemberInv, CacheWasActive, NoMembers
<1>4. Screened' /\ Admitted'
  <2>1. \A s \in Req : pc'[s] \in OnPayload => /\ s # r /\ pc[s] = pc'[s]
                                               /\ Id(s)' = Id(s)
                                               /\ memberCache'[s] = memberCache[s]
                                               /\ request'[s] = request[s]
    BY <1>0 DEF OnPayload, Id, Cur, Body, At
  <2>. QED
    BY <2>1 DEF MemberInv, Screened, Admitted, TeamOf, UserOf
<1>5. RevokedStaysOut'
  BY <1>0, <1>1 DEF MemberInv, RevokedStaysOut, NoRows, OwnerOf
<1>. QED
  BY <1>2, <1>3, <1>4, <1>5 DEF MemberInv

\* A reactivation is noted for the requests that are under way.
LEMMA MemberChanges ==
  ASSUME TypeInv, LockInv, MemberInv, NEW t \in Team, NEW u \in User,
         AddMember(t, u) \/ RevokeMember(t, u)
  PROVE  MemberInv'
<1>t. TypeOK
  BY DEF TypeInv
<1>o. <<t, u>> \in Owner
  BY DEF Owner
<1>0. UNCHANGED <<pc, request, verdicts, memberCache, myEvents>>
  BY DEF AddMember, RevokeMember, caches, writes
<1>1. \A r \in Req : pc[r] # "idle" => /\ wasActive[r] \subseteq wasActive'[r]
                                       /\ Active' \subseteq wasActive'[r]
  <2>1. CASE AddMember(t, u)
    <3>1. Active' \subseteq Active \cup {<<t, u>>}
      BY <1>o, <1>t, <2>1 DEF AddMember, Active, TypeOK
    <3>2. \A r \in Req : pc[r] # "idle" => wasActive'[r] = wasActive[r] \cup {<<t, u>>}
      BY <2>1 DEF AddMember
    <3>. QED
      BY <3>1, <3>2 DEF MemberInv, ActiveKnown
  <2>2. CASE RevokeMember(t, u)
    <3>1. Active' \subseteq Active /\ UNCHANGED wasActive
      BY <1>o, <1>t, <2>2 DEF RevokeMember, Active, TypeOK
    <3>. QED
      BY <3>1 DEF MemberInv, ActiveKnown
  <2>. QED
    BY <2>1, <2>2
<1>2. ActiveKnown' /\ CacheWasActive'
  BY <1>0, <1>1 DEF MemberInv, ActiveKnown, CacheWasActive
<1>3. Screened' /\ Admitted'
  BY <1>0 DEF MemberInv, Screened, Admitted, Id, Cur, Body, At, TeamOf, UserOf
<1>4. RevokedStaysOut'
  <2>. SUFFICES ASSUME NEW r \in Req, NEW id \in EventId, myEvents[r][id] # NoContent
                PROVE  OwnerOf(id) \in wasActive'[r]
    BY <1>0 DEF RevokedStaysOut, OwnerOf
  <2>1. pc[r] # "idle"
    BY DEF LockInv, NothingPending, NoRows, InTransaction
  <2>. QED
    BY <1>1, <2>1 DEF MemberInv, RevokedStaysOut
<1>. QED
  BY <1>2, <1>3, <1>4 DEF MemberInv

\* Every action keeps what the membership checks established.
LEMMA MemberStep == TypeInv /\ LockInv /\ MemberInv /\ [Next]_vars => MemberInv'
<1>. SUFFICES ASSUME TypeInv, LockInv, MemberInv, [Next]_vars PROVE MemberInv'
  OBVIOUS
<1>t. TypeOK
  BY DEF TypeInv
<1>1. ASSUME NEW r \in Req,
             Connect(r) \/ CheckDevice(r) \/ Touch(r) \/ SelectEvent(r) \/ UpsertDaily(r)
               \/ EndLoop(r) \/ Commit(r) \/ Fail(r)
      PROVE  MemberInv'
  <2>1. UNCHANGED <<members, memberCache, wasActive, request>>
    BY <1>1 DEF Connect, CheckDevice, Touch, SelectEvent, UpsertDaily, EndLoop, Commit,
       Fail, tables, caches
  <2>2. \A s \in Req \ {r} : pc'[s] = pc[s] /\ verdicts'[s] = verdicts[s]
    BY <1>1, <1>t DEF Connect, CheckDevice, Touch, SelectEvent, UpsertDaily, EndLoop,
       Commit, Fail, Step, Judge, TypeOK
  <2>3. /\ \A s \in Req \ {r} : myEvents'[s] = myEvents[s]
        /\ \A id \in EventId : myEvents'[r][id] # NoContent => myEvents[r][id] # NoContent
    BY <1>1, <1>t DEF Connect, CheckDevice, Touch, SelectEvent, UpsertDaily, EndLoop,
       Commit, Fail, Discard, TypeOK, writes, NoRows
  <2>4. pc[r] # "idle"
    BY <1>1 DEF Connect, CheckDevice, Touch, SelectEvent, UpsertDaily, EndLoop,
       Commit, Fail, Step, InTransaction
  <2>5. pc'[r] \in OnPayload => /\ pc[r] \in OnPayload \ {"member"}
                                /\ verdicts'[r] = verdicts[r]
    BY <1>1, <1>t DEF Connect, CheckDevice, Touch, SelectEvent, UpsertDaily, EndLoop,
       Commit, Fail, Step, OnPayload, TypeOK
  <2>. QED
    BY <2>1, <2>2, <2>3, <2>4, <2>5, MemberQuiet
<1>2. ASSUME NEW r \in Req, InsertEvent(r) PROVE MemberInv'
  <2>0. /\ UNCHANGED <<members, memberCache, wasActive, request>>
        /\ pc[r] = "insert" /\ pc'[r] = "next"
        /\ \A s \in Req \ {r} : pc'[s] = pc[s] /\ verdicts'[s] = verdicts[s]
        /\ myEvents' = [myEvents EXCEPT ![r][Id(r)] = Cur(r).content]
    BY <1>2, <1>t DEF InsertEvent, Step, Judge, TypeOK, tables, caches
  <2>p. Id(r) \in EventId /\ UserOf(Id(r)) \in User
    BY <2>0, PayloadType DEF TypeInv, HasPayload, OnPayload
  <2>1. OwnerOf(Id(r)) = <<request[r].team, UserOf(Id(r))>>
    BY <2>0 DEF MemberInv, Screened, OnPayload, OwnerOf, TeamOf, UserOf
  <2>2. memberCache[r][UserOf(Id(r))] = "active"
    BY <2>0 DEF MemberInv, Admitted, OnPayload
  <2>3. OwnerOf(Id(r)) \in wasActive[r]
    BY <2>0, <2>1, <2>2, <2>p DEF MemberInv, CacheWasActive
  <2>4. /\ \A s \in Req \ {r} : myEvents'[s] = myEvents[s]
        /\ \A id \in EventId \ {Id(r)} : myEvents'[r][id] = myEvents[r][id]
    BY <2>0, <2>p, <1>t DEF TypeOK
  <2>. QED
    BY <2>0, <2>3, <2>4, MemberQuiet DEF OnPayload
<1>3. CASE UNCHANGED vars
  BY <1>3 DEF vars, tables, caches, writes, MemberInv, ActiveKnown, CacheWasActive,
     Screened, Admitted, RevokedStaysOut, Active, Id, Cur, Body, At, TeamOf, UserOf, OwnerOf
<1>. QED
  BY <1>1, <1>2, <1>3, MemberScreen, MemberLookup, MemberEnds, MemberChanges
     DEF Next, Handle

(***************************************************************************)
(* Verdicts and conflicts.                                                 *)
(***************************************************************************)

\* A response names event ids, and only of payloads the body has.
LEMMA ReportedType ==
  ASSUME TypeInv, NEW r \in Req, pc[r] # "idle"
  PROVE  Reported(r) \subseteq EventId
<1>1. request[r] \in [team : Team, events : Seq(Payload)]
  BY ServerAssumption DEF TypeInv, HasPayload
<1>2. Body(r) \in Seq(Payload)
  BY <1>1 DEF Body
<1>3. verdicts[r] \in Seq(Verdict) /\ Len(verdicts[r]) <= Len(Body(r))
  BY DEF TypeInv, TypeOK, HasPayload
<1>4. \A i \in DOMAIN verdicts[r] : Body(r)[i] \in Payload
  BY <1>2, <1>3
<1>. QED
  BY <1>4 DEF Reported, Payload

\* A verdict adds to the response at most the event it is about: nothing when
\* it is a refusal or the payload is a bucket.
LEMMA ReportedJudge ==
  ASSUME TypeInv, NEW r \in Req, NEW v \in Verdict, Judge(r, v), UNCHANGED request
  PROVE  /\ Reported(r)' \subseteq Reported(r) \cup {Id(r)}
         /\ v = "rejected" \/ Cur(r).kind = "daily" => Reported(r)' \subseteq Reported(r)
<1>1. verdicts[r] \in Seq(Verdict)
  BY DEF TypeInv, TypeOK
<1>2. verdicts'[r] = Append(verdicts[r], v)
  BY DEF Judge, TypeInv, TypeOK
<1>3. /\ DOMAIN verdicts'[r] = DOMAIN verdicts[r] \cup {At(r)}
      /\ verdicts'[r][At(r)] = v
      /\ \A i \in DOMAIN verdicts[r] : verdicts'[r][i] = verdicts[r][i]
  BY <1>1, <1>2 DEF At
<1>4. Body(r)' = Body(r)
  BY DEF Body
<1>. QED
  BY <1>3, <1>4 DEF Reported, Cur, Id

\* A request that has judged nothing reports nothing.
LEMMA ReportedNothing ==
  ASSUME NEW r \in Req, verdicts[r] = <<>>
  PROVE  Reported(r) = {}
BY DEF Reported

\* Nothing is reported, stored or in conflict at the start.
LEMMA AnswerInit == Init => AnswerInv
<1>. SUFFICES ASSUME Init PROVE AnswerInv
  OBVIOUS
<1>1. \A r \in Req : Reported(r) = {}
  BY ReportedNothing DEF Init
<1>. QED
  BY <1>1 DEF Init, AnswerInv, NothingJudged, KindMatches, ReportsStored, ConflictsFound,
     AckedIsStored, ConflictKeepsOlder

\* The steps that leave events and conflicts alone and report nothing more.
LEMMA AnswerQuiet ==
  ASSUME AnswerInv, NEW r \in Req,
         UNCHANGED <<usageEvents, myEvents, myConflicts, conflicts, acked>>,
         \A s \in Req \ {r} : /\ pc'[s] = pc[s]
                              /\ request'[s] = request[s]
                              /\ verdicts'[s] = verdicts[s],
         pc[r] \in InTransaction => pc'[r] \in InTransaction,
         pc'[r] \in {"idle", "connect"} => verdicts'[r] = <<>>,
         pc'[r] = "daily" => Cur(r)'.kind = "daily",
         \A id \in Reported(r)' : id \in Reported(r) /\ pc[r] \in InTransaction
  PROVE  AnswerInv'
<1>1. NothingJudged'
  BY DEF AnswerInv, NothingJudged
<1>2. KindMatches'
  BY DEF AnswerInv, KindMatches, Cur, Body, At
<1>3. \A s \in Req \ {r} : Reported(s)' = Reported(s)
  BY DEF Reported, Body
<1>4. \A s \in Req : \A id : Seen(s, id)' = Seen(s, id)
  BY DEF Seen
<1>5. ReportsStored'
  <2>. SUFFICES ASSUME NEW s \in Req, NEW id \in Reported(s)'
                PROVE  /\ pc'[s] \in InTransaction => Seen(s, id)' # NoContent
                       /\ pc'[s] = "answered" => usageEvents'[id] # NoContent
    BY DEF ReportsStored
  <2>1. CASE s = r
    BY <1>4, <2>1 DEF AnswerInv, ReportsStored, InTransaction
  <2>2. CASE s # r
    BY <1>3, <1>4, <2>2 DEF AnswerInv, ReportsStored
  <2>. QED
    BY <2>1, <2>2
<1>6. ConflictsFound'
  BY <1>4 DEF AnswerInv, ConflictsFound
<1>7. AckedIsStored' /\ ConflictKeepsOlder'
  BY DEF AnswerInv, AckedIsStored, ConflictKeepsOlder, Ledger!Stored
<1>. QED
  BY <1>1, <1>2, <1>5, <1>6, <1>7 DEF AnswerInv

\* The steps outside the statements on usage_events.
LEMMA AnswerOthers ==
  ASSUME TypeInv, AnswerInv, NEW r \in Req,
         Receive(r) \/ Connect(r) \/ Screen(r) \/ LookupMember(r) \/ CheckDevice(r)
           \/ Touch(r) \/ UpsertDaily(r) \/ EndLoop(r)
  PROVE  AnswerInv'
<1>t. TypeOK
  BY DEF TypeInv
<1>1. UNCHANGED <<usageEvents, myEvents, myConflicts, conflicts, acked>>
  BY DEF Receive, Connect, Screen, LookupMember, CheckDevice, Touch, UpsertDaily, EndLoop,
     tables, writes
<1>2. \A s \in Req \ {r} : /\ pc'[s] = pc[s] /\ request'[s] = request[s]
                           /\ verdicts'[s] = verdicts[s]
  BY <1>t DEF Receive, Connect, Screen, LookupMember, CheckDevice, Touch, UpsertDaily,
     EndLoop, Step, Judge, TypeOK
<1>3. pc[r] \in InTransaction => pc'[r] \in InTransaction
  BY <1>t DEF Receive, Connect, Screen, LookupMember, CheckDevice, Touch, UpsertDaily,
     EndLoop, Step, InTransaction, TypeOK
<1>4. pc'[r] \in {"idle", "connect"} => verdicts'[r] = <<>>
  BY <1>t DEF Receive, Connect, Screen, LookupMember, CheckDevice, Touch, UpsertDaily,
     EndLoop, Step, TypeOK
<1>5. pc'[r] = "daily" => Cur(r)'.kind = "daily"
  <2>. SUFFICES ASSUME pc'[r] = "daily" PROVE Cur(r)'.kind = "daily"
    OBVIOUS
  <2>1. Touch(r) /\ pc[r] = "touch"
    BY <1>t DEF Receive, Connect, Screen, LookupMember, CheckDevice, Touch, UpsertDaily,
       EndLoop, Step, TypeOK
  <2>2. Cur(r)' = Cur(r) /\ Cur(r).kind # "event"
    BY <1>t, <2>1 DEF Touch, TypeOK, Cur, Body, At
  <2>3. Cur(r) \in Payload
    BY <2>1, PayloadType DEF TypeInv, HasPayload, OnPayload
  <2>. QED
    BY <2>2, <2>3 DEF Payload
<1>6. \A id \in Reported(r)' : id \in Reported(r) /\ pc[r] \in InTransaction
  <2>1. CASE Receive(r)
    <3>1. verdicts'[r] = <<>>
      BY <1>t, <2>1 DEF Receive, TypeOK
    <3>. QED
      BY <3>1 DEF Reported
  <2>2. CASE Connect(r)
    <3>1. verdicts'[r] = <<>>
      BY <2>2 DEF Connect, Step, AnswerInv, NothingJudged
    <3>. QED
      BY <3>1 DEF Reported
  <2>3. CASE (Screen(r) \/ LookupMember(r) \/ CheckDevice(r)) /\ Judge(r, "rejected")
    <3>1. UNCHANGED request /\ pc[r] \in InTransaction
      BY <2>3 DEF Screen, LookupMember, CheckDevice, InTransaction
    <3>. QED
      BY <2>3, <3>1, ReportedJudge DEF Verdict
  <2>4. CASE UpsertDaily(r)
    <3>1. UNCHANGED request /\ Judge(r, "accepted") /\ pc[r] \in InTransaction
          /\ Cur(r).kind = "daily"
      BY <2>4 DEF UpsertDaily, Step, InTransaction, AnswerInv, KindMatches
    <3>. QED
      BY <3>1, ReportedJudge DEF Verdict
  <2>5. CASE UNCHANGED <<request, verdicts>> /\ pc[r] \in InTransaction
    BY <2>5 DEF Reported, Body
  <2>. QED
    BY <2>1, <2>2, <2>3, <2>4, <2>5 DEF Screen, LookupMember, CheckDevice, Touch, EndLoop,
       Step, InTransaction
<1>. QED
  BY <1>1, <1>2, <1>3, <1>4, <1>5, <1>6, AnswerQuiet

\* A duplicate is there already, and a conflict row names what is there.
LEMMA AnswerSelect ==
  ASSUME TypeInv, AnswerInv, NEW r \in Req, SelectEvent(r)
  PROVE  AnswerInv'
<1>t. TypeOK
  BY DEF TypeInv
<1>. DEFINE prior == Seen(r, Id(r))
            c == Cur(r).content
<1>0. /\ UNCHANGED <<usageEvents, myEvents, conflicts, acked, request>>
      /\ pc[r] = "select" /\ pc'[r] \in {"insert", "next"}
      /\ \A s \in Req \ {r} : pc'[s] = pc[s] /\ verdicts'[s] = verdicts[s]
      /\ \A s \in Req \ {r} : myConflicts'[s] = myConflicts[s]
  BY <1>t DEF SelectEvent, Judge, TypeOK, tables, caches
<1>1. CASE prior = NoContent
  <2>1. UNCHANGED <<verdicts, myConflicts>>
    BY <1>1 DEF SelectEvent
  <2>2. Reported(r)' = Reported(r)
    BY <1>0, <2>1 DEF Reported, Body
  <2>. QED
    BY <1>0, <2>1, <2>2, AnswerQuiet DEF InTransaction
<1>2. CASE prior # NoContent
  <2>0. /\ Judge(r, "duplicate") /\ pc'[r] = "next"
        /\ myConflicts'[r] \subseteq myConflicts[r] \cup {<<Id(r), prior, c>>}
        /\ prior = c => myConflicts'[r] = myConflicts[r]
    BY <1>2, <1>t DEF SelectEvent, ConflictRow, TypeOK
  <2>1. Reported(r)' \subseteq Reported(r) \cup {Id(r)}
    BY <1>0, <2>0, ReportedJudge DEF Verdict
  <2>2. \A s \in Req : \A id : Seen(s, id)' = Seen(s, id)
    BY <1>0 DEF Seen
  <2>3. NothingJudged' /\ KindMatches'
    BY <1>0, <2>0 DEF AnswerInv, NothingJudged, KindMatches, Cur, Body, At
  <2>4. ReportsStored'
    <3>. SUFFICES ASSUME NEW s \in Req, NEW id \in Reported(s)'
                  PROVE  /\ pc'[s] \in InTransaction => Seen(s, id)' # NoContent
                         /\ pc'[s] = "answered" => usageEvents'[id] # NoContent
      BY DEF ReportsStored
    <3>1. CASE s = r
      BY <1>0, <1>2, <2>0, <2>1, <2>2, <3>1
         DEF AnswerInv, ReportsStored, InTransaction
    <3>2. CASE s # r
      <4>1. Reported(s)' = Reported(s)
        BY <1>0, <3>2 DEF Reported, Body
      <4>. QED
        BY <1>0, <2>2, <3>2, <4>1 DEF AnswerInv, ReportsStored
    <3>. QED
      BY <3>1, <3>2
  <2>5. ConflictsFound'
    <3>. SUFFICES ASSUME NEW s \in Req, NEW x \in myConflicts'[s]
                  PROVE  /\ pc'[s] \in InTransaction
                         /\ Seen(s, x[1])' = x[2] /\ x[2] # NoContent /\ x[2] # x[3]
      BY DEF ConflictsFound
    <3>1. CASE x \in myConflicts[s]
      BY <1>0, <2>0, <2>2, <3>1 DEF AnswerInv, ConflictsFound, InTransaction
    <3>2. CASE x \notin myConflicts[s]
      <4>1. s = r /\ x = <<Id(r), prior, c>> /\ prior # c
        BY <1>0, <2>0, <3>2
      <4>. QED
        BY <1>2, <2>0, <2>2, <4>1 DEF InTransaction
    <3>. QED
      BY <3>1, <3>2
  <2>6. AckedIsStored' /\ ConflictKeepsOlder'
    BY <1>0 DEF AnswerInv, AckedIsStored, ConflictKeepsOlder, Ledger!Stored
  <2>. QED
    BY <2>3, <2>4, <2>5, <2>6 DEF AnswerInv
<1>. QED
  BY <1>1, <1>2

\* An accepted event is among the rows of its transaction; no older row changes.
LEMMA AnswerInsert ==
  ASSUME TypeInv, LockInv, AnswerInv, NEW r \in Req, InsertEvent(r)
  PROVE  AnswerInv'
<1>t. TypeOK
  BY DEF TypeInv
<1>0. /\ UNCHANGED <<usageEvents, myConflicts, conflicts, acked, request>>
      /\ pc[r] = "insert" /\ pc'[r] = "next" /\ Judge(r, "accepted")
      /\ \A s \in Req \ {r} : pc'[s] = pc[s] /\ verdicts'[s] = verdicts[s]
      /\ myEvents' = [myEvents EXCEPT ![r][Id(r)] = Cur(r).content]
  BY <1>t DEF InsertEvent, Step, Judge, TypeOK, tables, caches
<1>p. Id(r) \in EventId /\ Cur(r).content \in Content
  BY <1>0, PayloadType DEF TypeInv, HasPayload, OnPayload, Payload
<1>1. /\ \A s \in Req \ {r} : myEvents'[s] = myEvents[s]
      /\ \A id \in EventId \ {Id(r)} : myEvents'[r][id] = myEvents[r][id]
      /\ myEvents'[r][Id(r)] # NoContent
  BY <1>0, <1>p, <1>t, ServerAssumption DEF TypeOK
<1>2. Seen(r, Id(r)) = NoContent
  BY <1>0 DEF LockInv, InsertFresh
<1>3. \A s \in Req : \A id \in EventId :
        Seen(s, id) # NoContent => Seen(s, id)' = Seen(s, id)
  BY <1>0, <1>1, <1>2 DEF Seen
<1>4. \A id \in EventId : id = Id(r) => Seen(r, id)' # NoContent
  BY <1>1 DEF Seen
<1>5. Reported(r)' \subseteq Reported(r) \cup {Id(r)}
  BY <1>0, ReportedJudge DEF Verdict
<1>6. NothingJudged' /\ KindMatches'
  BY <1>0 DEF AnswerInv, NothingJudged, KindMatches, Cur, Body, At
<1>7. ReportsStored'
  <2>. SUFFICES ASSUME NEW s \in Req, NEW id \in Reported(s)'
                PROVE  /\ pc'[s] \in InTransaction => Seen(s, id)' # NoContent
                       /\ pc'[s] = "answered" => usageEvents'[id] # NoContent
    BY DEF ReportsStored
  <2>1. CASE s = r /\ id = Id(r)
    BY <1>0, <1>4, <1>p, <2>1
  <2>2. CASE s = r /\ id # Id(r)
    <3>1. id \in Reported(r) /\ id \in EventId
      BY <1>0, <1>5, <2>2, ReportedType
    <3>. QED
      BY <1>0, <1>3, <2>2, <3>1 DEF AnswerInv, ReportsStored, InTransaction
  <2>3. CASE s # r
    <3>1. Reported(s)' = Reported(s)
      BY <1>0, <2>3 DEF Reported, Body
    <3>2. pc'[s] \in InTransaction => id \in EventId
      BY <1>0, <2>3, <3>1, ReportedType DEF InTransaction
    <3>. QED
      BY <1>0, <1>3, <2>3, <3>1, <3>2 DEF AnswerInv, ReportsStored
  <2>. QED
    BY <2>1, <2>2, <2>3
<1>8. ConflictsFound'
  <2>. SUFFICES ASSUME NEW s \in Req, NEW x \in myConflicts[s]
                PROVE  /\ pc'[s] \in InTransaction
                       /\ Seen(s, x[1])' = x[2] /\ x[2] # NoContent /\ x[2] # x[3]
    BY <1>0 DEF ConflictsFound
  <2>1. x[1] \in EventId
    BY <1>t DEF TypeOK
  <2>2. /\ pc[s] \in InTransaction
        /\ Seen(s, x[1]) = x[2] /\ x[2] # NoContent /\ x[2] # x[3]
    BY DEF AnswerInv, ConflictsFound
  <2>. QED
    BY <1>0, <1>3, <2>1, <2>2 DEF InTransaction
<1>9. AckedIsStored' /\ ConflictKeepsOlder'
  BY <1>0 DEF AnswerInv, AckedIsStored, ConflictKeepsOlder, Ledger!Stored
<1>. QED
  BY <1>6, <1>7, <1>8, <1>9 DEF AnswerInv

\* A commit stores what the transaction saw, and takes nothing from the others.
LEMMA AnswerCommit ==
  ASSUME TypeInv, LockInv, AnswerInv, NEW r \in Req, Commit(r)
  PROVE  AnswerInv'
<1>t. TypeOK
  BY DEF TypeInv
<1>0. /\ UNCHANGED <<request, verdicts, acked>>
      /\ pc[r] = "commit" /\ pc'[r] \in {"answered", "failed"}
      /\ conflicts' = conflicts \cup myConflicts[r]
      /\ \A s \in Req \ {r} : /\ pc'[s] = pc[s]
                              /\ myEvents'[s] = myEvents[s]
                              /\ myConflicts'[s] = myConflicts[s]
      /\ myConflicts'[r] = {}
  BY <1>t DEF Commit, Publish, Discard, TypeOK
<1>1. \A id \in EventId : usageEvents'[id] = Seen(r, id)
  BY DEF Commit, Publish, Seen
<1>2. \A id \in EventId : usageEvents[id] # NoContent => usageEvents'[id] = usageEvents[id]
  BY <1>1 DEF LockInv, WritesFresh, Seen
<1>3. \A s \in Req \ {r} : \A id \in EventId :
        Seen(s, id) # NoContent => Seen(s, id)' = Seen(s, id)
  BY <1>0, <1>2 DEF Seen
<1>4. \A s \in Req : Reported(s)' = Reported(s)
  BY <1>0 DEF Reported, Body
<1>5. NothingJudged' /\ KindMatches'
  BY <1>0 DEF AnswerInv, NothingJudged, KindMatches, Cur, Body, At
<1>6. ReportsStored'
  <2>. SUFFICES ASSUME NEW s \in Req, NEW id \in Reported(s)
                PROVE  /\ pc'[s] \in InTransaction => Seen(s, id)' # NoContent
                       /\ pc'[s] = "answered" => usageEvents'[id] # NoContent
    BY <1>4 DEF ReportsStored
  <2>1. pc[s] # "idle" => id \in EventId
    BY ReportedType
  <2>2. CASE s = r
    BY <1>0, <1>1, <2>1, <2>2 DEF AnswerInv, ReportsStored, InTransaction
  <2>3. CASE s # r
    BY <1>0, <1>2, <1>3, <2>1, <2>3 DEF AnswerInv, ReportsStored, InTransaction
  <2>. QED
    BY <2>2, <2>3
<1>7. ConflictsFound'
  <2>. SUFFICES ASSUME NEW s \in Req \ {r}, NEW x \in myConflicts[s]
                PROVE  /\ pc[s] \in InTransaction
                       /\ Seen(s, x[1])' = x[2] /\ x[2] # NoContent /\ x[2] # x[3]
    BY <1>0 DEF ConflictsFound
  <2>1. x[1] \in EventId
    BY <1>t DEF TypeOK
  <2>. QED
    BY <1>3, <2>1 DEF AnswerInv, ConflictsFound
<1>8. AckedIsStored'
  BY <1>0, <1>2 DEF AnswerInv, AckedIsStored, Ledger!Stored
<1>9. ConflictKeepsOlder'
  <2>. SUFFICES ASSUME NEW x \in conflicts \cup myConflicts[r]
                PROVE  usageEvents'[x[1]] = x[2] /\ x[2] # x[3]
    BY <1>0 DEF ConflictKeepsOlder
  <2>1. x[1] \in EventId /\ x[2] \in Content
    BY <1>t DEF TypeOK
  <2>2. CASE x \in conflicts
    BY <1>2, <2>1, <2>2, ServerAssumption DEF AnswerInv, ConflictKeepsOlder
  <2>3. CASE x \in myConflicts[r]
    BY <1>1, <2>1, <2>3 DEF AnswerInv, ConflictsFound
  <2>. QED
    BY <2>2, <2>3
<1>. QED
  BY <1>5, <1>6, <1>7, <1>8, <1>9 DEF AnswerInv

\* A rollback leaves nothing to report, and nothing to the others.
LEMMA AnswerFail ==
  ASSUME TypeInv, AnswerInv, NEW r \in Req, Fail(r)
  PROVE  AnswerInv'
<1>t. TypeOK
  BY DEF TypeInv
<1>0. /\ UNCHANGED <<request, verdicts, acked, usageEvents, conflicts>>
      /\ pc'[r] = "failed" /\ myConflicts'[r] = {}
      /\ \A s \in Req \ {r} : /\ pc'[s] = pc[s]
                              /\ myEvents'[s] = myEvents[s]
                              /\ myConflicts'[s] = myConflicts[s]
  BY <1>t DEF Fail, Discard, TypeOK, tables
<1>1. \A s \in Req : Reported(s)' = Reported(s)
  BY <1>0 DEF Reported, Body
<1>2. \A s \in Req \ {r} : \A id : Seen(s, id)' = Seen(s, id)
  BY <1>0 DEF Seen
<1>3. NothingJudged' /\ KindMatches'
  BY <1>0 DEF AnswerInv, NothingJudged, KindMatches, Cur, Body, At
<1>4. ReportsStored'
  BY <1>0, <1>1, <1>2 DEF AnswerInv, ReportsStored, InTransaction
<1>5. ConflictsFound'
  BY <1>0, <1>2 DEF AnswerInv, ConflictsFound
<1>6. AckedIsStored' /\ ConflictKeepsOlder'
  BY <1>0 DEF AnswerInv, AckedIsStored, ConflictKeepsOlder, Ledger!Stored
<1>. QED
  BY <1>3, <1>4, <1>5, <1>6 DEF AnswerInv

\* The client is told of stored events only.
LEMMA AnswerReply ==
  ASSUME TypeInv, AnswerInv, NEW r \in Req, Reply(r)
  PROVE  AnswerInv'
<1>t. TypeOK
  BY DEF TypeInv
<1>0. /\ UNCHANGED <<myEvents, myConflicts, usageEvents, conflicts>>
      /\ pc[r] \notin InTransaction /\ pc[r] # "idle"
      /\ pc'[r] = "idle" /\ verdicts'[r] = <<>>
      /\ \A s \in Req \ {r} : /\ pc'[s] = pc[s] /\ request'[s] = request[s]
                              /\ verdicts'[s] = verdicts[s]
  BY <1>t DEF Reply, TypeOK, InTransaction, tables, writes
<1>1. Reported(r)' = {}
  BY <1>0 DEF Reported
<1>2. \A s \in Req \ {r} : Reported(s)' = Reported(s)
  BY <1>0 DEF Reported, Body
<1>3. \A s \in Req : \A id : Seen(s, id)' = Seen(s, id)
  BY <1>0 DEF Seen
<1>4. NothingJudged' /\ KindMatches'
  BY <1>0 DEF AnswerInv, NothingJudged, KindMatches, Cur, Body, At
<1>5. ReportsStored'
  BY <1>0, <1>1, <1>2, <1>3 DEF AnswerInv, ReportsStored
<1>6. ConflictsFound'
  BY <1>0, <1>3 DEF AnswerInv, ConflictsFound
<1>7. AckedIsStored'
  <2>1. pc[r] = "answered" => Reported(r) \subseteq Ledger!Stored(usageEvents)
    BY <1>0, ReportedType DEF AnswerInv, ReportsStored, Ledger!Stored
  <2>2. acked' \subseteq Ledger!Stored(usageEvents)
    BY <2>1 DEF Reply, AnswerInv, AckedIsStored
  <2>. QED
    BY <1>0, <2>2 DEF AckedIsStored, Ledger!Stored
<1>8. ConflictKeepsOlder'
  BY <1>0 DEF AnswerInv, ConflictKeepsOlder
<1>. QED
  BY <1>4, <1>5, <1>6, <1>7, <1>8 DEF AnswerInv

\* Every action keeps what the verdicts and conflict rows say.
LEMMA AnswerStep == TypeInv /\ LockInv /\ AnswerInv /\ [Next]_vars => AnswerInv'
<1>. SUFFICES ASSUME TypeInv, LockInv, AnswerInv, [Next]_vars PROVE AnswerInv'
  OBVIOUS
<1>1. ASSUME UNCHANGED <<usageEvents, myEvents, myConflicts, conflicts, acked, pc, request,
                         verdicts>>
      PROVE  AnswerInv'
  BY <1>1 DEF AnswerInv, NothingJudged, KindMatches, ReportsStored, ConflictsFound,
     AckedIsStored, ConflictKeepsOlder, Reported, Seen, Cur, Body, At, Ledger!Stored
<1>2. ASSUME NEW t \in Team, NEW u \in User, AddMember(t, u) \/ RevokeMember(t, u)
      PROVE  AnswerInv'
  BY <1>1, <1>2 DEF AddMember, RevokeMember, writes
<1>3. CASE UNCHANGED vars
  BY <1>1, <1>3 DEF vars, tables, writes
<1>. QED
  BY <1>2, <1>3, AnswerOthers, AnswerSelect, AnswerInsert, AnswerCommit, AnswerFail,
     AnswerReply DEF Next, Handle

(***************************************************************************)
(* The theorems.                                                           *)
(***************************************************************************)

(***************************************************************************)
(* The whole invariant of the upload path is inductive: locks, uncommitted *)
(* rows, deltas, verdicts, conflict rows and cached memberships agree.     *)
(***************************************************************************)
THEOREM ServerFullInvariant == Spec => []FullInv
<1>1. Init => FullInv
  BY TypeInit, LockInit, DeltaInit, AnswerInit, MemberInit DEF FullInv, IInv
<1>2. FullInv /\ [Next]_vars => FullInv'
  BY TypeStep, LockStep, DeltaStep, AnswerStep, MemberStep DEF FullInv, IInv
<1>. QED
  BY <1>1, <1>2, PTL DEF Spec

(***************************************************************************)
(* What a 200 response called accepted or duplicate is committed and stays *)
(* so: marking such outbox rows sent loses nothing.                        *)
(***************************************************************************)
THEOREM ServerAcked == Spec => []AckedIsStored
<1>1. FullInv => AckedIsStored
  BY DEF FullInv, AnswerInv
<1>. QED
  BY ServerFullInvariant, <1>1, PTL

(***************************************************************************)
(* A sync_conflicts row names as prior the content that stands, for any    *)
(* number of concurrent uploads of one event id.                           *)
(***************************************************************************)
THEOREM ServerConflicts == Spec => []ConflictKeepsOlder
<1>1. FullInv => ConflictKeepsOlder
  BY DEF FullInv, AnswerInv
<1>. QED
  BY ServerFullInvariant, <1>1, PTL

(***************************************************************************)
(* A request that arrived after a revocation records nothing for the user, *)
(* although batchUpsert caches the membership per batch.                   *)
(***************************************************************************)
THEOREM ServerRevocation == Spec => []RevokedStaysOut
<1>1. FullInv => RevokedStaysOut
  BY DEF FullInv, MemberInv
<1>. QED
  BY ServerFullInvariant, <1>1, PTL
=============================================================================
