-------------------------- MODULE GoProgramsProofs --------------------------
(***************************************************************************)
(* Theorems about the Go daemon (GoDaemon), its providers (GoProviders), its *)
(* sessions (GoSessions), the start of the team servers (ServerBoot) and the *)
(* uploads of the Go server (GoServer), for any number of processes, command *)
(* lines, providers, goroutines, accounts, migrations and requests.          *)
(***************************************************************************)
EXTENDS Integers, GoDaemon, GoProviders, GoSessions, ServerBoot, GoServer,
        FiniteSetTheorems, SequenceTheorems, TLAPS

-----------------------------------------------------------------------------
DaemonTypeOK ==
  /\ flock \in Daemon \cup {NoDaemon}
  /\ pidFile \in Daemon \cup {NoDaemon}
  /\ daemon \in [Daemon -> {"off", "lock", "pid", "stale", "bind", "serve", "closing",
                            "unlock", "rmSocket", "rmPid"}]
  /\ cliCall \in [Cli -> [pc : {"idle", "wait", "kill"}, pid : Daemon \cup {NoDaemon}]]
  /\ \A c \in Cli : cliCall[c].pc = "kill" => cliCall[c].pid \in Daemon
  /\ swept \in [Daemon -> BOOLEAN]

\* Where RunForeground has the lock.
Locked == {"pid", "stale", "bind", "serve", "closing", "unlock"}

HolderLocked == \A d \in Daemon : daemon[d] \in Locked => flock = d

\* Once written the pid file stands, and once bound the socket, unless swept.
PidStands    == \A d \in Daemon : daemon[d] \in {"stale", "bind", "serve"} /\ ~swept[d] => pidFile = d
SocketStands == \A d \in Daemon : daemon[d] = "serve" /\ ~swept[d] => socket = d

DaemonInv == DaemonTypeOK /\ HolderLocked /\ PidStands /\ SocketStands

LEMMA DaemonTypeStep == ASSUME DaemonTypeOK, [DaemonNext]_daemonVars PROVE DaemonTypeOK'
<1>. USE DaemonAssumption DEF DaemonTypeOK
<1>1. ASSUME NEW d \in Daemon, Startup(d) PROVE DaemonTypeOK'
  BY <1>1 DEF Startup, AcquireLock, WritePid, RemoveStale, Bind, Goes, OwnPid
<1>2. ASSUME NEW d \in Daemon, CloseListener(d) \/ Unlock(d) \/ Crash(d) PROVE DaemonTypeOK'
  BY <1>2 DEF CloseListener, Unlock, Crash, Goes, Released
<1>3. ASSUME NEW d \in Daemon, CleanSocket(d) \/ CleanPid(d) PROVE DaemonTypeOK'
  BY <1>3 DEF CleanSocket, CleanPid, Goes, SweptBy
<1>4. ASSUME NEW c \in Cli, Ensure(c) \/ WaitEnds(c) \/ Quit(c) PROVE DaemonTypeOK'
  <2>1. CASE Ensure(c)
    BY <2>1 DEF Ensure, Goes, Cmd
  <2>2. CASE WaitEnds(c)
    BY <2>2 DEF WaitEnds, Cmd
  <2>3. CASE Quit(c)
    BY <2>3 DEF Quit, Goes
  <2>. QED
    BY <1>4, <2>1, <2>2, <2>3
<1>5. ASSUME NEW c \in Cli, ReadPid(c) PROVE DaemonTypeOK'
  BY <1>5 DEF ReadPid
<1>6. ASSUME NEW c \in Cli, Kill(c) PROVE DaemonTypeOK'
  BY <1>6 DEF Kill, Goes, Cmd
<1>7. CASE UNCHANGED daemonVars
  BY <1>7 DEF daemonVars
<1>. QED
  BY <1>1, <1>2, <1>3, <1>4, <1>5, <1>6, <1>7 DEF DaemonNext, Shutdown

LEMMA HolderStep ==
  ASSUME DaemonTypeOK, HolderLocked, [DaemonNext]_daemonVars PROVE HolderLocked'
<1>. USE DaemonAssumption DEF DaemonTypeOK, HolderLocked, Locked
<1>1. ASSUME NEW d \in Daemon, Startup(d) PROVE HolderLocked'
  BY <1>1 DEF Startup, AcquireLock, WritePid, RemoveStale, Bind, Goes, LockFree
<1>2. ASSUME NEW d \in Daemon, Shutdown(d) \/ Crash(d) PROVE HolderLocked'
  BY <1>2 DEF Shutdown, CloseListener, Unlock, CleanSocket, CleanPid, Crash, Goes, Released
<1>3. ASSUME NEW c \in Cli, Ensure(c) \/ WaitEnds(c) \/ Quit(c) \/ ReadPid(c) PROVE HolderLocked'
  BY <1>3 DEF Ensure, WaitEnds, Quit, ReadPid, Goes, Serving
<1>4. ASSUME NEW c \in Cli, Kill(c) PROVE HolderLocked'
  BY <1>4 DEF Kill, Goes
<1>5. CASE UNCHANGED daemonVars
  BY <1>5 DEF daemonVars
<1>. QED
  BY <1>1, <1>2, <1>3, <1>4, <1>5 DEF DaemonNext

\* A daemon that starts or closes takes files from nobody: it has the lock.  One
\* that cleans up may, and then the others count as swept.
LEMMA FilesStep ==
  ASSUME DaemonInv, [DaemonNext]_daemonVars PROVE PidStands' /\ SocketStands'
<1>. USE DaemonAssumption DEF DaemonInv, DaemonTypeOK, HolderLocked, PidStands, SocketStands, Locked
<1>1. ASSUME NEW d \in Daemon, Startup(d) PROVE PidStands' /\ SocketStands'
  BY <1>1 DEF Startup, AcquireLock, WritePid, RemoveStale, Bind, Goes, OwnPid
<1>2. ASSUME NEW d \in Daemon, CloseListener(d) \/ Unlock(d) \/ Crash(d)
      PROVE  PidStands' /\ SocketStands'
  BY <1>2 DEF CloseListener, Unlock, Crash, Goes
<1>3. ASSUME NEW d \in Daemon, CleanSocket(d) \/ CleanPid(d) PROVE PidStands' /\ SocketStands'
  BY <1>3 DEF CleanSocket, CleanPid, Goes, SweptBy, Alive
<1>4. ASSUME NEW c \in Cli, Ensure(c) \/ WaitEnds(c) \/ Quit(c) \/ ReadPid(c)
      PROVE  PidStands' /\ SocketStands'
  BY <1>4 DEF Ensure, WaitEnds, Quit, ReadPid, Goes
<1>5. ASSUME NEW c \in Cli, Kill(c) PROVE PidStands' /\ SocketStands'
  BY <1>5 DEF Kill, Goes
<1>6. CASE UNCHANGED daemonVars
  BY <1>6 DEF daemonVars
<1>. QED
  BY <1>1, <1>2, <1>3, <1>4, <1>5, <1>6 DEF DaemonNext, Shutdown

(***************************************************************************)
(* However many daemons are started, stopped, killed and crash over the     *)
(* same files, one at a time is between the lock and its release, and one   *)
(* that serves is found, unless the clean-up of another has run meanwhile.  *)
(***************************************************************************)
THEOREM DaemonsSound == DaemonSpec => []DaemonSound
<1>1. DaemonInit => DaemonInv
  BY DaemonAssumption DEF DaemonInit, DaemonInv, DaemonTypeOK, HolderLocked, PidStands,
                          SocketStands, Locked, NoCmd
<1>2. DaemonInv /\ [DaemonNext]_daemonVars => DaemonInv'
  BY DaemonTypeStep, HolderStep, FilesStep DEF DaemonInv
<1>3. DaemonInv => DaemonSound
  <2>1. DaemonInv => OneDaemon
    BY DEF DaemonInv, HolderLocked, Locked, OneDaemon
  <2>2. DaemonInv => ServingIsReachable
    BY DEF DaemonInv, PidStands, SocketStands, ServingIsReachable, Serving
  <2>. QED
    BY <2>1, <2>2 DEF DaemonSound
<1>. QED
  BY <1>1, <1>2, <1>3, PTL DEF DaemonSpec

-----------------------------------------------------------------------------
(***************************************************************************)
(* Refreshes of providers.                                                 *)
(***************************************************************************)
Snaps == [spend : Nat, limit : Nat, failed : BOOLEAN, known : BOOLEAN]

Tasks == [pc : {"idle", "fetch", "backoff", "failed", "store"}, left : Int, snap : Snaps]

ProviderTypeOK ==
  /\ snap \in [Provider -> Snaps] /\ good \in [Provider -> Snaps]
  /\ limit \in [Provider -> Nat] /\ spent \in [Provider -> Nat]
  /\ task \in [Asker \X Provider -> Tasks]

\* Refreshes that do not overlap.
Apart == \A p \in Provider \ raced : \A a, b \in Asker :
           task[<<a, p>>].pc # "idle" /\ task[<<b, p>>].pc # "idle" => a = b

\* A failed snapshot with the numbers of another.
Keeps(s, prior) == s.failed => /\ s.spend = prior.spend /\ s.limit = prior.limit
                               /\ s.known = prior.known

\* What a failed refresh is about to store has the numbers of the store.
FailureKeeps == \A p \in Provider \ raced : \A a \in Asker :
  task[<<a, p>>].pc = "store" => Keeps(task[<<a, p>>].snap, snap[p])

Figures == \A p \in Provider \ raced :
  /\ snap[p].spend = good[p].spend /\ snap[p].limit = good[p].limit
  /\ snap[p].known = good[p].known /\ good[p].failed = FALSE

\* notified says whether the last success is over its limit, if it has one.
NotYetWarned == \A p \in Provider \ raced :
  IF Over(good[p]) THEN p \in notified ELSE p \in notified => good[p].limit = 0

ProviderInv == ProviderTypeOK /\ Apart /\ FailureKeeps /\ Figures /\ NotYetWarned

LEMMA ProviderStart == ProviderInit => ProviderInv
<1>. SUFFICES ASSUME ProviderInit PROVE ProviderInv
  OBVIOUS
<1>1. NoSnap \in Snaps /\ NoTask \in Tasks /\ NoTask.pc = "idle" /\ ~Over(NoSnap) /\ NoSnap.failed = FALSE
  BY DEF NoSnap, NoTask, Snaps, Tasks, Over
<1>2. /\ \A p \in Provider : snap[p] = NoSnap /\ good[p] = NoSnap
      /\ \A t \in Asker \X Provider : task[t] = NoTask
  BY DEF ProviderInit
<1>3. ProviderTypeOK
  BY <1>1 DEF ProviderInit, ProviderTypeOK
<1>4. Apart /\ FailureKeeps /\ Figures
  BY <1>1, <1>2 DEF Apart, FailureKeeps, Figures, NoTask
<1>5. NotYetWarned
  BY <1>1, <1>2 DEF ProviderInit, NotYetWarned
<1>. QED
  BY <1>3, <1>4, <1>5 DEF ProviderInv

LEMMA NoSnapTyped == NoSnap \in Snaps
BY DEF NoSnap, Snaps

LEMMA TaskForms ==
  ASSUME NEW r \in Tasks, NEW n \in Int, NEW pc \in {"fetch", "backoff", "failed"}
  PROVE  /\ [r EXCEPT !.pc = pc, !.left = n] \in Tasks
         /\ [r EXCEPT !.pc = pc, !.left = n].pc = pc
BY DEF Tasks

LEMMA StoreForm ==
  ASSUME NEW r \in Tasks, NEW s \in Snaps
  PROVE  /\ [r EXCEPT !.pc = "store", !.snap = s] \in Tasks
         /\ [r EXCEPT !.pc = "store", !.snap = s].snap = s
BY DEF Tasks

\* Where the task of an asker and a provider gets in a step.
LEMMA TaskMoves ==
  ASSUME ProviderTypeOK, NEW a \in Asker, NEW p \in Provider, Skip(a, p) \/ TaskStep(a, p)
  PROVE  /\ task[<<a, p>>].pc # "idle"
         /\ \E r \in Tasks : Moves(a, p, r) /\ (r.pc = "store" => Keeps(r.snap, snap[p]))
<1>. USE DEF ProviderTypeOK
<1>0. task[<<a, p>>] \in Tasks /\ snap[p] \in Snaps /\ spent[p] \in Nat /\ limit[p] \in Nat
  OBVIOUS
<1>1. task[<<a, p>>].pc # "idle"
  BY DEF Skip, TaskStep, Fetch, Backoff, ReadPrior, StoreSet
<1>2. NoTask \in Tasks /\ NoTask.pc = "idle"
  BY DEF NoTask, NoSnap, Tasks, Snaps
<1>3. CASE Skip(a, p)
  BY <1>2, <1>3 DEF Skip
<1>4. CASE Fetch(a, p)
  <2>1. Budgeted(p) \in Snaps /\ Keeps(Budgeted(p), snap[p])
    BY <1>0 DEF Budgeted, Snaps, Keeps
  <2>2. CASE Moves(a, p, [NoTask EXCEPT !.pc = "store", !.snap = Budgeted(p)])
    <3>. DEFINE r == [NoTask EXCEPT !.pc = "store", !.snap = Budgeted(p)]
    <3>1. r \in Tasks /\ r.snap = Budgeted(p)
      BY <1>2, <2>1, StoreForm, Zenon
    <3>2. Moves(a, p, r)
      BY <2>2
    <3>. HIDE DEF r
    <3>. QED
      BY <1>1, <2>1, <3>1, <3>2
  <2>3. ASSUME NEW n \in {Fewer(task[<<a, p>>].left), 0},
               Moves(a, p, [NoTask EXCEPT !.pc = IF n > 0 THEN "backoff" ELSE "failed", !.left = n])
        PROVE  \E r \in Tasks : Moves(a, p, r) /\ r.pc # "store"
    <3>1. n \in Int
      BY <1>0 DEF Tasks, Fewer
    <3>2. PICK pc \in {"backoff", "failed"} : Moves(a, p, [NoTask EXCEPT !.pc = pc, !.left = n])
      BY <2>3
    <3>. QED
      BY <1>2, <3>1, <3>2, TaskForms
  <2>. QED
    BY <1>4, <2>2, <2>3 DEF Fetch
<1>5. CASE Backoff(a, p)
  <2>1. [task[<<a, p>>] EXCEPT !.pc = "fetch"] \in Tasks /\ [task[<<a, p>>] EXCEPT !.pc = "fetch"].pc = "fetch"
    BY <1>0 DEF Tasks
  <2>. QED
    BY <1>5, <2>1 DEF Backoff
<1>6. CASE ReadPrior(a, p)
  <2>1. Failed(snap[p]) \in Snaps /\ Keeps(Failed(snap[p]), snap[p])
    BY <1>0 DEF Failed, Snaps, Keeps
  <2>. QED
    <3>. DEFINE r == [NoTask EXCEPT !.pc = "store", !.snap = Failed(snap[p])]
    <3>1. r \in Tasks /\ r.snap = Failed(snap[p])
      BY <1>2, <2>1, StoreForm, Zenon
    <3>2. Moves(a, p, r)
      BY <1>6 DEF ReadPrior
    <3>. HIDE DEF r
    <3>. QED
      BY <1>1, <2>1, <3>1, <3>2
<1>7. CASE StoreSet(a, p)
  BY <1>2, <1>7 DEF StoreSet
<1>. QED
  BY <1>1, <1>3, <1>4, <1>5, <1>6, <1>7 DEF TaskStep

LEMMA ProviderTypeStep ==
  ASSUME ProviderTypeOK, [ProviderNext]_providerVars PROVE ProviderTypeOK'
<1>. USE ProviderAssumption DEF ProviderTypeOK
<1>1. ASSUME NEW a \in Asker, NEW P \in SUBSET Provider, Refresh(a, P) PROVE ProviderTypeOK'
  <2>1. NoTask \in Tasks
    BY DEF NoTask, NoSnap, Tasks, Snaps
  <2>2. [NoTask EXCEPT !.pc = "fetch", !.left = Attempts] \in Tasks
    <3>1. Attempts \in Int
      OBVIOUS
    <3>. QED
      BY <2>1, <3>1, TaskForms, Zenon
  <2>. QED
    BY <1>1, <2>2 DEF Refresh
<1>2. ASSUME NEW a \in Asker, NEW p \in Provider, Skip(a, p) \/ TaskStep(a, p) PROVE ProviderTypeOK'
  <2>1. task' \in [Asker \X Provider -> Tasks]
    BY <1>2, TaskMoves DEF Moves
  <2>2. CASE StoreSet(a, p)
    <3>1. task[<<a, p>>].snap \in Snaps
      BY DEF Tasks
    <3>. QED
      BY <2>1, <2>2, <3>1 DEF StoreSet
  <2>. QED
    BY <1>2, <2>1, <2>2 DEF Skip, TaskStep, Fetch, Backoff, ReadPrior
<1>5. ASSUME NEW p \in Provider, Spend(p) \/ SetBudget(p) PROVE ProviderTypeOK'
  <2>1. CASE Spend(p)
    <3>1. PICK n \in 0 .. MaxSpend : spent' = [spent EXCEPT ![p] = n]
      BY <2>1 DEF Spend
    <3>2. spent' \in [Provider -> Nat]
      BY <3>1
    <3>. QED
      BY <2>1, <3>2 DEF Spend
  <2>2. CASE SetBudget(p)
    <3>1. limit' \in [Provider -> Nat]
      BY <2>2 DEF SetBudget
    <3>. QED
      BY <2>2, <3>1 DEF SetBudget
  <2>. QED
    BY <1>5, <2>1, <2>2
<1>6. CASE UNCHANGED providerVars
  BY <1>6 DEF providerVars
<1>. QED
  BY <1>1, <1>2, <1>5, <1>6 DEF ProviderNext

LEMMA ApartStep ==
  ASSUME ProviderTypeOK, Apart, [ProviderNext]_providerVars PROVE Apart'
<1>. USE DEF ProviderTypeOK, Apart
<1>1. ASSUME NEW a \in Asker, NEW P \in SUBSET Provider, Refresh(a, P) PROVE Apart'
  BY <1>1 DEF Refresh, NoTask, NoSnap
<1>2. ASSUME NEW a \in Asker, NEW p \in Provider, Skip(a, p) \/ TaskStep(a, p) PROVE Apart'
  <2>1. raced' = raced
    BY <1>2 DEF Skip, TaskStep, Fetch, Backoff, ReadPrior, StoreSet
  <2>2. \A b \in Asker, q \in Provider : task'[<<b, q>>].pc # "idle" => task[<<b, q>>].pc # "idle"
    <3>1. PICK r \in Tasks : Moves(a, p, r)
      BY <1>2, TaskMoves
    <3>2. task[<<a, p>>].pc # "idle"
      BY <1>2, TaskMoves
    <3>. QED
      BY <3>1, <3>2 DEF Moves
  <2>. QED
    BY <2>1, <2>2
<1>3. CASE UNCHANGED <<task, raced>>
  BY <1>3
<1>. QED
  BY <1>1, <1>2, <1>3 DEF ProviderNext, Spend, SetBudget, providerVars

LEMMA FailureStep ==
  ASSUME ProviderTypeOK, Apart, FailureKeeps, [ProviderNext]_providerVars PROVE FailureKeeps'
<1>. USE DEF ProviderTypeOK, FailureKeeps
<1>1. ASSUME NEW a \in Asker, NEW P \in SUBSET Provider, Refresh(a, P) PROVE FailureKeeps'
  <2>1. [NoTask EXCEPT !.pc = "fetch", !.left = Attempts].pc # "store"
    BY DEF NoTask
  <2>2. \A t \in Asker \X Provider : task'[t].pc = "store" => task'[t] = task[t]
    BY <1>1, <2>1 DEF Refresh
  <2>. QED
    BY <1>1, <2>2 DEF Refresh
<1>2. ASSUME NEW a \in Asker, NEW p \in Provider, Skip(a, p) \/ TaskStep(a, p) PROVE FailureKeeps'
  <2>1. PICK r \in Tasks : Moves(a, p, r) /\ (r.pc = "store" => Keeps(r.snap, snap[p]))
    BY <1>2, TaskMoves
  <2>2. \A b \in Asker, q \in Provider :
          task'[<<b, q>>] = IF <<b, q>> = <<a, p>> THEN r ELSE task[<<b, q>>]
    BY <2>1 DEF Moves
  <2>3. CASE StoreSet(a, p)
    <3>1. \A q \in Provider : q # p => snap'[q] = snap[q]
      BY <2>3 DEF StoreSet
    <3>2. p \in raced \/ \A b \in Asker : b # a => task[<<b, p>>].pc = "idle"
      BY <2>3 DEF StoreSet, Apart
    <3>3. task'[<<a, p>>].pc = "idle"
      BY <2>3 DEF StoreSet, Moves, NoTask
    <3>. QED
      BY <2>2, <2>3, <3>1, <3>2, <3>3 DEF StoreSet
  <2>4. CASE snap' = snap /\ raced' = raced
    BY <2>1, <2>2, <2>4
  <2>. QED
    BY <1>2, <2>3, <2>4 DEF Skip, TaskStep, Fetch, Backoff, ReadPrior
<1>6. CASE UNCHANGED <<task, snap, raced>>
  BY <1>6
<1>. QED
  BY <1>1, <1>2, <1>6 DEF ProviderNext, Spend, SetBudget, providerVars

\* What a step that stores a snapshot does to the figures and the warning.
LEMMA StoreStep ==
  ASSUME ProviderInv, NEW a \in Asker, NEW p \in Provider, StoreSet(a, p), p \notin raced
  PROVE  /\ snap'[p].spend = good'[p].spend /\ snap'[p].limit = good'[p].limit
         /\ snap'[p].known = good'[p].known /\ good'[p].failed = FALSE
         /\ p \in notified' <=> IF Over(good'[p]) THEN TRUE
                                ELSE good'[p].limit = 0 /\ p \in notified
         /\ p \in notified' \ notified => ~Over(good[p])
         /\ p \in notified /\ ~Over(good[p]) => good[p].limit = 0
<1>. DEFINE s == task[<<a, p>>].snap
<1>0. task[<<a, p>>] \in Tasks
  BY DEF ProviderInv, ProviderTypeOK
<1>1. s \in Snaps /\ snap'[p] = s /\ snap[p] \in Snaps /\ good[p] \in Snaps
  BY <1>0 DEF ProviderInv, ProviderTypeOK, StoreSet, Tasks
<1>2. good' = IF s.failed THEN good ELSE [good EXCEPT ![p] = s]
  BY DEF StoreSet
<1>3. s.failed => s.spend = good[p].spend /\ s.limit = good[p].limit /\ s.known = good[p].known
  BY DEF ProviderInv, FailureKeeps, Keeps, Figures, StoreSet
<1>4. ~s.failed => good'[p] = s
  BY <1>2 DEF ProviderInv, ProviderTypeOK
<1>5. /\ s.spend = good'[p].spend /\ s.limit = good'[p].limit
      /\ s.known = good'[p].known /\ good'[p].failed = FALSE
  BY <1>1, <1>2, <1>3, <1>4 DEF ProviderInv, Figures, Snaps
<1>6. Over(s) = Over(good'[p])
  BY <1>5 DEF Over
<1>7. notified' = Warned(p, s)
  BY DEF StoreSet
<1>8. Over(s) => s.limit # 0
  BY <1>1 DEF Over, Snaps
<1>9. p \in notified' <=> IF Over(good'[p]) THEN TRUE ELSE good'[p].limit = 0 /\ p \in notified
  BY <1>5, <1>6, <1>7, <1>8 DEF Warned
<1>10. /\ p \notin notified => ~Over(good[p])
       /\ p \in notified /\ ~Over(good[p]) => good[p].limit = 0
  BY DEF ProviderInv, NotYetWarned
<1>. QED
  BY <1>1, <1>5, <1>9, <1>10

LEMMA OnlyStoring ==
  ASSUME [ProviderNext]_providerVars
  PROVE  \/ \E a \in Asker, p \in Provider : StoreSet(a, p)
         \/ UNCHANGED <<snap, good, notified>> /\ raced \subseteq raced'
<1>1. ASSUME NEW a \in Asker, NEW P \in SUBSET Provider, Refresh(a, P)
      PROVE  UNCHANGED <<snap, good, notified>> /\ raced \subseteq raced'
  BY <1>1 DEF Refresh
<1>2. ASSUME NEW a \in Asker, NEW p \in Provider, Skip(a, p) \/ Fetch(a, p) \/ Backoff(a, p) \/ ReadPrior(a, p)
      PROVE  UNCHANGED <<snap, good, notified, raced>>
  BY <1>2 DEF Skip, Fetch, Backoff, ReadPrior
<1>3. ASSUME NEW p \in Provider, Spend(p) \/ SetBudget(p)
      PROVE  UNCHANGED <<snap, good, notified, raced>>
  BY <1>3 DEF Spend, SetBudget
<1>. QED
  BY <1>1, <1>2, <1>3 DEF ProviderNext, TaskStep, providerVars

LEMMA FiguresStep ==
  ASSUME ProviderInv, [ProviderNext]_providerVars PROVE Figures' /\ NotYetWarned'
<1>1. ASSUME NEW a \in Asker, NEW p \in Provider, StoreSet(a, p) PROVE Figures' /\ NotYetWarned'
  <2>1. raced' = raced
    BY <1>1 DEF StoreSet
  <2>2. \A q \in Provider : q # p => /\ snap'[q] = snap[q] /\ good'[q] = good[q]
                                     /\ q \in notified' <=> q \in notified
    BY <1>1 DEF StoreSet, Warned, ProviderInv, ProviderTypeOK
  <2>3. p \in raced \/ (/\ snap'[p].spend = good'[p].spend /\ snap'[p].limit = good'[p].limit
                        /\ snap'[p].known = good'[p].known /\ good'[p].failed = FALSE
                        /\ IF Over(good'[p]) THEN p \in notified'
                           ELSE p \in notified' => good'[p].limit = 0)
    BY <1>1, StoreStep
  <2>. QED
    BY <2>1, <2>2, <2>3 DEF ProviderInv, Figures, NotYetWarned, Over
<1>2. CASE UNCHANGED <<snap, good, notified>> /\ raced \subseteq raced'
  BY <1>2 DEF ProviderInv, Figures, NotYetWarned, Over
<1>. QED
  BY <1>1, <1>2, OnlyStoring

LEMMA ProviderStep == ProviderInv /\ [ProviderNext]_providerVars => ProviderInv'
BY ProviderTypeStep, ApartStep, FailureStep, FiguresStep DEF ProviderInv

LEMMA WarningsCross ==
  ASSUME ProviderInv, ProviderNext, NEW p \in Provider \ raced, Warns(p)
  PROVE  Crosses(p)
<1>1. PICK a \in Asker, q \in Provider : StoreSet(a, q)
  BY OnlyStoring DEF Warns
<1>2. p = q
  BY <1>1 DEF StoreSet, Warned, Warns
<1>3. p \in notified' /\ p \notin notified
  BY DEF Warns
<1>. QED
  BY <1>1, <1>2, <1>3, StoreStep DEF Crosses

LEMMA CrossingsWarn ==
  ASSUME ProviderInv, ProviderNext, NEW p \in Provider \ raced, Crosses(p)
  PROVE  Warns(p) \/ (p \in notified /\ good[p].limit = 0)
<1>1. PICK a \in Asker, q \in Provider : StoreSet(a, q)
  BY OnlyStoring DEF Crosses
<1>2. p = q
  <2>1. p # q => good'[p] = good[p]
    BY <1>1 DEF StoreSet, ProviderInv, ProviderTypeOK
  <2>. QED
    BY <2>1 DEF Crosses, Over
<1>3. p \in notified'
  BY <1>1, <1>2, StoreStep DEF Crosses
<1>. QED
  BY <1>1, <1>2, <1>3, StoreStep DEF Crosses, Warns

(***************************************************************************)
(* However refreshes of different providers interleave, fail and are        *)
(* retried, a failed one keeps the numbers of the last success, and a       *)
(* budget warning is given whenever the spend of the last success crosses   *)
(* the limit, and only then; a provider still held as warned from before a   *)
(* time without a limit is the one that is not warned of.                   *)
(***************************************************************************)
THEOREM ProvidersAreSound == ProviderSpec => ProvidersSound
<1>1. ProviderInv => ErrorKeepsLastGood
  BY DEF ProviderInv, ProviderTypeOK, Figures, ErrorKeepsLastGood, Snaps
<1>2. ProviderInv /\ [ProviderNext]_providerVars => [WarnsOncePerCrossing]_providerVars
  BY WarningsCross, CrossingsWarn DEF WarnsOncePerCrossing
<1>. QED
  BY <1>1, <1>2, ProviderStart, ProviderStep, PTL DEF ProviderSpec, ProvidersSound

-----------------------------------------------------------------------------
(***************************************************************************)
(* Servers that start, migrate, answer and stop.                           *)
(***************************************************************************)
Works   == [key : Nat, claims : BOOLEAN, user : BOOLEAN]
Servers == [pc : {"off", "read", "migrate", "serve", "drain"}, current : 0 .. Latest,
            mode : {"jwks", "insecure-noverify"}, audience : BOOLEAN, keys : Nat, work : Works]

\* The migrations are there up to some number, and are counted.
InOrder == \E n \in 0 .. Latest : versions = 1 .. n
Counted == /\ runs \in [1 .. Latest -> Nat]
           /\ \A v \in 2 .. Latest : runs[v] = IF v \in versions THEN 1 ELSE 0

\* What a server believes of the schema vs and of the issuer's keys is true.
ServerSound(f, vs, key) ==
  /\ 1 .. f.current \subseteq vs
  /\ f.pc \in {"serve", "drain"} => f.current = Latest /\ (f.mode = "jwks" => f.audience)
  /\ f.keys <= key
  /\ f.work.user /\ f.mode = "jwks" => f.work.claims /\ f.work.key \in 1 .. key

BootInv ==
  /\ InOrder /\ Counted /\ issuerKey \in Nat \ {0}
  /\ proc \in [Proc -> Servers]
  /\ \A s \in Proc : ServerSound(proc[s], versions, issuerKey)

LEMMA DownSound ==
  ASSUME NEW key \in Nat \ {0}, NEW vs
  PROVE  Down \in Servers /\ ServerSound(Down, vs, key)
BY BootAssumption DEF Down, NoWork, Servers, Works, ServerSound

LEMMA SoundStays ==
  ASSUME NEW f \in Servers, NEW vs, NEW ws, vs \subseteq ws, NEW k \in Nat, NEW m \in Nat, k <= m,
         ServerSound(f, vs, k)
  PROVE  ServerSound(f, ws, m)
BY DEF ServerSound, Servers, Works

LEMMA NewestVersion ==
  ASSUME NEW n \in 0 .. Latest, versions = 1 .. n
  PROVE  Newest = n
<1>. USE BootAssumption
<1>1. CASE n = 0
  BY <1>1 DEF Newest
<1>2. CASE n # 0
  <2>1. n \in versions /\ \A w \in versions : w <= n
    BY <1>2
  <2>2. \A v \in versions : (\A w \in versions : w <= v) => v = n
    BY <2>1
  <2>. QED
    BY <2>1, <2>2, <1>2 DEF Newest
<1>. QED
  BY <1>1, <1>2

\* A step of one server that leaves the schema alone.
QuietStep(s) == \/ Launch(s) \/ ReadVersion(s) \/ Listen(s) \/ Authorize(s) \/ RequestEnds(s)
                \/ RefreshKeys(s) \/ Terminate(s) \/ Exit(s) \/ Dies(s)

LEMMA QuietMoves ==
  ASSUME BootInv, NEW s \in Proc, QuietStep(s)
  PROVE  /\ UNCHANGED <<versions, issuerKey, runs>>
         /\ \E f \in Servers : On(s, f) /\ ServerSound(f, versions, issuerKey)
<1>. DEFINE g == proc[s]
<1>0. g \in Servers /\ ServerSound(g, versions, issuerKey) /\ issuerKey \in Nat \ {0}
  BY DEF BootInv
<1>. HIDE DEF g
<1>1. UNCHANGED <<versions, issuerKey, runs>>
  BY DEF QuietStep, Launch, ReadVersion, Listen, Authorize, RequestEnds, RefreshKeys, Terminate, Exit, Dies
<1>2. Down \in Servers /\ ServerSound(Down, versions, issuerKey)
  BY <1>0, DownSound
<1>3. CASE Launch(s)
  <2>1. PICK mode \in {"jwks", "insecure-noverify"}, audience \in BOOLEAN :
          On(s, [Down EXCEPT !.pc = "read", !.mode = mode, !.audience = audience])
    BY <1>3 DEF Launch
  <2>2. \A d \in Servers : ServerSound(d, versions, issuerKey) /\ ~d.work.user =>
          LET f == [d EXCEPT !.pc = "read", !.mode = mode, !.audience = audience] IN
            f \in Servers /\ ServerSound(f, versions, issuerKey)
    BY <1>0 DEF Servers, ServerSound
  <2>3. ~Down.work.user
    BY DEF Down, NoWork
  <2>. QED
    BY <1>1, <1>2, <2>1, <2>2, <2>3, Zenon
<1>4. CASE ReadVersion(s)
  <2>1. On(s, [g EXCEPT !.pc = "migrate", !.current = Newest])
    BY <1>4 DEF ReadVersion, g
  <2>2. Newest \in 0 .. Latest /\ versions = 1 .. Newest
    BY NewestVersion DEF BootInv, InOrder
  <2>3. /\ [g EXCEPT !.pc = "migrate", !.current = Newest] \in Servers
        /\ ServerSound([g EXCEPT !.pc = "migrate", !.current = Newest], versions, issuerKey)
    BY <1>0, <2>2 DEF Servers, ServerSound
  <2>. QED
    BY <1>1, <2>1, <2>3
<1>5. CASE Listen(s)
  <2>1. PICK warm \in {0, issuerKey} :
          On(s, IF Configured(g) THEN [g EXCEPT !.pc = "serve", !.keys = warm] ELSE Down)
    BY <1>5 DEF Listen, g
  <2>2. g.current = Latest
    BY <1>0, <1>5, BootAssumption DEF Listen, UpToDate, Servers, g
  <2>3. ASSUME Configured(g)
        PROVE  /\ [g EXCEPT !.pc = "serve", !.keys = warm] \in Servers
               /\ ServerSound([g EXCEPT !.pc = "serve", !.keys = warm], versions, issuerKey)
    <3>1. warm \in Nat /\ warm <= issuerKey
      BY <1>0
    <3>2. g.mode = "jwks" => g.audience
      BY <2>3 DEF Configured
    <3>. QED
      BY <1>0, <2>2, <3>1, <3>2 DEF Servers, ServerSound
  <2>. QED
    BY <1>1, <1>2, <2>1, <2>3
<1>6. CASE Authorize(s)
  <2>1. PICK t \in Tokens, fetched \in BOOLEAN :
          /\ t.key <= issuerKey
          /\ On(s, [g EXCEPT !.keys = Known(s, fetched),
                             !.work = IF Verdict(s, t, fetched) = "user" THEN t ELSE NoWork])
    BY <1>6 DEF Authorize, g
  <2>2. Known(s, fetched) \in Nat /\ Known(s, fetched) <= issuerKey
    BY <1>0 DEF Known, Servers, ServerSound, g
  <2>3. t \in Works /\ NoWork \in Works /\ ~NoWork.user
    <3>1. t = [key |-> t.key, claims |-> t.claims, user |-> t.user]
          /\ t.key \in 0 .. MaxIssuerKey /\ t.claims \in BOOLEAN /\ t.user \in {TRUE}
      BY DEF Tokens
    <3>2. t.key \in Nat
      BY <3>1, BootAssumption
    <3>3. t.user \in BOOLEAN
      BY <3>1, Zenon
    <3>4. t \in Works
      BY <3>1, <3>2, <3>3 DEF Works
    <3>. QED
      BY <3>4 DEF Works, NoWork
  <2>4. Verdict(s, t, fetched) = "user" /\ g.mode = "jwks" => t.claims /\ t.key = Known(s, fetched) /\ t.key # 0
    BY DEF Verdict, Signed, g
  <2>5. Verdict(s, t, fetched) = "user" /\ g.mode = "jwks" => t.claims /\ t.key \in 1 .. issuerKey
    BY <1>0, <2>2, <2>4
  <2>6. ASSUME NEW w \in Works, w.user /\ g.mode = "jwks" => w.claims /\ w.key \in 1 .. issuerKey
        PROVE  /\ [g EXCEPT !.keys = Known(s, fetched), !.work = w] \in Servers
               /\ ServerSound([g EXCEPT !.keys = Known(s, fetched), !.work = w], versions, issuerKey)
    BY <1>0, <2>2, <2>6 DEF Servers, ServerSound
  <2>. QED
    BY <1>1, <2>1, <2>3, <2>5, <2>6
<1>7. CASE RequestEnds(s)
  <2>1. On(s, [g EXCEPT !.work = NoWork])
    BY <1>7 DEF RequestEnds, g
  <2>2. NoWork \in Works /\ ~NoWork.user
    BY DEF Works, NoWork
  <2>3. [g EXCEPT !.work = NoWork] \in Servers /\ ServerSound([g EXCEPT !.work = NoWork], versions, issuerKey)
    BY <1>0, <2>2 DEF Servers, ServerSound
  <2>. QED
    BY <1>1, <2>1, <2>3
<1>8. CASE RefreshKeys(s)
  <2>1. On(s, [g EXCEPT !.keys = issuerKey])
    BY <1>8 DEF RefreshKeys, g
  <2>2. [g EXCEPT !.keys = issuerKey] \in Servers /\ ServerSound([g EXCEPT !.keys = issuerKey], versions, issuerKey)
    BY <1>0 DEF Servers, ServerSound
  <2>. QED
    BY <1>1, <2>1, <2>2
<1>9. CASE Terminate(s)
  <2>1. On(s, [g EXCEPT !.pc = "drain"]) /\ g.pc = "serve"
    BY <1>9 DEF Terminate, To, On, PcOfServer, g, BootInv
  <2>2. [g EXCEPT !.pc = "drain"] \in Servers /\ ServerSound([g EXCEPT !.pc = "drain"], versions, issuerKey)
    BY <1>0, <2>1 DEF Servers, ServerSound
  <2>. QED
    BY <1>1, <2>1, <2>2
<1>10. CASE Exit(s) \/ Dies(s)
  BY <1>1, <1>2, <1>10 DEF Exit, Dies
<1>. QED
  BY <1>3, <1>4, <1>5, <1>6, <1>7, <1>8, <1>9, <1>10 DEF QuietStep

\* Whatever number a server read, it adds the next migration or none.
LEMMA MigrateMoves ==
  ASSUME BootInv, NEW s \in Proc, Migrate(s)
  PROVE  /\ InOrder' /\ Counted' /\ versions \subseteq versions' /\ issuerKey' = issuerKey
         /\ \E f \in Servers : On(s, f) /\ ServerSound(f, versions', issuerKey)
<1>. USE BootAssumption
<1>. DEFINE g == proc[s]
            v == g.current + 1
<1>0. g \in Servers /\ ServerSound(g, versions, issuerKey) /\ issuerKey \in Nat \ {0}
  BY DEF BootInv
<1>1. PICK n \in 0 .. Latest : versions = 1 .. n
  BY DEF BootInv, InOrder
<1>2. g.current \in 0 .. Latest /\ 1 .. g.current \subseteq versions /\ v \in 1 .. Latest
      /\ issuerKey' = issuerKey
  BY <1>0 DEF Servers, ServerSound, Migrate
<1>3. CASE NewRow(v)
  <2>1. versions' = versions \cup {v} /\ On(s, [g EXCEPT !.current = v])
    BY <1>3 DEF Migrate
  <2>2. runs' = [runs EXCEPT ![v] = IF v = 1 THEN 1 ELSE @ + 1]
    BY <1>3 DEF Migrate
  <2>3. g.current <= n
    BY <1>1, <1>2
  <2>4. v \in versions \/ v = n + 1
    BY <1>1, <1>2, <1>3, <2>3 DEF NewRow
  <2>5. \E m \in 0 .. Latest : versions' = 1 .. m
    <3>1. CASE v \in versions
      BY <1>1, <2>1, <3>1
    <3>2. CASE v = n + 1
      <4>1. n + 1 \in 0 .. Latest /\ versions' = 1 .. (n + 1)
        BY <1>1, <1>2, <2>1, <3>2
      <4>. QED
        BY <4>1
    <3>. QED
      BY <2>4, <3>1, <3>2
  <2>6. Counted'
    <3>1. runs' \in [1 .. Latest -> Nat]
      BY <1>2, <2>2 DEF BootInv, Counted
    <3>2. \A w \in 2 .. Latest : runs'[w] = IF w \in versions' THEN 1 ELSE 0
      <4>1. ASSUME NEW w \in 2 .. Latest PROVE runs'[w] = IF w \in versions' THEN 1 ELSE 0
        <5>1. CASE w = v
          BY <1>2, <1>3, <2>1, <2>2, <5>1 DEF BootInv, Counted, NewRow
        <5>2. CASE w # v
          BY <1>2, <2>1, <2>2, <5>2 DEF BootInv, Counted
        <5>. QED
          BY <5>1, <5>2
      <4>. QED
        BY <4>1
    <3>. QED
      BY <3>1, <3>2 DEF Counted
  <2>7. /\ [g EXCEPT !.current = v] \in Servers
        /\ ServerSound([g EXCEPT !.current = v], versions', issuerKey)
    <3>1. 1 .. v \subseteq versions'
      BY <1>2, <2>1
    <3>2. g.pc = "migrate"
      BY DEF Migrate, PcOfServer
    <3>. HIDE DEF g, v
    <3>. QED
      BY <1>0, <1>2, <3>1, <3>2 DEF Servers, ServerSound
  <2>. HIDE DEF g, v
  <2>. QED
    BY <1>2, <2>1, <2>5, <2>6, <2>7 DEF InOrder
<1>4. CASE ~NewRow(v)
  <2>1. On(s, Down) /\ UNCHANGED <<versions, runs>>
    BY <1>4 DEF Migrate
  <2>2. InOrder' /\ Counted'
    BY <2>1 DEF BootInv, InOrder, Counted
  <2>. QED
    BY <1>0, <1>2, <2>1, <2>2, DownSound
<1>. QED
  BY <1>3, <1>4

LEMMA BootStepKeeps == BootInv /\ [BootNext]_bootVars => BootInv'
<1>. SUFFICES ASSUME BootInv, [BootNext]_bootVars PROVE BootInv'
  OBVIOUS
<1>1. ASSUME NEW s \in Proc, NEW f \in Servers, On(s, f), versions \subseteq versions', issuerKey' = issuerKey,
             InOrder', Counted', ServerSound(f, versions', issuerKey)
      PROVE  BootInv'
  <2>1. \A q \in Proc : proc'[q] = IF q = s THEN f ELSE proc[q]
    BY <1>1 DEF On, BootInv
  <2>2. proc' \in [Proc -> Servers]
    BY <1>1 DEF On, BootInv
  <2>3. \A q \in Proc : ServerSound(proc[q], versions', issuerKey)
    BY <1>1, SoundStays DEF BootInv
  <2>. QED
    BY <1>1, <2>1, <2>2, <2>3 DEF BootInv
<1>2. ASSUME NEW s \in Proc, QuietStep(s) PROVE BootInv'
  BY <1>1, <1>2, QuietMoves DEF BootInv, InOrder, Counted
<1>3. ASSUME NEW s \in Proc, Migrate(s) PROVE BootInv'
  BY <1>1, <1>3, MigrateMoves
<1>4. CASE IssuerRotates
  <2>1. issuerKey \in Nat /\ issuerKey' \in Nat \ {0} /\ issuerKey <= issuerKey' /\ UNCHANGED <<versions, proc, runs>>
    BY <1>4 DEF IssuerRotates, BootInv
  <2>2. \A q \in Proc : ServerSound(proc[q], versions, issuerKey')
    BY <2>1, SoundStays DEF BootInv
  <2>. QED
    BY <2>1, <2>2 DEF BootInv, InOrder, Counted
<1>5. CASE UNCHANGED bootVars
  BY <1>5 DEF bootVars, BootInv, InOrder, Counted
<1>. QED
  BY <1>2, <1>3, <1>4, <1>5 DEF BootNext, BootStep, QuietStep

(***************************************************************************)
(* However many servers of both kinds start, migrate, die and stop over one *)
(* database: the migrations are committed in order and once, requests are   *)
(* answered on a complete schema only, and let in only with a key the issuer *)
(* has published.                                                          *)
(***************************************************************************)
THEOREM BootsSound == BootSpec => []BootSound
<1>. USE BootAssumption
<1>1. BootInit => BootInv
  <2>. SUFFICES ASSUME BootInit PROVE BootInv
    OBVIOUS
  <2>1. InOrder /\ Counted
    BY DEF BootInit, InOrder, Counted
  <2>2. issuerKey = 1 /\ \A s \in Proc : proc[s] = Down
    BY DEF BootInit
  <2>. QED
    BY <2>1, <2>2, DownSound DEF BootInit, BootInv
<1>2. BootInv => BootSound
  <2>. SUFFICES ASSUME BootInv PROVE BootSound
    OBVIOUS
  <2>1. PICK n \in 0 .. Latest : versions = 1 .. n
    BY DEF BootInv, InOrder
  <2>2. Cardinality(versions) = n
    BY <2>1, FS_Interval
  <2>3. MigratedOnce
    BY <2>1, <2>2 DEF MigratedOnce, BootInv, Counted
  <2>4. ASSUME NEW s \in Proc, PcOfServer(s) \in {"serve", "drain"}
        PROVE  versions = 1 .. Latest /\ (proc[s].mode = "jwks" => proc[s].audience)
    <3>1. /\ 1 .. Latest \subseteq versions
          /\ proc[s].mode = "jwks" => proc[s].audience
      BY <2>4 DEF BootInv, ServerSound, PcOfServer
    <3>. QED
      BY <2>1, <3>1
  <2>5. AdmitsVerified
    BY DEF BootInv, ServerSound, AdmitsVerified, Busy
  <2>. QED
    BY <2>3, <2>4, <2>5 DEF BootSound, ServesConfigured
<1>. QED
  BY <1>1, <1>2, BootStepKeeps, PTL DEF BootSpec

-----------------------------------------------------------------------------
(***************************************************************************)
(* Sessions of the daemon.                                                 *)
(***************************************************************************)
Grants == (Person \cup {NoPerson}) \X Nat
Copies == [user : Person \cup {NoPerson}, access : Grants, refresh : Grants]
Pcs    == {"idle", "browser", "grant", "verify", "install", "access", "refresh"}

\* A session with a user holds that user's tokens, one without an access token
\* holds nothing.
Held == {s \in Copies : /\ s.user # NoPerson => /\ s.access[1] = s.user
                                                /\ s.refresh # NoGrant => s.refresh[1] = s.user
                        /\ s.access = NoGrant => s = NoSess}

SessTypeOK ==
  /\ current \in Held /\ keyring \in [access : Grants, refresh : Grants] /\ granted \in Nat
  /\ NoGrant \notin live
  /\ sessCall \in [SessProc -> [pc : Pcs, sess : Held]]

\* How the session in memory, the keyring and the provider go together when a
\* call with copy s is at pc and no other call is under way.
Fit(pc, s, cur, ring, lv, ls, out) ==
  /\ pc # "access" => ring.access = cur.access
  /\ pc \notin {"access", "refresh"} => ring.refresh = cur.refresh
  /\ cur.refresh # NoGrant /\ ~ls /\ pc \notin {"verify", "install"} => cur.refresh \in lv
  /\ out => cur = NoSess
  /\ pc \in {"grant", "verify", "install"} => cur # NoSess
  /\ pc \in {"grant", "access", "refresh"} => s = cur
  /\ pc \in {"verify", "install"} => s.refresh \in lv

OthersIdle(p) == \A q \in SessProc \ {p} : PcOf(q) = "idle"
OneCall  == ~crossed => \A p \in SessProc : PcOf(p) # "idle" => OthersIdle(p)
AllFit   == ~crossed /\ ~partial =>
              \A p \in SessProc : OthersIdle(p) =>
                Fit(PcOf(p), sessCall[p].sess, current, keyring, live, lost, loggedOut)

SessInv == SessTypeOK /\ OneCall /\ AllFit

Becomes(p, pc, s) == sessCall' = [sessCall EXCEPT ![p] = [pc |-> pc, sess |-> s]]

LEMMA HeldOfOne ==
  ASSUME NEW s \in Held, s.user # NoPerson
  PROVE  s.access[1] = s.user /\ (s.refresh # NoGrant => s.refresh[1] = s.user)
BY DEF Held

LEMMA NoSessHeld == NoGrant \in Grants /\ NoSess \in Held /\ NoSess \in Copies
                    /\ NoSess.user = NoPerson /\ NoSess.access = NoGrant /\ NoSess.refresh = NoGrant
BY DEF NoGrant, Grants, NoSess, Held, Copies

LEMMA NewGrantHeld ==
  ASSUME NEW u \in Person, NEW n \in Nat, NEW offline \in BOOLEAN
  PROVE  /\ NewGrant(u, <<u, n + 1>>, offline) \in Held /\ NewGrant(u, <<u, n + 1>>, offline) # NoSess
         /\ <<u, n + 1>> # NoGrant
<1>1. <<u, n + 1>> \in Grants /\ <<u, n + 1>>[1] = u /\ <<u, n + 1>> # NoGrant
  BY DEF Grants, NoGrant
<1>. QED
  BY <1>1, NoSessHeld DEF NewGrant, Held, Copies

LEMMA RenewedHeld ==
  ASSUME NEW s \in Held, s.refresh # NoGrant, NEW n \in Nat, NEW rotated \in BOOLEAN
  PROVE  LET g == <<s.refresh[1], n + 1>>
             f == Renewed(s, g, rotated)
         IN f \in Held /\ g # NoGrant /\ f.refresh = IF rotated THEN g ELSE s.refresh
<1>. DEFINE g == <<s.refresh[1], n + 1>>
            r == IF rotated THEN g ELSE s.refresh
            f == Renewed(s, g, rotated)
<1>1. s \in Copies /\ s.refresh \in Grants
  BY DEF Held, Copies
<1>2. g \in Grants /\ g[1] = s.refresh[1] /\ g # NoGrant
  BY <1>1 DEF Grants, NoGrant
<1>3. r \in Grants /\ r[1] = s.refresh[1]
  BY <1>1, <1>2
<1>4. f = [s EXCEPT !.access = g, !.refresh = r]
  BY <1>1 DEF Renewed, Copies
<1>. HIDE DEF g, r, f
<1>5. f \in Copies /\ f.user = s.user /\ f.access = g /\ f.refresh = r
  <2>1. /\ [s EXCEPT !.access = g, !.refresh = r] \in Copies
        /\ [s EXCEPT !.access = g, !.refresh = r].user = s.user
        /\ [s EXCEPT !.access = g, !.refresh = r].access = g
        /\ [s EXCEPT !.access = g, !.refresh = r].refresh = r
    BY <1>1, <1>2, <1>3 DEF Copies
  <2>. QED
    BY <1>4, <2>1, Zenon
<1>6. f \in Held
  BY <1>2, <1>3, <1>5 DEF Held
<1>. QED
  BY <1>2, <1>5, <1>6 DEF f, r, g

LEMMA LoadedHeld ==
  ASSUME SessTypeOK
  PROVE  /\ Loaded \in Held /\ (keyring.access = NoGrant => Loaded = NoSess)
         /\ keyring.access # NoGrant => /\ Loaded.access = keyring.access
                                        /\ Loaded.refresh = keyring.refresh
<1>1. CASE keyring.access = NoGrant
  BY <1>1, NoSessHeld DEF Loaded
<1>2. CASE keyring.access # NoGrant
  <2>1. Loaded = [NoSess EXCEPT !.access = keyring.access, !.refresh = keyring.refresh]
    BY <1>2 DEF Loaded
  <2>2. keyring.access \in Grants /\ keyring.refresh \in Grants
    BY DEF SessTypeOK
  <2>3. Loaded \in Copies /\ Loaded.user = NoPerson /\ Loaded.access = keyring.access
        /\ Loaded.refresh = keyring.refresh
    <3>. DEFINE a == keyring.access
                r == keyring.refresh
    <3>1. /\ [NoSess EXCEPT !.access = a, !.refresh = r] \in Copies
          /\ [NoSess EXCEPT !.access = a, !.refresh = r].user = NoSess.user
          /\ [NoSess EXCEPT !.access = a, !.refresh = r].access = a
          /\ [NoSess EXCEPT !.access = a, !.refresh = r].refresh = r
      BY <2>2, NoSessHeld DEF Copies
    <3>. QED
      BY <2>1, <3>1, NoSessHeld, Zenon
  <2>. QED
    BY <1>2, <2>3 DEF Held
<1>. QED
  BY <1>1, <1>2

LEMMA PcForm ==
  ASSUME SessTypeOK, NEW p \in SessProc, NEW pc \in Pcs, Step(p, pc)
  PROVE  Becomes(p, pc, sessCall[p].sess)
<1>1. \A c \in [pc : Pcs, sess : Held] : [c EXCEPT !.pc = pc] = [pc |-> pc, sess |-> c.sess]
  OBVIOUS
<1>2. sessCall' = [sessCall EXCEPT ![p] = [sessCall[p] EXCEPT !.pc = pc]]
  BY DEF SessTypeOK, Step
<1>. QED
  BY <1>1, <1>2 DEF SessTypeOK, Becomes

\* A call that begins rests before; any other step is one of a call under way.
LEMMA BeginsAlone ==
  ASSUME NEW p \in SessProc, NEW f, Begin(p, f)
  PROVE  (~crossed' => ~crossed /\ OthersIdle(p)) /\ PcOf(p) = "idle"
BY DEF Begin, Quiet, OthersIdle

LEMMA GoesAlone ==
  ASSUME SessInv, NEW p \in SessProc, PcOf(p) # "idle", crossed' = crossed
  PROVE  ~crossed' => ~crossed /\ OthersIdle(p)
BY DEF SessInv, OneCall

\* What was so of the call before its step.
LEMMA FitBefore ==
  ASSUME SessInv, NEW p \in SessProc, ~crossed, ~partial, OthersIdle(p)
  PROVE  Fit(PcOf(p), sessCall[p].sess, current, keyring, live, lost, loggedOut)
BY DEF SessInv, AllFit

\* The step of a call: types stay, and if calls still do not overlap, what it
\* leaves fits.
Moved(p) ==
  /\ current' \in Held /\ keyring' \in [access : Grants, refresh : Grants] /\ granted' \in Nat
  /\ NoGrant \notin live'
  /\ ~crossed' => ~crossed /\ OthersIdle(p)
  /\ \E pc \in Pcs, s \in Held :
       /\ Becomes(p, pc, s)
       /\ ~crossed' /\ ~partial' => Fit(pc, s, current', keyring', live', lost', loggedOut')

LEMMA RestingForm == Resting = [pc |-> "idle", sess |-> NoSess]
BY DEF Resting

LEMMA RestingAt == ASSUME NEW pc \in Pcs PROVE [Resting EXCEPT !.pc = pc] = [pc |-> pc, sess |-> NoSess]
<1>1. \A c \in [pc : Pcs, sess : Held] : [c EXCEPT !.pc = pc] = [pc |-> pc, sess |-> c.sess]
  OBVIOUS
<1>2. Resting \in [pc : Pcs, sess : Held] /\ Resting.sess = NoSess
  BY NoSessHeld DEF Resting, Pcs
<1>. QED
  BY <1>1, <1>2

LEMMA LoginMoves ==
  ASSUME SessInv, LoginStart \/ LoginFails \/ LoginDone
  PROVE  Moved("login")
<1>. DEFINE p == "login"
<1>0. p \in SessProc /\ NoSess \in Held /\ "idle" \in Pcs /\ "browser" \in Pcs /\ "access" \in Pcs
  BY NoSessHeld DEF SessProc, Pcs
<1>. USE DEF SessInv, SessTypeOK
<1>1. CASE LoginStart
  <2>1. Becomes(p, "browser", NoSess)
    <3>1. Set(p, [Resting EXCEPT !.pc = "browser"])
      BY <1>1 DEF LoginStart, Begin
    <3>2. [Resting EXCEPT !.pc = "browser"] = [pc |-> "browser", sess |-> NoSess]
      BY <1>0, RestingAt
    <3>. QED
      BY <3>1, <3>2, Zenon DEF Set, Becomes
  <2>2. (~crossed' => ~crossed /\ OthersIdle(p)) /\ PcOf(p) = "idle"
    BY <1>0, <1>1, BeginsAlone DEF LoginStart
  <2>3. ~crossed' /\ ~partial' => Fit("browser", NoSess, current', keyring', live', lost', loggedOut')
    BY <1>0, <1>1, <2>2, FitBefore DEF LoginStart, Fit
  <2>. QED
    BY <1>0, <1>1, <2>1, <2>2, <2>3 DEF LoginStart, Moved
<1>2. CASE LoginFails
  <2>1. Becomes(p, "idle", NoSess)
    BY <1>2, RestingForm DEF LoginFails, Set, Becomes
  <2>2. (~crossed' => ~crossed /\ OthersIdle(p)) /\ PcOf(p) = "browser"
    BY <1>0, <1>2, GoesAlone DEF LoginFails
  <2>3. ~crossed' /\ ~partial' => Fit("idle", NoSess, current', keyring', live', lost', loggedOut')
    BY <1>0, <1>2, <2>2, FitBefore DEF LoginFails, Fit
  <2>. QED
    BY <1>0, <1>2, <2>1, <2>2, <2>3 DEF LoginFails, Moved
<1>3. CASE LoginDone
  <2>1. PICK u \in Person, offline \in BOOLEAN :
          /\ current' = NewGrant(u, <<u, granted + 1>>, offline)
          /\ live' = live \cup ({current'.refresh} \ {NoGrant})
          /\ Set(p, [pc |-> "access", sess |-> NewGrant(u, <<u, granted + 1>>, offline)])
    BY <1>3 DEF LoginDone
  <2>2. current' \in Held /\ current' # NoSess
    BY <2>1, NewGrantHeld
  <2>3. Becomes(p, "access", current')
    BY <2>1 DEF Set, Becomes
  <2>4. (~crossed' => ~crossed /\ OthersIdle(p)) /\ PcOf(p) = "browser"
    BY <1>0, <1>3, GoesAlone DEF LoginDone
  <2>5. ~loggedOut' /\ (current'.refresh # NoGrant => current'.refresh \in live')
    BY <1>3, <2>1 DEF LoginDone
  <2>6. Fit("access", current', current', keyring', live', lost', loggedOut')
    BY <2>5 DEF Fit
  <2>7. granted' \in Nat /\ keyring' = keyring /\ NoGrant \notin live'
    BY <1>3, <2>1 DEF LoginDone
  <2>. QED
    BY <1>0, <2>2, <2>3, <2>4, <2>6, <2>7 DEF Moved
<1>. QED
  BY <1>1, <1>2, <1>3

LEMMA LogoutMoves ==
  ASSUME SessInv, Logout
  PROVE  Moved("logout")
<1>. DEFINE p == "logout"
<1>0. p \in SessProc /\ NoSess \in Held /\ "access" \in Pcs
  BY NoSessHeld DEF SessProc, Pcs
<1>1. Becomes(p, "access", NoSess)
  <2>1. Set(p, [Resting EXCEPT !.pc = "access"])
    BY DEF Logout, Begin, ToClear
  <2>2. [Resting EXCEPT !.pc = "access"] = [pc |-> "access", sess |-> NoSess]
    BY <1>0, RestingAt
  <2>. QED
    BY <2>1, <2>2, Zenon DEF Set, Becomes
<1>2. ~crossed' => ~crossed /\ OthersIdle(p)
  BY <1>0, BeginsAlone DEF Logout
<1>3. current' = NoSess /\ UNCHANGED <<keyring, live, granted, partial>>
  BY DEF Logout
<1>4. Fit("access", NoSess, NoSess, keyring', live', lost', loggedOut')
  BY NoSessHeld DEF Fit
<1>. QED
  BY <1>0, <1>1, <1>2, <1>3, <1>4 DEF Moved, SessInv, SessTypeOK

LEMMA SaveMoves ==
  ASSUME SessInv, NEW p \in SessProc, SaveAccess(p) \/ SaveRefresh(p)
  PROVE  Moved(p)
<1>. DEFINE s == sessCall[p].sess
<1>. USE DEF SessInv, SessTypeOK
<1>0. s \in Held /\ s.access \in Grants /\ s.refresh \in Grants /\ NoSess \in Held
      /\ "idle" \in Pcs /\ "refresh" \in Pcs
  BY NoSessHeld DEF Held, Copies, Pcs
<1>1. ASSUME NEW entry \in {"access", "refresh"}, NEW g \in Grants, WriteEntry(p, entry, g)
      PROVE  /\ keyring' \in [access : Grants, refresh : Grants]
             /\ ~partial' => ~partial \/ UNCHANGED partial
             /\ ~partial' => \/ /\ entry = "access" /\ keyring'.access = g
                                /\ keyring'.refresh = keyring.refresh
                             \/ /\ entry = "refresh" /\ keyring'.refresh = g
                                /\ keyring'.access = keyring.access
  BY <1>1 DEF WriteEntry, Written
<1>2. CASE SaveAccess(p)
  <2>1. WriteEntry(p, "access", s.access) /\ PcOf(p) = "access"
        /\ UNCHANGED <<current, live, granted, crossed, lost, loggedOut>>
    BY <1>2 DEF SaveAccess
  <2>2. Becomes(p, "refresh", s)
    BY <1>0, <1>2, PcForm DEF SaveAccess
  <2>3. ~crossed' => ~crossed /\ OthersIdle(p)
    BY <2>1, GoesAlone
  <2>4. ~partial' => ~partial
    BY <2>1 DEF WriteEntry
  <2>5. ~crossed' /\ ~partial' => Fit("access", s, current, keyring, live, lost, loggedOut)
    BY <2>1, <2>3, <2>4, FitBefore
  <2>6. keyring' \in [access : Grants, refresh : Grants] /\ (~partial' => keyring'.access = s.access)
    BY <1>0, <1>1, <2>1
  <2>7. ~crossed' /\ ~partial' => Fit("refresh", s, current', keyring', live', lost', loggedOut')
    BY <2>1, <2>5, <2>6 DEF Fit
  <2>. QED
    BY <1>0, <2>1, <2>2, <2>3, <2>6, <2>7 DEF Moved
<1>3. CASE SaveRefresh(p)
  <2>1. WriteEntry(p, "refresh", s.refresh) /\ PcOf(p) = "refresh"
        /\ UNCHANGED <<current, live, granted, crossed, lost, loggedOut>>
    BY <1>3 DEF SaveRefresh
  <2>2. Becomes(p, "idle", NoSess)
    BY <1>3, RestingForm DEF SaveRefresh, Set, Becomes
  <2>3. ~crossed' => ~crossed /\ OthersIdle(p)
    BY <2>1, GoesAlone
  <2>4. ~partial' => ~partial
    BY <2>1 DEF WriteEntry
  <2>5. ~crossed' /\ ~partial' => Fit("refresh", s, current, keyring, live, lost, loggedOut)
    BY <2>1, <2>3, <2>4, FitBefore
  <2>6. keyring' \in [access : Grants, refresh : Grants]
        /\ (~partial' => keyring'.refresh = s.refresh /\ keyring'.access = keyring.access)
    BY <1>0, <1>1, <2>1
  <2>7. ~crossed' /\ ~partial' => Fit("idle", NoSess, current', keyring', live', lost', loggedOut')
    BY <2>1, <2>5, <2>6 DEF Fit
  <2>. QED
    BY <1>0, <2>1, <2>2, <2>3, <2>6, <2>7 DEF Moved
<1>. QED
  BY <1>2, <1>3

LEMMA RefreshMoves ==
  ASSUME SessInv, NEW p \in Refresher,
         \/ RefreshStart(p) \/ RefreshGrant(p) \/ RefreshFails(p) \/ RefreshVerify(p) \/ RefreshInstall(p)
  PROVE  Moved(p)
<1>. DEFINE s == sessCall[p].sess
<1>. USE DEF SessInv, SessTypeOK
<1>p. p \in SessProc
  BY DEF SessProc
<1>0. s \in Held /\ NoSess \in Held /\ {"idle", "grant", "verify", "install", "access"} \subseteq Pcs
  BY <1>p, NoSessHeld DEF Pcs
<1>1. CASE RefreshStart(p)
  <2>1. Becomes(p, "grant", current) /\ current # NoSess
    BY <1>1, NoSessHeld DEF RefreshStart, Begin, Set, Becomes
  <2>2. (~crossed' => ~crossed /\ OthersIdle(p)) /\ PcOf(p) = "idle"
    BY <1>p, <1>1, BeginsAlone DEF RefreshStart
  <2>3. UNCHANGED <<current, keyring, live, granted, partial, lost, loggedOut>>
    BY <1>1 DEF RefreshStart
  <2>4. ~crossed' /\ ~partial' => Fit("grant", current, current', keyring', live', lost', loggedOut')
    BY <1>p, <2>1, <2>2, <2>3, FitBefore DEF Fit
  <2>. QED
    BY <1>0, <2>1, <2>2, <2>3, <2>4 DEF Moved
<1>2. CASE RefreshGrant(p)
  <2>. DEFINE g == <<s.refresh[1], granted + 1>>
  <2>1. PcOf(p) = "grant" /\ s.refresh \in live /\ granted' = granted + 1
        /\ UNCHANGED <<current, keyring, crossed, partial, lost, loggedOut>>
    BY <1>2 DEF RefreshGrant, Issues
  <2>2. PICK rotated \in BOOLEAN, signed \in BOOLEAN :
          /\ live' = IF rotated THEN (live \ {s.refresh}) \cup {g} ELSE live
          /\ Set(p, [pc |-> IF signed THEN "verify" ELSE "install", sess |-> Renewed(s, g, rotated)])
    BY <1>2 DEF RefreshGrant, Taken, Asked
  <2>3. Renewed(s, g, rotated) \in Held /\ g # NoGrant
        /\ Renewed(s, g, rotated).refresh = IF rotated THEN g ELSE s.refresh
    BY <1>0, <2>1, RenewedHeld
  <2>4. PICK pc \in {"verify", "install"} : Becomes(p, pc, Renewed(s, g, rotated))
    BY <2>2 DEF Set, Becomes
  <2>5. ~crossed' => ~crossed /\ OthersIdle(p)
    BY <1>p, <2>1, GoesAlone
  <2>6. ~crossed' /\ ~partial' => Fit("grant", s, current, keyring, live, lost, loggedOut)
    BY <1>p, <2>1, <2>5, FitBefore
  <2>7. Renewed(s, g, rotated).refresh \in live'
    BY <2>1, <2>2, <2>3
  <2>8. ~crossed' /\ ~partial' => Fit(pc, Renewed(s, g, rotated), current', keyring', live', lost', loggedOut')
    BY <2>1, <2>6, <2>7 DEF Fit
  <2>9. granted' \in Nat /\ NoGrant \notin live'
    BY <2>1, <2>2, <2>3
  <2>. QED
    BY <1>0, <2>1, <2>3, <2>4, <2>5, <2>8, <2>9 DEF Moved
<1>3. CASE RefreshFails(p)
  <2>1. PcOf(p) = "grant" /\ UNCHANGED <<current, keyring, crossed, partial, loggedOut>>
    BY <1>3 DEF RefreshFails
  <2>2. Becomes(p, "idle", NoSess)
    BY <1>3, RestingForm DEF RefreshFails, Set, Becomes
  <2>3. ~crossed' => ~crossed /\ OthersIdle(p)
    BY <1>p, <2>1, GoesAlone
  <2>4. CASE UNCHANGED <<live, granted, lost>>
    <3>1. ~crossed' /\ ~partial' => Fit("idle", NoSess, current', keyring', live', lost', loggedOut')
      BY <1>p, <2>1, <2>3, <2>4, FitBefore DEF Fit
    <3>. QED
      BY <1>0, <2>1, <2>2, <2>3, <2>4, <3>1 DEF Moved
  <2>5. CASE Issues(p) /\ live' = Taken(p, TRUE) /\ lost' = TRUE
    <3>. DEFINE g == <<s.refresh[1], granted + 1>>
    <3>1. s.refresh # NoGrant /\ granted' = granted + 1 /\ live' = (live \ {s.refresh}) \cup {g}
      BY <2>5 DEF Issues, Taken, Asked
    <3>2. g # NoGrant
      BY <1>0, <3>1, RenewedHeld
    <3>3. ~crossed' /\ ~partial' => Fit("idle", NoSess, current', keyring', live', lost', loggedOut')
      BY <1>p, <2>1, <2>3, <2>5, FitBefore DEF Fit
    <3>4. granted' \in Nat /\ NoGrant \notin live'
      BY <3>1, <3>2
    <3>. QED
      BY <1>0, <2>1, <2>2, <2>3, <3>3, <3>4 DEF Moved
  <2>. QED
    BY <1>3, <2>4, <2>5 DEF RefreshFails
<1>4. CASE RefreshVerify(p)
  <2>1. PcOf(p) = "verify" /\ UNCHANGED <<current, keyring, live, granted, crossed, partial, loggedOut>>
    BY <1>4 DEF RefreshVerify
  <2>2. \/ Step(p, "install") /\ UNCHANGED lost
        \/ Set(p, Resting) /\ lost' = (lost \/ current.refresh \notin live)
    BY <1>4, Zenon DEF RefreshVerify
  <2>3. ~crossed' => ~crossed /\ OthersIdle(p)
    BY <1>p, <2>1, GoesAlone
  <2>4. CASE Step(p, "install") /\ UNCHANGED lost
    <3>1. Becomes(p, "install", s)
      BY <1>p, <1>0, <2>4, PcForm
    <3>2. ~crossed' /\ ~partial' => Fit("install", s, current', keyring', live', lost', loggedOut')
      BY <1>p, <2>1, <2>3, <2>4, FitBefore DEF Fit
    <3>. QED
      BY <1>0, <2>1, <2>3, <3>1, <3>2 DEF Moved
  <2>5. CASE Set(p, Resting) /\ lost' = (lost \/ current.refresh \notin live)
    <3>1. Becomes(p, "idle", NoSess)
      BY <2>5, RestingForm DEF Set, Becomes
    <3>2. ~lost' => current.refresh \in live
      BY <2>5, Zenon
    <3>3. ~crossed' /\ ~partial' => Fit("verify", s, current, keyring, live, lost, loggedOut)
      BY <1>p, <2>1, <2>3, FitBefore
    <3>4. ~crossed' /\ ~partial' => Fit("idle", NoSess, current', keyring', live', lost', loggedOut')
      BY <2>1, <3>2, <3>3 DEF Fit
    <3>. QED
      BY <1>0, <2>1, <2>3, <3>1, <3>4 DEF Moved
  <2>. QED
    BY <2>2, <2>4, <2>5
<1>5. CASE RefreshInstall(p)
  <2>1. PcOf(p) = "install" /\ current' = s /\ UNCHANGED <<keyring, live, granted, crossed, partial, lost, loggedOut>>
    BY <1>5 DEF RefreshInstall
  <2>2. Becomes(p, "access", s)
    BY <1>p, <1>0, <1>5, PcForm DEF RefreshInstall
  <2>3. ~crossed' => ~crossed /\ OthersIdle(p)
    BY <1>p, <2>1, GoesAlone
  <2>4. ~crossed' /\ ~partial' => Fit("access", s, current', keyring', live', lost', loggedOut')
    BY <1>p, <2>1, <2>3, FitBefore DEF Fit
  <2>. QED
    BY <1>0, <2>1, <2>2, <2>3, <2>4 DEF Moved
<1>. QED
  BY <1>1, <1>2, <1>3, <1>4, <1>5

LEMMA MovedKeeps ==
  ASSUME SessInv, NEW p \in SessProc, Moved(p)
  PROVE  SessInv'
<1>1. PICK pc \in Pcs, s \in Held :
        /\ Becomes(p, pc, s)
        /\ ~crossed' /\ ~partial' => Fit(pc, s, current', keyring', live', lost', loggedOut')
  BY DEF Moved
<1>2. \A q \in SessProc : sessCall'[q] = IF q = p THEN [pc |-> pc, sess |-> s] ELSE sessCall[q]
  BY <1>1 DEF Becomes, SessInv, SessTypeOK
<1>3. SessTypeOK'
  BY <1>1 DEF Moved, Becomes, SessInv, SessTypeOK
<1>4. \A q \in SessProc : q # p => PcOf(q)' = PcOf(q) /\ sessCall'[q].sess = sessCall[q].sess
  BY <1>2 DEF PcOf
<1>5. PcOf(p)' = pc /\ sessCall'[p].sess = s
  BY <1>2 DEF PcOf
<1>6. OneCall'
  BY <1>4, <1>5 DEF OneCall, Moved, OthersIdle
<1>7. AllFit'
  <2>. SUFFICES ASSUME ~crossed', ~partial', NEW q \in SessProc, OthersIdle(q)'
       PROVE  Fit(PcOf(q)', sessCall'[q].sess, current', keyring', live', lost', loggedOut')
    BY DEF AllFit
  <2>1. CASE q = p
    BY <1>1, <1>5, <2>1
  <2>2. CASE q # p
    <3>1. PcOf(q)' = "idle"
      BY <1>4, <2>2 DEF Moved, OthersIdle
    <3>2. pc = "idle"
      BY <1>5, <2>2 DEF OthersIdle
    <3>. QED
      BY <1>1, <3>1, <3>2 DEF Fit
  <2>. QED
    BY <2>1, <2>2
<1>. QED
  BY <1>3, <1>6, <1>7 DEF SessInv

\* A restart finds what the keyring kept; unless it cut a call short, that is what
\* was in memory.
LEMMA RestartKeeps == ASSUME SessInv, DaemonRestart PROVE SessInv'
<1>. USE DEF SessInv, SessTypeOK
<1>1. Loaded \in Held /\ NoSess \in Held
  BY LoadedHeld, NoSessHeld
<1>2. current' = Loaded /\ UNCHANGED <<keyring, live, granted, crossed, lost, loggedOut>>
      /\ sessCall' = [p \in SessProc |-> [pc |-> "idle", sess |-> NoSess]]
  BY RestingForm DEF DaemonRestart
<1>3. SessTypeOK'
  BY <1>1, <1>2 DEF Pcs
<1>4. OneCall'
  BY <1>2 DEF OneCall, PcOf
<1>5. ASSUME ~crossed', ~partial' PROVE Fit("idle", NoSess, current', keyring', live', lost', loggedOut')
  <2>1. ~crossed /\ ~partial /\ \A q \in SessProc : PcOf(q) \in {"idle", "browser"}
    <3>1. ~crossed
      BY <1>2, <1>5
    <3>2. partial' = (partial \/ \E q \in SessProc : PcOf(q) \notin {"idle", "browser"})
      BY Zenon DEF DaemonRestart
    <3>3. ~(partial \/ \E q \in SessProc : PcOf(q) \notin {"idle", "browser"})
      BY <3>2, <1>5, Zenon
    <3>. QED
      BY <3>1, <3>3, Zenon
  <2>2. PICK p \in SessProc : OthersIdle(p)
    <3>1. "login" \in SessProc
      BY DEF SessProc
    <3>2. CASE \A q \in SessProc : PcOf(q) = "idle"
      BY <3>1, <3>2 DEF OthersIdle
    <3>3. CASE \E q \in SessProc : PcOf(q) # "idle"
      BY <2>1, <3>3 DEF OneCall
    <3>. QED
      BY <3>2, <3>3
  <2>3. Fit(PcOf(p), sessCall[p].sess, current, keyring, live, lost, loggedOut)
    BY <2>1, <2>2, FitBefore
  <2>4. /\ keyring.access = current.access /\ keyring.refresh = current.refresh
        /\ current.refresh # NoGrant /\ ~lost => current.refresh \in live
        /\ loggedOut => current = NoSess
    BY <2>1, <2>3 DEF Fit
  <2>5. current.access = NoGrant => current = NoSess
    BY DEF Held
  <2>6. CASE keyring.access = NoGrant
    <3>1. current = NoSess /\ Loaded = NoSess
      BY <2>4, <2>5, <2>6, LoadedHeld
    <3>. QED
      BY <1>2, <2>4, <3>1 DEF Fit
  <2>7. CASE keyring.access # NoGrant
    <3>1. current # NoSess /\ Loaded.access = keyring.access /\ Loaded.refresh = keyring.refresh
      BY <2>4, <2>7, LoadedHeld, NoSessHeld
    <3>. QED
      BY <1>2, <2>4, <3>1 DEF Fit
  <2>. QED
    BY <2>6, <2>7
<1>6. AllFit'
  BY <1>2, <1>5 DEF AllFit, PcOf
<1>. QED
  BY <1>3, <1>4, <1>6

(***************************************************************************)
(* Whatever logins, logouts, refreshes, failures and restarts interleave, a *)
(* session holds the tokens of one account; and without overlapping calls   *)
(* or failed writes the keyring follows memory, a refresh token is one the  *)
(* provider takes unless the answer to its rotation was lost or dropped,    *)
(* and a logout is final.                                                   *)
(***************************************************************************)
THEOREM SessionsAreSound == SessSpec => []SessionsSound
<1>1. SessInit => SessInv
  <2>. SUFFICES ASSUME SessInit PROVE SessInv
    OBVIOUS
  <2>1. \A p \in SessProc : sessCall[p] = [pc |-> "idle", sess |-> NoSess]
    BY RestingForm DEF SessInit
  <2>2. SessTypeOK
    BY RestingForm, NoSessHeld DEF SessInit, SessTypeOK, Pcs
  <2>3. Fit("idle", NoSess, current, keyring, live, lost, loggedOut)
    BY NoSessHeld DEF SessInit, Fit
  <2>. QED
    BY <2>1, <2>2, <2>3 DEF SessInv, OneCall, AllFit, PcOf
<1>2. SessInv /\ [SessNext]_sessVars => SessInv'
  <2>. SUFFICES ASSUME SessInv, [SessNext]_sessVars PROVE SessInv'
    OBVIOUS
  <2>1. CASE LoginStart \/ LoginFails \/ LoginDone
    BY <2>1, LoginMoves, MovedKeeps DEF SessProc
  <2>2. CASE Logout
    BY <2>2, LogoutMoves, MovedKeeps DEF SessProc
  <2>3. ASSUME NEW p \in SessProc, SaveAccess(p) \/ SaveRefresh(p) PROVE SessInv'
    BY <2>3, SaveMoves, MovedKeeps
  <2>4. ASSUME NEW p \in Refresher,
               \/ RefreshStart(p) \/ RefreshGrant(p) \/ RefreshFails(p)
               \/ RefreshVerify(p) \/ RefreshInstall(p)
        PROVE  SessInv'
    BY <2>4, RefreshMoves, MovedKeeps DEF SessProc
  <2>5. CASE UNCHANGED <<current, keyring, sessCall, live, granted, crossed, partial, lost, loggedOut>>
    BY <2>5 DEF SessInv, SessTypeOK, OneCall, AllFit, OthersIdle, PcOf
  <2>6. RotateKey \/ UNCHANGED sessVars =>
          UNCHANGED <<current, keyring, sessCall, live, granted, crossed, partial, lost, loggedOut>>
    BY DEF RotateKey, sessVars
  <2>. QED
    BY <2>1, <2>2, <2>3, <2>4, <2>5, <2>6, RestartKeeps DEF SessNext
<1>3. SessInv => SessionsSound
  <2>. SUFFICES ASSUME SessInv PROVE SessionsSound
    OBVIOUS
  <2>1. SessionOfOneAccount
    <3>1. current \in Held
      BY DEF SessInv, SessTypeOK
    <3>. QED
      BY <3>1, HeldOfOne DEF SessionOfOneAccount
  <2>2. ASSUME Quiet, ~crossed, ~partial
        PROVE  Fit("idle", sessCall["login"].sess, current, keyring, live, lost, loggedOut)
    BY <2>2, FitBefore DEF Quiet, OthersIdle, SessProc
  <2>3. current.access \in Grants /\ keyring = [access |-> keyring.access, refresh |-> keyring.refresh]
    BY DEF SessInv, SessTypeOK, Held, Copies
  <2>. QED
    BY <2>1, <2>2, <2>3 DEF Fit, SessionsSound, KeyringMatches, RefreshTokenLive, LogoutFinal
<1>. QED
  BY <1>1, <1>2, <1>3, PTL DEF SessSpec

-----------------------------------------------------------------------------
(***************************************************************************)
(* Theorems about GoServer, for any number of requests, users, nodes and    *)
(* events, and any bodies.                                                  *)
(***************************************************************************)

Stages == {"idle", "begin", "member", "node", "select", "insert", "commit"}

Calls == [pc : Stages, body : Seq(Payloads), cached : [User -> {"none", "active", "revoked"}],
          touched : SUBSET (User \X Node), new : [EventIds -> Hash \cup {NoHash}],
          log : SUBSET (EventIds \X Hash \X Hash), taken : SUBSET EventIds,
          barred : SUBSET User, round : Nat]

\* A payload is at hand until COMMIT.
AtHand(f) == f.pc \in {"begin", "member", "node", "select", "insert"} => f.body # <<>>

TablesOK ==
  /\ usage \in [EventIds -> Hash \cup {NoHash}]
  /\ conflicts \subseteq EventIds \X Hash \X Hash
  /\ nodeRow \in [Node -> Request \cup {NoRequest}]
  /\ status \in [User -> {"none", "active", "revoked"}]

GoTypeOK == /\ TablesOK
            /\ call \in [Request -> Calls]
            /\ \A r \in Request : AtHand(call[r])

LEMMA TwoOrMore == \A n \in Nat : \A m : m = n - 1 /\ n > 1 => m # 0
OBVIOUS

LEMMA ThenType ==
  ASSUME NEW f \in Calls, f.body # <<>>
  PROVE  /\ Then(f) \in Calls /\ AtHand(Then(f)) /\ Then(f).pc \in {"member", "commit"}
         /\ Then(f).cached = f.cached /\ Then(f).touched = f.touched /\ Then(f).new = f.new
         /\ Then(f).log = f.log /\ Then(f).taken = f.taken /\ Then(f).barred = f.barred
<1>1. Tail(f.body) \in Seq(Payloads) /\ (Len(f.body) > 1 => Tail(f.body) # <<>>)
  <2>1. f.body \in Seq(Payloads)
    BY DEF Calls
  <2>2. Tail(f.body) \in Seq(Payloads) /\ Len(Tail(f.body)) = Len(f.body) - 1
    BY <2>1, HeadTailProperties
  <2>3. Len(f.body) \in Nat /\ (Tail(f.body) = <<>> <=> Len(Tail(f.body)) = 0)
    BY <2>1, <2>2, EmptySeq
  <2>4. Len(f.body) > 1 => Len(Tail(f.body)) # 0
    BY <2>2, <2>3, TwoOrMore, Zenon
  <2>. QED
    BY <2>2, <2>3, <2>4, Zenon
<1>. QED
  BY <1>1 DEF Then, Calls, AtHand, Stages

LEMMA HeadType ==
  ASSUME NEW f \in Calls, f.body # <<>>
  PROVE  Head(f.body) \in Payloads
BY DEF Calls

LEMMA NoCallType == NoCall \in Calls
BY DEF NoCall, Calls, Stages

\* The three steps that look at a payload.
Remembered(r, u, s) == [call[r] EXCEPT !.cached[u] = s]

LEMMA Checked ==
  ASSUME GoTypeOK, NEW r \in Request, CheckMember(r)
  PROVE  /\ call[r] \in Calls /\ call[r].body # <<>> /\ This(r) \in Payloads
         /\ This(r).id[1] \in User
         /\ \/ call' = [call EXCEPT ![r] = Then(call[r])]
            \/ \E s \in {"none", "active", "revoked"} :
                 LET f == Remembered(r, This(r).id[1], s) IN
                   /\ f \in Calls /\ f.body # <<>>
                   /\ s = IF call[r].cached[This(r).id[1]] # "none"
                          THEN call[r].cached[This(r).id[1]] ELSE status[This(r).id[1]]
                   /\ \/ call' = [call EXCEPT ![r] = Then(f)]
                      \/ s = "active" /\ call' = [call EXCEPT ![r] = [f EXCEPT !.pc = "node"]]
<1>. USE DEF GoTypeOK, TablesOK
<1>1. call[r] \in Calls /\ call[r].body # <<>>
  BY DEF CheckMember, Stage, AtHand
<1>2. This(r) \in Payloads
  BY <1>1, HeadType DEF This
<1>3. This(r).id[1] \in User
  BY <1>2 DEF Payloads, EventIds
<1>. DEFINE u == This(r).id[1]
            s == IF call[r].cached[u] # "none" THEN call[r].cached[u]
                 ELSE IF IsActive(u) THEN "active" ELSE status[u]
            f == Remembered(r, u, s)
<1>6. s = IF call[r].cached[u] # "none" THEN call[r].cached[u] ELSE status[u]
  BY DEF IsActive
<1>4. s \in {"none", "active", "revoked"}
  BY <1>1, <1>3, <1>6 DEF Calls
<1>5. f \in Calls /\ f.body # <<>>
  BY <1>1, <1>3, <1>4 DEF Calls, Remembered
<1>7. call' = [call EXCEPT ![r] = IF ~This(r).ours THEN Then(call[r])
                                  ELSE IF s # "active" THEN Then(f)
                                  ELSE [f EXCEPT !.pc = "node"]]
  BY Zenon DEF CheckMember, With, Remembered
<1>8. \/ call' = [call EXCEPT ![r] = Then(call[r])]
      \/ call' = [call EXCEPT ![r] = Then(f)]
      \/ s = "active" /\ call' = [call EXCEPT ![r] = [f EXCEPT !.pc = "node"]]
  BY <1>7, Zenon
<1>. QED
  <2>. HIDE DEF s, f
  <2>1. f = Remembered(r, u, s)
    BY DEF f
  <2>. QED
    BY <1>1, <1>2, <1>3, <1>4, <1>5, <1>6, <1>8, <2>1

\* A duplicate, or a conflict with what the SELECT saw.
Took(r)        == [call[r] EXCEPT !.taken = @ \cup {This(r).id}]
Logged(r)      == [Took(r) EXCEPT !.log = @ \cup {Audit(This(r).id, Sees(r, This(r).id), This(r).hash)}]

LEMMA Selected ==
  ASSUME GoTypeOK, NEW r \in Request, SelectEvent(r)
  PROVE  /\ call[r] \in Calls /\ call[r].body # <<>> /\ This(r) \in Payloads
         /\ Took(r) \in Calls /\ Took(r).body # <<>>
         /\ \/ /\ Sees(r, This(r).id) = NoHash
               /\ call' = [call EXCEPT ![r] = [call[r] EXCEPT !.pc = "insert"]]
            \/ /\ Sees(r, This(r).id) # NoHash
               /\ call' = [call EXCEPT ![r] = Then(Took(r))]
            \/ /\ Sees(r, This(r).id) \notin {NoHash, This(r).hash}
               /\ Logged(r) \in Calls /\ Logged(r).body # <<>>
               /\ call' = [call EXCEPT ![r] = Then(Logged(r))]
<1>. USE DEF GoTypeOK, TablesOK
<1>1. call[r] \in Calls /\ call[r].body # <<>>
  BY DEF SelectEvent, Stage, AtHand
<1>2. This(r) \in Payloads
  BY <1>1, HeadType DEF This
<1>3. This(r).id \in EventIds /\ This(r).hash \in Hash
  BY <1>2 DEF Payloads
<1>4. Took(r) \in Calls /\ Took(r).body # <<>>
  BY <1>1, <1>3 DEF Took, Calls
<1>5. Sees(r, This(r).id) # NoHash => Sees(r, This(r).id) \in Hash
  BY <1>1, <1>3 DEF Sees, Calls
<1>6. Sees(r, This(r).id) # NoHash => Logged(r) \in Calls /\ Logged(r).body # <<>>
  <2>1. Sees(r, This(r).id) # NoHash =>
          Audit(This(r).id, Sees(r, This(r).id), This(r).hash) \in EventIds \X Hash \X Hash
    BY <1>3, <1>5 DEF Audit
  <2>. QED
    BY <1>4, <2>1 DEF Logged, Calls
<1>7. call' = [call EXCEPT ![r] =
               CASE Sees(r, This(r).id) = NoHash -> [call[r] EXCEPT !.pc = "insert"]
                 [] Sees(r, This(r).id) = This(r).hash -> Then(Took(r))
                 [] OTHER -> Then(Logged(r))]
  BY DEF SelectEvent, With, Took, Logged
<1>8. This(r).hash # NoHash
  BY <1>3, GoServerAssumption
<1>. QED
  BY <1>1, <1>2, <1>4, <1>6, <1>7, <1>8

Added(r) == [call[r] EXCEPT !.new[This(r).id] = This(r).hash, !.taken = @ \cup {This(r).id}]

LEMMA Inserted ==
  ASSUME GoTypeOK, NEW r \in Request, InsertEvent(r)
  PROVE  /\ call[r] \in Calls /\ call[r].body # <<>> /\ This(r) \in Payloads
         /\ Added(r) \in Calls /\ Added(r).body # <<>>
         /\ call' = [call EXCEPT ![r] = Then(Added(r))]
<1>. USE DEF GoTypeOK, TablesOK
<1>1. call[r] \in Calls /\ call[r].body # <<>>
  BY DEF InsertEvent, Stage, AtHand
<1>2. This(r) \in Payloads
  BY <1>1, HeadType DEF This
<1>3. This(r).id \in EventIds /\ This(r).hash \in Hash
  BY <1>2 DEF Payloads
<1>4. Added(r) \in Calls /\ Added(r).body # <<>>
  BY <1>1, <1>3 DEF Added, Calls
<1>. QED
  BY <1>1, <1>2, <1>4 DEF InsertEvent, With, Added

LEMMA PutType ==
  ASSUME call \in [Request -> Calls], NEW r \in Request, NEW f \in Calls, AtHand(f),
         call' = [call EXCEPT ![r] = f]
  PROVE  call' = [call EXCEPT ![r] = call'[r]] /\ call'[r] \in Calls /\ AtHand(call'[r])
<1>1. call'[r] = f
  OBVIOUS
<1>. QED
  BY <1>1, Zenon

LEMMA ReplyType ==
  ASSUME GoTypeOK, NEW r \in Request, NEW taken \in SUBSET EventIds
  PROVE  /\ Reply(r, taken) \in Calls /\ AtHand(Reply(r, taken))
         /\ Reply(r, taken).pc = "idle" /\ Reply(r, taken).cached = NoCall.cached
         /\ Reply(r, taken).touched = {} /\ Reply(r, taken).new = NoCall.new
         /\ Reply(r, taken).log = {} /\ Reply(r, taken).taken = taken
         /\ Reply(r, taken).barred = call[r].barred
<1>1. NoCall.cached \in [User -> {"none", "active", "revoked"}] /\ NoCall.new \in [EventIds -> Hash \cup {NoHash}]
  BY DEF NoCall
<1>2. call[r] \in Calls
  BY DEF GoTypeOK
<1>3. <<>> \in Seq(Payloads)
  OBVIOUS
<1>. QED
  BY <1>1, <1>2, <1>3 DEF Reply, Calls, AtHand, Stages

\* The record a request is left with is well formed, whatever it does.
LEMMA CallType ==
  ASSUME GoTypeOK, NEW r \in Request, Upload(r) \/ Serve(r) \/ Abort(r)
  PROVE  call' = [call EXCEPT ![r] = call'[r]] /\ call'[r] \in Calls /\ AtHand(call'[r])
<1>. SUFFICES \E f \in Calls : AtHand(f) /\ call' = [call EXCEPT ![r] = f]
  BY PutType DEF GoTypeOK
<1>0. call[r] \in Calls
  BY DEF GoTypeOK
<1>1. CASE Upload(r)
  <2>1. PICK body \in Bodies :
          call' = [call EXCEPT ![r] =
            [NoCall EXCEPT !.pc = "begin", !.body = body, !.barred = {u \in User : status[u] # "active"},
                           !.round = call[r].round + 1]]
    BY <1>1 DEF Upload, With
  <2>2. body \in Seq(Payloads) /\ body # <<>> /\ call[r].round + 1 \in Nat
    BY <1>0, GoServerAssumption DEF Calls
  <2>. QED
    BY <2>1, <2>2, NoCallType DEF Calls, AtHand, Stages
<1>2. CASE BeginTx(r)
  BY <1>0, <1>2 DEF BeginTx, Stage, Calls, AtHand, Stages, With, GoTypeOK
<1>3. CASE CheckMember(r)
  <2>1. PICK f \in Calls : /\ f.body # <<>>
                          /\ \/ call' = [call EXCEPT ![r] = Then(f)]
                             \/ call' = [call EXCEPT ![r] = [f EXCEPT !.pc = "node"]]
    BY <1>3, Checked
  <2>2. [f EXCEPT !.pc = "node"] \in Calls /\ AtHand([f EXCEPT !.pc = "node"])
    BY <2>1 DEF Calls, AtHand, Stages
  <2>. QED
    BY <2>1, <2>2, ThenType
<1>4. CASE TouchNode(r)
  <2>1. call[r].body # <<>> /\ This(r) \in Payloads
    BY <1>0, <1>4, HeadType DEF TouchNode, Stage, AtHand, GoTypeOK, This
  <2>2. NodeKey(This(r)) \in User \X Node
    BY <2>1 DEF NodeKey, Payloads, EventIds
  <2>3. \/ call' = [call EXCEPT ![r] = [call[r] EXCEPT !.pc = "select"]]
        \/ call' = [call EXCEPT ![r] = [call[r] EXCEPT !.pc = "select", !.touched = @ \cup {NodeKey(This(r))}]]
    BY <1>4 DEF TouchNode, With
  <2>4. [call[r] EXCEPT !.pc = "select"] \in Calls /\ AtHand([call[r] EXCEPT !.pc = "select"])
    BY <1>0, <2>1 DEF Calls, AtHand, Stages
  <2>5. /\ [call[r] EXCEPT !.pc = "select", !.touched = @ \cup {NodeKey(This(r))}] \in Calls
        /\ AtHand([call[r] EXCEPT !.pc = "select", !.touched = @ \cup {NodeKey(This(r))}])
    BY <1>0, <2>1, <2>2 DEF Calls, AtHand, Stages
  <2>. QED
    BY <2>3, <2>4, <2>5
<1>5. CASE SelectEvent(r)
  <2>1. PICK f \in Calls : /\ f.body # <<>>
                          /\ \/ call' = [call EXCEPT ![r] = Then(f)]
                             \/ call' = [call EXCEPT ![r] = [f EXCEPT !.pc = "insert"]]
    BY <1>5, Selected
  <2>2. [f EXCEPT !.pc = "insert"] \in Calls /\ AtHand([f EXCEPT !.pc = "insert"])
    BY <2>1 DEF Calls, AtHand, Stages
  <2>. QED
    BY <2>1, <2>2, ThenType
<1>6. CASE InsertEvent(r)
  BY <1>6, Inserted, ThenType
<1>7. CASE CommitBatch(r)
  <2>1. PICK taken \in {call[r].taken, {}} : call' = [call EXCEPT ![r] = Reply(r, taken)]
    BY <1>7 DEF CommitBatch, With
  <2>2. taken \in SUBSET EventIds
    BY <1>0 DEF Calls
  <2>. QED
    BY <2>1, <2>2, ReplyType
<1>8. CASE Abort(r)
  BY <1>8, ReplyType DEF Abort, With
<1>. QED
  BY <1>1, <1>2, <1>3, <1>4, <1>5, <1>6, <1>7, <1>8 DEF Serve

(***************************************************************************)
(* What a request has done and not committed.                              *)
(***************************************************************************)
SeenIn(f, id) == IF f.new[id] # NoHash THEN f.new[id] ELSE usage[id]

\* The nodes of its events are locked; its rows are new to everybody; what it
\* took it sees; its audit rows name what it sees; whoever is barred has nothing.
NodesHeld(r, f)  == \A k \in f.touched : nodeRow[k[2]] = r
RowsNew(f)       == \A id \in EventIds :
                      f.new[id] # NoHash => <<id[1], id[2]>> \in f.touched /\ usage[id] = NoHash
TakenSeen(f)     == \A id \in f.taken : SeenIn(f, id) # NoHash
LogSeen(f)       == \A c \in f.log : c[2] # NoHash /\ SeenIn(f, c[1]) = c[2] /\ c[2] # c[3]
BarredOut(f)     == /\ \A u \in f.barred : status[u] # "active" /\ f.cached[u] # "active"
                    /\ \A id \in EventIds :
                         id[1] \in f.barred => f.new[id] = NoHash /\ id \notin f.taken

Kept(r, f) == NodesHeld(r, f) /\ RowsNew(f) /\ TakenSeen(f) /\ LogSeen(f) /\ BarredOut(f)

\* What the steps so far have made sure of the payload at hand; at rest a request
\* holds no rows.
AtPayload(f) ==
  /\ f.pc = "idle" => \A id \in EventIds : f.new[id] = NoHash
  /\ f.pc \in {"select", "insert"} => NodeKey(Head(f.body)) \in f.touched
  /\ f.pc = "insert" => SeenIn(f, Head(f.body).id) = NoHash
  /\ f.pc \in {"node", "select", "insert"} => Head(f.body).id[1] \notin f.barred

ConflictsSound ==
  \A c \in conflicts : c[2] # NoHash /\ usage[c[1]] = c[2] /\ c[2] # c[3]

GoInv == /\ GoTypeOK /\ ConflictsSound
         /\ \A r \in Request : Kept(r, call[r]) /\ AtPayload(call[r])

LEMMA ThenKept ==
  ASSUME NEW r \in Request, NEW f \in Calls, f.body # <<>>, Kept(r, f)
  PROVE  Kept(r, Then(f)) /\ AtPayload(Then(f))
<1>1. AtPayload(Then(f))
  BY ThenType DEF AtPayload
<1>2. NodesHeld(r, Then(f)) /\ RowsNew(Then(f))
  BY ThenType DEF Kept, NodesHeld, RowsNew
<1>3. TakenSeen(Then(f)) /\ LogSeen(Then(f))
  BY ThenType DEF Kept, TakenSeen, LogSeen, SeenIn
<1>4. BarredOut(Then(f))
  BY ThenType DEF Kept, BarredOut
<1>. QED
  BY <1>1, <1>2, <1>3, <1>4 DEF Kept

\* Nobody else has rows for an event whose node a request has locked.
LEMMA OneWriter ==
  ASSUME GoInv, NEW q \in Request, NEW r \in Request, q # r, NEW id \in EventIds,
         <<id[1], id[2]>> \in call[q].touched
  PROVE  call[r].new[id] = NoHash
BY DEF GoInv, Kept, NodesHeld, RowsNew

LEMMA UploadKept ==
  ASSUME GoInv, NEW r \in Request, Upload(r)
  PROVE  Kept(r, call'[r]) /\ AtPayload(call'[r])
<1>1. PICK body \in Bodies :
        call'[r] = [NoCall EXCEPT !.pc = "begin", !.body = body,
                                  !.barred = {u \in User : status[u] # "active"},
                                  !.round = call[r].round + 1]
  BY DEF Upload, With, GoInv, GoTypeOK
<1>2. /\ call'[r].touched = {} /\ call'[r].taken = {} /\ call'[r].log = {} /\ call'[r].pc = "begin"
      /\ \A id \in EventIds : call'[r].new[id] = NoHash
      /\ \A u \in User : call'[r].cached[u] = "none"
      /\ call'[r].barred = {u \in User : status[u] # "active"}
  BY <1>1 DEF NoCall
<1>. QED
  BY <1>2 DEF Kept, NodesHeld, RowsNew, TakenSeen, LogSeen, BarredOut, AtPayload

LEMMA CheckKept ==
  ASSUME GoInv, NEW r \in Request, CheckMember(r)
  PROVE  Kept(r, call'[r]) /\ AtPayload(call'[r])
<1>. USE DEF GoInv, GoTypeOK, TablesOK
<1>1. CASE call' = [call EXCEPT ![r] = Then(call[r])]
  BY <1>1, Checked, ThenKept
<1>2. ASSUME NEW s \in {"none", "active", "revoked"},
             s = IF call[r].cached[This(r).id[1]] # "none"
                 THEN call[r].cached[This(r).id[1]] ELSE status[This(r).id[1]],
             Remembered(r, This(r).id[1], s) \in Calls, Remembered(r, This(r).id[1], s).body # <<>>,
             \/ call' = [call EXCEPT ![r] = Then(Remembered(r, This(r).id[1], s))]
             \/ s = "active" /\ call' = [call EXCEPT ![r] = [Remembered(r, This(r).id[1], s) EXCEPT !.pc = "node"]]
      PROVE  Kept(r, call'[r]) /\ AtPayload(call'[r])
  <2>. DEFINE u == This(r).id[1]
              f == Remembered(r, u, s)
  <2>1. u \in User /\ call[r] \in Calls
    BY Checked
  <2>2. /\ f.touched = call[r].touched /\ f.new = call[r].new /\ f.taken = call[r].taken
        /\ f.log = call[r].log /\ f.barred = call[r].barred /\ f.body = call[r].body
        /\ f.cached = [call[r].cached EXCEPT ![u] = s]
    BY <2>1 DEF Remembered, Calls
  <2>3. u \in call[r].barred => s # "active"
    BY <1>2 DEF Kept, BarredOut
  <2>4. \A v \in f.barred : f.cached[v] # "active" /\ v \in User
    BY <2>1, <2>2, <2>3 DEF Calls, Kept, BarredOut
  <2>5. BarredOut(f)
    BY <2>2, <2>4 DEF Kept, BarredOut
  <2>6. NodesHeld(r, f) /\ RowsNew(f) /\ TakenSeen(f) /\ LogSeen(f)
    BY <2>2 DEF Kept, NodesHeld, RowsNew, TakenSeen, LogSeen, SeenIn
  <2>7. Kept(r, f)
    BY <2>5, <2>6 DEF Kept
  <2>8. CASE call' = [call EXCEPT ![r] = Then(f)]
    BY <1>2, <2>7, <2>8, ThenKept
  <2>9. CASE s = "active" /\ call' = [call EXCEPT ![r] = [f EXCEPT !.pc = "node"]]
    <3>. DEFINE g == [f EXCEPT !.pc = "node"]
    <3>1. /\ g.touched = f.touched /\ g.new = f.new /\ g.taken = f.taken /\ g.log = f.log
          /\ g.barred = f.barred /\ g.cached = f.cached /\ g.pc = "node" /\ g.body = f.body
      BY <1>2 DEF Calls
    <3>2. Kept(r, g)
      BY <2>7, <3>1 DEF Kept, NodesHeld, RowsNew, TakenSeen, LogSeen, SeenIn, BarredOut
    <3>3. AtPayload(g)
      BY <2>2, <2>3, <2>9, <3>1 DEF AtPayload, This
    <3>4. call'[r] = g
      BY <2>9
    <3>. QED
      BY <3>2, <3>3, <3>4
  <2>. QED
    BY <1>2, <2>8, <2>9
<1>. QED
  BY <1>1, <1>2, Checked

LEMMA TouchKept ==
  ASSUME GoInv, NEW r \in Request, TouchNode(r)
  PROVE  /\ Kept(r, call[r])' /\ AtPayload(call[r])'
         /\ \A n \in Node : nodeRow'[n] = nodeRow[n] \/ nodeRow[n] \in {r, NoRequest}
<1>. USE DEF GoInv, GoTypeOK, TablesOK
<1>. DEFINE p == This(r)
            g == call'[r]
<1>0. call[r] \in Calls /\ call[r].pc = "node" /\ call[r].body # <<>> /\ p \in Payloads
  BY HeadType DEF TouchNode, Stage, AtHand, This
<1>1. p.id[2] \in Node /\ NodeKey(p)[2] = p.id[2]
  BY <1>0 DEF Payloads, EventIds, NodeKey
<1>2. \/ /\ NodeKey(p) \in call[r].touched /\ UNCHANGED nodeRow
         /\ call' = [call EXCEPT ![r] = [call[r] EXCEPT !.pc = "select"]]
      \/ /\ RowFree(r, p.id[2]) /\ nodeRow' = [nodeRow EXCEPT ![p.id[2]] = r]
         /\ call' = [call EXCEPT ![r] = [call[r] EXCEPT !.pc = "select",
                                                         !.touched = @ \cup {NodeKey(p)}]]
  BY DEF TouchNode, With, Untouched
<1>3. /\ g.new = call[r].new /\ g.taken = call[r].taken /\ g.log = call[r].log
      /\ g.barred = call[r].barred /\ g.cached = call[r].cached /\ g.pc = "select"
      /\ g.body = call[r].body /\ g.touched = call[r].touched \cup {NodeKey(p)}
      /\ UNCHANGED <<usage, status>>
  <2>1. UNCHANGED <<usage, status>>
    BY DEF TouchNode
  <2>2. \/ NodeKey(p) \in call[r].touched /\ g = [call[r] EXCEPT !.pc = "select"]
        \/ g = [call[r] EXCEPT !.pc = "select", !.touched = @ \cup {NodeKey(p)}]
    BY <1>2
  <2>. HIDE DEF g, p
  <2>3. CASE g = [call[r] EXCEPT !.pc = "select", !.touched = @ \cup {NodeKey(p)}]
    BY <1>0, <2>1, <2>3 DEF Calls
  <2>4. CASE NodeKey(p) \in call[r].touched /\ g = [call[r] EXCEPT !.pc = "select"]
    BY <1>0, <2>1, <2>4 DEF Calls
  <2>. QED
    BY <2>2, <2>3, <2>4
<1>4. \A n \in Node : nodeRow'[n] = nodeRow[n] \/ nodeRow[n] \in {r, NoRequest}
  BY <1>1, <1>2 DEF RowFree
<1>5. nodeRow'[p.id[2]] = r /\ \A n \in Node : nodeRow[n] = r => nodeRow'[n] = r
  BY <1>0, <1>1, <1>2 DEF Kept, NodesHeld
<1>. HIDE DEF g, p
<1>6. \A k \in g.touched : nodeRow'[k[2]] = r
  <2>1. \A k \in call[r].touched : k[2] \in Node /\ nodeRow[k[2]] = r
    BY <1>0 DEF Calls, Kept, NodesHeld
  <2>. QED
    BY <1>1, <1>3, <1>5, <2>1
<1>7. /\ RowsNew(call[r])' /\ TakenSeen(call[r])' /\ LogSeen(call[r])' /\ BarredOut(call[r])'
  BY <1>3 DEF Kept, RowsNew, TakenSeen, LogSeen, SeenIn, BarredOut, g
<1>8. AtPayload(call[r])'
  BY <1>0, <1>3 DEF AtPayload, This, g, p
<1>. QED
  BY <1>4, <1>6, <1>7, <1>8 DEF Kept, NodesHeld, g

LEMMA SelectKept ==
  ASSUME GoInv, NEW r \in Request, SelectEvent(r)
  PROVE  Kept(r, call'[r]) /\ AtPayload(call'[r])
<1>. USE DEF GoInv, GoTypeOK, TablesOK
<1>0. call[r].pc = "select" /\ call[r] \in Calls
  BY DEF SelectEvent, Stage
<1>1. CASE /\ Sees(r, This(r).id) = NoHash
           /\ call' = [call EXCEPT ![r] = [call[r] EXCEPT !.pc = "insert"]]
  <2>. DEFINE g == call'[r]
  <2>1. /\ g.touched = call[r].touched /\ g.new = call[r].new /\ g.taken = call[r].taken
        /\ g.log = call[r].log /\ g.barred = call[r].barred /\ g.cached = call[r].cached
        /\ g.pc = "insert" /\ g.body = call[r].body
    BY <1>0, <1>1 DEF Calls
  <2>2. Kept(r, g)
    BY <2>1 DEF Kept, NodesHeld, RowsNew, TakenSeen, LogSeen, SeenIn, BarredOut
  <2>3. AtPayload(g)
    BY <1>0, <1>1, <2>1 DEF AtPayload, This, Sees, SeenIn
  <2>. QED
    BY <2>2, <2>3
<1>2. ASSUME Sees(r, This(r).id) # NoHash, Took(r) \in Calls, This(r) \in Payloads
      PROVE  Kept(r, Took(r))
  <2>1. /\ Took(r).touched = call[r].touched /\ Took(r).new = call[r].new
        /\ Took(r).taken = call[r].taken \cup {This(r).id}
        /\ Took(r).log = call[r].log /\ Took(r).barred = call[r].barred
        /\ Took(r).cached = call[r].cached
    BY <1>0 DEF Took, Calls
  <2>2. This(r).id[1] \notin call[r].barred
    BY <1>0 DEF AtPayload, This
  <2>3. NodesHeld(r, Took(r)) /\ RowsNew(Took(r)) /\ LogSeen(Took(r))
    BY <2>1 DEF Kept, NodesHeld, RowsNew, LogSeen, SeenIn
  <2>4. TakenSeen(Took(r))
    BY <1>2, <2>1 DEF Kept, TakenSeen, SeenIn, Sees
  <2>5. BarredOut(Took(r))
    BY <2>1, <2>2 DEF Kept, BarredOut
  <2>. QED
    BY <2>3, <2>4, <2>5 DEF Kept
<1>3. CASE /\ Sees(r, This(r).id) # NoHash
           /\ call' = [call EXCEPT ![r] = Then(Took(r))]
  BY <1>2, <1>3, Selected, ThenKept
<1>4. CASE /\ Sees(r, This(r).id) \notin {NoHash, This(r).hash}
           /\ Logged(r) \in Calls /\ Logged(r).body # <<>>
           /\ call' = [call EXCEPT ![r] = Then(Logged(r))]
  <2>1. Kept(r, Took(r)) /\ Took(r) \in Calls
    BY <1>2, <1>4, Selected
  <2>2. /\ Logged(r).touched = Took(r).touched /\ Logged(r).new = Took(r).new
        /\ Logged(r).taken = Took(r).taken /\ Logged(r).barred = Took(r).barred
        /\ Logged(r).cached = Took(r).cached
        /\ Logged(r).log = Took(r).log \cup {Audit(This(r).id, Sees(r, This(r).id), This(r).hash)}
    BY <2>1 DEF Logged, Calls
  <2>3. NodesHeld(r, Logged(r)) /\ RowsNew(Logged(r)) /\ TakenSeen(Logged(r)) /\ BarredOut(Logged(r))
    BY <2>1, <2>2 DEF Kept, NodesHeld, RowsNew, TakenSeen, SeenIn, BarredOut
  <2>4. Took(r).new = call[r].new
    BY <1>0 DEF Took, Calls
  <2>5. LogSeen(Logged(r))
    BY <1>4, <2>1, <2>2, <2>4 DEF Kept, LogSeen, SeenIn, Sees, Audit
  <2>. QED
    BY <1>4, <2>3, <2>5, ThenKept DEF Kept
<1>. QED
  BY <1>1, <1>3, <1>4, Selected

LEMMA InsertKept ==
  ASSUME GoInv, NEW r \in Request, InsertEvent(r)
  PROVE  Kept(r, call'[r]) /\ AtPayload(call'[r])
<1>. USE DEF GoInv, GoTypeOK, TablesOK
<1>. DEFINE p == This(r)
            f == Added(r)
<1>0. /\ call[r].pc = "insert" /\ call[r] \in Calls /\ p \in Payloads
  BY Inserted DEF InsertEvent, Stage
<1>1. p.id \in EventIds /\ p.hash \in Hash /\ p.hash # NoHash
  BY <1>0, GoServerAssumption DEF Payloads
<1>2. /\ NodeKey(p) \in call[r].touched
      /\ SeenIn(call[r], p.id) = NoHash
      /\ p.id[1] \notin call[r].barred
  BY <1>0 DEF AtPayload, This
<1>3. /\ f.touched = call[r].touched /\ f.new = [call[r].new EXCEPT ![p.id] = p.hash]
      /\ f.taken = call[r].taken \cup {p.id}
      /\ f.log = call[r].log /\ f.barred = call[r].barred /\ f.cached = call[r].cached
  BY <1>0 DEF Added, Calls
<1>4. \A id \in EventIds : f.new[id] = IF id = p.id THEN p.hash ELSE call[r].new[id]
  BY <1>0, <1>1, <1>3 DEF Calls
<1>. HIDE DEF f, p
<1>5. NodesHeld(r, f)
  BY <1>3 DEF Kept, NodesHeld
<1>6. RowsNew(f)
  BY <1>1, <1>2, <1>3, <1>4 DEF Kept, RowsNew, NodeKey, SeenIn
<1>7. \A id \in EventIds : SeenIn(call[r], id) # NoHash => SeenIn(f, id) = SeenIn(call[r], id)
  BY <1>1, <1>2, <1>4 DEF SeenIn
<1>8. TakenSeen(f)
  <2>1. SeenIn(f, p.id) # NoHash
    BY <1>1, <1>4 DEF SeenIn
  <2>2. f.taken \subseteq EventIds
    BY <1>0, <1>1, <1>3 DEF Calls
  <2>. QED
    BY <1>3, <1>7, <2>1, <2>2 DEF Kept, TakenSeen
<1>9. LogSeen(f)
  <2>1. \A c \in f.log : c[1] \in EventIds
    BY <1>0, <1>3 DEF Calls
  <2>. QED
    BY <1>3, <1>7, <2>1 DEF Kept, LogSeen
<1>10. BarredOut(f)
  BY <1>1, <1>2, <1>3, <1>4 DEF Kept, BarredOut
<1>. QED
  BY <1>5, <1>6, <1>8, <1>9, <1>10, Inserted, ThenKept DEF Kept, f

\* COMMIT adds rows that were new, so that what anybody saw stays.
LEMMA Published ==
  ASSUME GoInv, NEW r \in Request, CommitBatch(r)
  PROVE  /\ \A id \in EventIds : usage'[id] = Sees(r, id)
         /\ \A id \in EventIds : usage[id] # NoHash => usage'[id] = usage[id]
BY DEF CommitBatch, Publishes, Sees, GoInv, GoTypeOK, TablesOK, Kept, RowsNew

LEMMA EndKept ==
  ASSUME GoInv, NEW r \in Request, CommitBatch(r) \/ Abort(r)
  PROVE  Kept(r, call[r])' /\ AtPayload(call[r])'
<1>. USE DEF GoInv, GoTypeOK, TablesOK
<1>1. PICK taken \in {call[r].taken, {}} :
        /\ call' = [call EXCEPT ![r] = Reply(r, taken)]
        /\ taken # {} => CommitBatch(r)
  BY DEF CommitBatch, Abort, With
<1>2. taken \in SUBSET EventIds /\ call'[r] = Reply(r, taken) /\ UNCHANGED status
  BY <1>1 DEF Calls, CommitBatch, Abort
<1>3. \A id \in EventIds : NoCall.new[id] = NoHash
  BY DEF NoCall
<1>4. \A u \in User : NoCall.cached[u] = "none"
  BY DEF NoCall
<1>5. TakenSeen(call[r])'
  <2>1. \A id \in taken : usage'[id] # NoHash
    BY <1>1, <1>2, Published DEF Kept, TakenSeen, SeenIn, Sees
  <2>. QED
    BY <1>2, <1>3, <2>1, ReplyType DEF TakenSeen, SeenIn
<1>6. BarredOut(call[r])'
  <2>1. call[r].barred \subseteq User
    BY DEF Calls
  <2>2. \A id \in taken : id[1] \notin call[r].barred
    BY <1>1, <1>2 DEF Kept, BarredOut
  <2>. QED
    BY <1>2, <1>3, <1>4, <2>1, <2>2, ReplyType DEF Kept, BarredOut
<1>7. NodesHeld(r, call[r])' /\ RowsNew(call[r])' /\ LogSeen(call[r])'
  BY <1>2, <1>3, ReplyType DEF NodesHeld, RowsNew, LogSeen
<1>8. AtPayload(call[r])'
  BY <1>2, <1>3, ReplyType DEF AtPayload
<1>. QED
  BY <1>5, <1>6, <1>7, <1>8 DEF Kept

\* What the steps of one request leave of the others.
LEMMA OthersKept ==
  ASSUME GoInv, NEW q \in Request, NEW r \in Request, q # r, call'[q] = call[q],
         UNCHANGED status,
         \A n \in Node : nodeRow[n] = q => nodeRow'[n] = q,
         \/ UNCHANGED usage
         \/ CommitBatch(r)
  PROVE  Kept(q, call[q])' /\ AtPayload(call[q])'
<1>. USE DEF GoInv, GoTypeOK, TablesOK
<1>1. call[q] \in Calls
  OBVIOUS
<1>2. \A id \in EventIds : usage[id] # NoHash => usage'[id] = usage[id]
  BY Published
<1>3. \A id \in EventIds : <<id[1], id[2]>> \in call[q].touched => usage'[id] = usage[id]
  BY Published, OneWriter DEF Sees
<1>4. NodesHeld(q, call[q])'
  BY <1>1 DEF Kept, NodesHeld, Calls
<1>5. RowsNew(call[q])'
  BY <1>3 DEF Kept, RowsNew
<1>6. \A id \in EventIds : SeenIn(call[q], id) # NoHash => SeenIn(call[q], id)' = SeenIn(call[q], id)
  BY <1>2 DEF SeenIn
<1>7. TakenSeen(call[q])' /\ LogSeen(call[q])'
  <2>1. call[q].taken \subseteq EventIds /\ \A c \in call[q].log : c[1] \in EventIds
    BY <1>1 DEF Calls
  <2>2. TakenSeen(call[q])'
    BY <1>2, <2>1 DEF Kept, TakenSeen, SeenIn
  <2>3. LogSeen(call[q])'
    BY <1>2, <2>1 DEF Kept, LogSeen, SeenIn
  <2>. QED
    BY <2>2, <2>3
<1>8. BarredOut(call[q])'
  BY DEF Kept, BarredOut
<1>9. AtPayload(call[q])'
  <2>1. CASE call[q].pc = "insert"
    <3>1. Head(call[q].body) \in Payloads
      BY <1>1, <2>1, HeadType DEF AtHand
    <3>2. Head(call[q].body).id \in EventIds
      BY <3>1 DEF Payloads
    <3>3. usage'[Head(call[q].body).id] = usage[Head(call[q].body).id]
      BY <1>3, <2>1, <3>2 DEF AtPayload, NodeKey
    <3>. QED
      BY <2>1, <3>3 DEF AtPayload, SeenIn
  <2>2. CASE call[q].pc # "insert"
    BY <2>2 DEF AtPayload
  <2>. QED
    BY <2>1, <2>2
<1>. QED
  BY <1>4, <1>5, <1>7, <1>8, <1>9 DEF Kept

LEMMA GoTypeStep == ASSUME GoInv, [GoServerNext]_goServerVars PROVE GoTypeOK'
<1>. USE GoServerAssumption DEF GoInv
<1>1. ASSUME NEW r \in Request, Upload(r) \/ Serve(r) \/ Abort(r) PROVE GoTypeOK'
  <2>1. call' \in [Request -> Calls] /\ \A q \in Request : AtHand(call'[q])
    BY <1>1, CallType DEF GoTypeOK
  <2>2. /\ nodeRow' \in [Node -> Request \cup {NoRequest}]
        /\ UNCHANGED status
    <3>1. CASE TouchNode(r)
      BY <3>1 DEF TouchNode, GoTypeOK, TablesOK
    <3>2. CASE CommitBatch(r) \/ Abort(r)
      BY <3>2 DEF CommitBatch, Abort, RowsFreed, GoTypeOK, TablesOK
    <3>3. CASE Upload(r) \/ BeginTx(r) \/ CheckMember(r) \/ SelectEvent(r) \/ InsertEvent(r)
      BY <3>3 DEF Upload, BeginTx, CheckMember, SelectEvent, InsertEvent, GoTypeOK, TablesOK
    <3>. QED
      BY <1>1, <3>1, <3>2, <3>3 DEF Serve
  <2>3. /\ usage' \in [EventIds -> Hash \cup {NoHash}]
        /\ conflicts' \subseteq EventIds \X Hash \X Hash
    <3>1. CASE CommitBatch(r)
      <4>1. call[r].log \subseteq EventIds \X Hash \X Hash
            /\ call[r].new \in [EventIds -> Hash \cup {NoHash}]
        BY DEF GoTypeOK, Calls
      <4>. QED
        BY <3>1, <4>1 DEF CommitBatch, Publishes, Sees, GoTypeOK, TablesOK
    <3>2. CASE Abort(r) \/ Upload(r) \/ BeginTx(r) \/ CheckMember(r) \/ TouchNode(r)
               \/ SelectEvent(r) \/ InsertEvent(r)
      BY <3>2 DEF Abort, Upload, BeginTx, CheckMember, TouchNode, SelectEvent, InsertEvent,
                  GoTypeOK, TablesOK
    <3>. QED
      BY <1>1, <3>1, <3>2 DEF Serve
  <2>. QED
    BY <2>1, <2>2, <2>3 DEF GoTypeOK, TablesOK
<1>2. ASSUME NEW u \in User, Reactivate(u) PROVE GoTypeOK'
  <2>1. \A r \in Request : call'[r] = [call[r] EXCEPT !.barred = @ \ {u}]
    BY <1>2 DEF Reactivate
  <2>2. \A r \in Request : call'[r] \in Calls /\ AtHand(call'[r])
    <3>. TAKE r \in Request
    <3>1. call[r] \in Calls /\ AtHand(call[r]) /\ call'[r] = [call[r] EXCEPT !.barred = @ \ {u}]
      BY <2>1 DEF GoTypeOK
    <3>2. call'[r].pc = call[r].pc /\ call'[r].body = call[r].body
      BY <3>1 DEF Calls
    <3>3. call'[r] \in Calls
      BY <3>1 DEF Calls
    <3>. QED
      BY <3>1, <3>2, <3>3 DEF AtHand
  <2>3. call' \in [Request -> Calls]
    BY <1>2, <2>2 DEF Reactivate
  <2>. QED
    BY <1>2, <2>2, <2>3 DEF Reactivate, GoTypeOK, TablesOK
<1>3. ASSUME NEW u \in User, RevokedElsewhere(u) PROVE GoTypeOK'
  BY <1>3 DEF RevokedElsewhere, GoTypeOK, TablesOK
<1>4. CASE UNCHANGED goServerVars
  BY <1>4 DEF goServerVars, GoTypeOK, TablesOK
<1>. QED
  BY <1>1, <1>2, <1>3, <1>4 DEF GoServerNext, BreakDeadlock

LEMMA ConflictsStep == ASSUME GoInv, [GoServerNext]_goServerVars PROVE ConflictsSound'
<1>. USE DEF GoInv, ConflictsSound
<1>1. ASSUME NEW r \in Request, CommitBatch(r) PROVE ConflictsSound'
  <2>1. \A c \in call[r].log : c[1] \in EventIds
    BY DEF GoTypeOK, Calls
  <2>2. \A c \in call[r].log : c[2] # NoHash /\ usage'[c[1]] = c[2] /\ c[2] # c[3]
    BY <1>1, <2>1, Published DEF Kept, LogSeen, SeenIn, Sees
  <2>3. \A c \in conflicts : usage'[c[1]] = c[2]
    BY <1>1, Published DEF GoTypeOK, TablesOK
  <2>. QED
    BY <1>1, <2>2, <2>3 DEF CommitBatch, Publishes
<1>2. CASE UNCHANGED <<usage, conflicts>>
  BY <1>2
<1>. QED
  BY <1>1, <1>2 DEF GoServerNext, Serve, Upload, BeginTx, CheckMember, TouchNode, SelectEvent,
                    InsertEvent, BreakDeadlock, Abort, Reactivate, RevokedElsewhere, goServerVars

LEMMA KeptStep ==
  ASSUME GoInv, [GoServerNext]_goServerVars, NEW q \in Request
  PROVE  Kept(q, call[q])' /\ AtPayload(call[q])'
<1>1. ASSUME NEW r \in Request, Upload(r) \/ Serve(r) \/ Abort(r)
      PROVE  Kept(q, call[q])' /\ AtPayload(call[q])'
  <2>1. CASE q = r
    <3>1. CASE Upload(r) \/ CheckMember(r) \/ SelectEvent(r) \/ InsertEvent(r)
      <4>1. Kept(r, call'[r]) /\ AtPayload(call'[r])
        BY <3>1, UploadKept, CheckKept, SelectKept, InsertKept
      <4>2. UNCHANGED <<usage, nodeRow, status>>
        BY <3>1 DEF Upload, CheckMember, SelectEvent, InsertEvent
      <4>. QED
        BY <2>1, <4>1, <4>2 DEF Kept, NodesHeld, RowsNew, TakenSeen, LogSeen, BarredOut, SeenIn,
                                AtPayload
    <3>2. CASE BeginTx(r)
      <4>1. call[r] \in Calls
        BY DEF GoInv, GoTypeOK
      <4>2. call'[r] = [call[r] EXCEPT !.pc = "member"] /\ UNCHANGED <<usage, nodeRow, status>>
        BY <3>2 DEF BeginTx, With, GoInv, GoTypeOK
      <4>3. /\ call'[r].touched = call[r].touched /\ call'[r].new = call[r].new
            /\ call'[r].taken = call[r].taken /\ call'[r].log = call[r].log
            /\ call'[r].barred = call[r].barred /\ call'[r].cached = call[r].cached
            /\ call'[r].pc = "member"
        BY <4>1, <4>2 DEF Calls
      <4>. QED
        BY <2>1, <4>2, <4>3 DEF GoInv, Kept, NodesHeld, RowsNew, TakenSeen, LogSeen, BarredOut,
                                SeenIn, AtPayload
    <3>. QED
      BY <1>1, <2>1, <3>1, <3>2, TouchKept, EndKept DEF Serve
  <2>2. CASE q # r
    <3>1. call'[q] = call[q]
      BY <1>1, <2>2, CallType DEF GoInv, GoTypeOK
    <3>2. UNCHANGED status
      BY <1>1 DEF Serve, Upload, BeginTx, CheckMember, TouchNode, SelectEvent, InsertEvent,
                  CommitBatch, Abort
    <3>3. UNCHANGED usage \/ CommitBatch(r)
      BY <1>1 DEF Serve, Upload, BeginTx, CheckMember, TouchNode, SelectEvent, InsertEvent, Abort
    <3>4. \A n \in Node : nodeRow[n] = q => nodeRow'[n] = q
      <4>1. CASE TouchNode(r)
        BY <2>2, <4>1, TouchKept, GoServerAssumption
      <4>2. CASE CommitBatch(r) \/ Abort(r)
        BY <2>2, <4>2 DEF CommitBatch, Abort, RowsFreed
      <4>3. CASE Upload(r) \/ BeginTx(r) \/ CheckMember(r) \/ SelectEvent(r) \/ InsertEvent(r)
        BY <4>3 DEF Upload, BeginTx, CheckMember, SelectEvent, InsertEvent
      <4>. QED
        BY <1>1, <4>1, <4>2, <4>3 DEF Serve
    <3>. QED
      BY <2>2, <3>1, <3>2, <3>3, <3>4, OthersKept
  <2>. QED
    BY <2>1, <2>2
<1>2. ASSUME NEW u \in User, Reactivate(u) PROVE Kept(q, call[q])' /\ AtPayload(call[q])'
  <2>1. call'[q] = [call[q] EXCEPT !.barred = @ \ {u}]
    BY <1>2 DEF Reactivate
  <2>2. call[q] \in Calls
    BY DEF GoInv, GoTypeOK
  <2>3. /\ call'[q].touched = call[q].touched /\ call'[q].new = call[q].new
        /\ call'[q].taken = call[q].taken /\ call'[q].log = call[q].log
        /\ call'[q].barred = call[q].barred \ {u} /\ call'[q].cached = call[q].cached
        /\ call'[q].pc = call[q].pc /\ call'[q].body = call[q].body
    BY <2>1, <2>2 DEF Calls
  <2>4. UNCHANGED <<usage, nodeRow>> /\ \A v \in User \ {u} : status'[v] = status[v]
    BY <1>2 DEF Reactivate, GoInv, GoTypeOK, TablesOK
  <2>5. BarredOut(call[q])'
    <3>1. call[q].barred \subseteq User
      BY <2>2 DEF Calls
    <3>. QED
      BY <2>3, <2>4, <3>1 DEF GoInv, Kept, BarredOut
  <2>6. NodesHeld(q, call[q])' /\ RowsNew(call[q])' /\ TakenSeen(call[q])' /\ LogSeen(call[q])'
    BY <2>3, <2>4 DEF GoInv, Kept, NodesHeld, RowsNew, TakenSeen, LogSeen, SeenIn
  <2>7. AtPayload(call[q])'
    BY <2>3, <2>4 DEF GoInv, AtPayload, SeenIn
  <2>. QED
    BY <2>5, <2>6, <2>7 DEF Kept
<1>3. ASSUME NEW u \in User, RevokedElsewhere(u) PROVE Kept(q, call[q])' /\ AtPayload(call[q])'
  <2>1. /\ UNCHANGED <<usage, nodeRow, call>>
        /\ \A v \in User : status[v] # "active" => status'[v] # "active"
    BY <1>3 DEF RevokedElsewhere, GoInv, GoTypeOK, TablesOK
  <2>2. call[q].barred \subseteq User
    BY DEF GoInv, GoTypeOK, Calls
  <2>3. BarredOut(call[q])'
    BY <2>1, <2>2 DEF GoInv, Kept, BarredOut
  <2>. QED
    BY <2>1, <2>3 DEF GoInv, Kept, NodesHeld, RowsNew, TakenSeen, LogSeen, SeenIn, AtPayload
<1>4. CASE UNCHANGED goServerVars
  BY <1>4 DEF goServerVars, GoInv, Kept, NodesHeld, RowsNew, TakenSeen, LogSeen, SeenIn, BarredOut,
              AtPayload
<1>. QED
  BY <1>1, <1>2, <1>3, <1>4 DEF GoServerNext, BreakDeadlock

LEMMA GoInvInit == GoServerInit => GoInv
<1>. SUFFICES ASSUME GoServerInit PROVE GoInv
  OBVIOUS
<1>1. \A r \in Request : call[r] = NoCall
  BY DEF GoServerInit
<1>2. GoTypeOK
  <2>1. AtHand(NoCall)
    BY DEF AtHand, NoCall
  <2>2. call \in [Request -> Calls]
    BY NoCallType DEF GoServerInit
  <2>. QED
    BY <1>1, <2>1, <2>2 DEF GoServerInit, GoTypeOK, TablesOK
<1>3. ConflictsSound
  BY DEF GoServerInit, ConflictsSound
<1>4. \A r \in Request : Kept(r, NoCall) /\ AtPayload(NoCall)
  BY DEF NoCall, Kept, NodesHeld, RowsNew, TakenSeen, LogSeen, BarredOut, AtPayload
<1>. QED
  BY <1>1, <1>2, <1>3, <1>4 DEF GoInv

LEMMA GoInvSound == GoInv => GoServerSound
<1>. SUFFICES ASSUME GoInv PROVE GoServerSound
  OBVIOUS
<1>1. GoInsertNeverCollides
  <2>. SUFFICES ASSUME NEW r \in Request, call[r].pc = "insert"
                PROVE  /\ usage[This(r).id] = NoHash
                       /\ \A q \in Request \ {r} : call[q].new[This(r).id] = NoHash
    BY DEF GoInsertNeverCollides, Stage
  <2>1. This(r) \in Payloads
    BY HeadType DEF GoInv, GoTypeOK, AtHand, This
  <2>2. This(r).id \in EventIds
    BY <2>1 DEF Payloads
  <2>3. NodeKey(This(r)) \in call[r].touched /\ SeenIn(call[r], This(r).id) = NoHash
    BY DEF GoInv, AtPayload, This
  <2>. QED
    BY <2>2, <2>3, OneWriter DEF NodeKey, SeenIn
<1>2. GoConflictKeepsOlder
  BY DEF GoInv, ConflictsSound, GoConflictKeepsOlder
<1>3. GoRevokedStaysOut
  BY DEF GoInv, Kept, BarredOut, GoRevokedStaysOut
<1>4. GoAnsweredIsStored
  <2>. SUFFICES ASSUME NEW r \in Request, call[r].pc = "idle", NEW id \in call[r].taken
                PROVE  usage[id] # NoHash
    BY DEF GoAnsweredIsStored, Stage
  <2>1. id \in EventIds
    BY DEF GoInv, GoTypeOK, Calls
  <2>. QED
    BY <2>1 DEF GoInv, Kept, TakenSeen, SeenIn, AtPayload
<1>. QED
  BY <1>1, <1>2, <1>3, <1>4 DEF GoServerSound

(***************************************************************************)
(* The Go upload path: its INSERT meets no row its SELECT did not see, what  *)
(* an answer calls taken is stored, a conflict row names the content that    *)
(* stands, and an upload that arrived after a revocation stores nothing, for *)
(* any number of overlapping, failing and repeated uploads.                  *)
(***************************************************************************)
THEOREM GoUploadsSound == GoServerSpec => []GoServerSound
<1>1. GoInv /\ [GoServerNext]_goServerVars => GoInv'
  BY GoTypeStep, ConflictsStep, KeptStep DEF GoInv
<1>. QED
  BY <1>1, GoInvInit, GoInvSound, PTL DEF GoServerSpec

=============================================================================
