----------------------------- MODULE GoProviders -----------------------------
(***************************************************************************)
(* Refreshing the Go daemon's providers: go-desktop/internal/provider.      *)
(* Manager runs one goroutine per provider for every refresh, asked for by  *)
(* its ticker or over IPC; refreshes of one provider may overlap.  The      *)
(* snapshots are in the Store, whose listener is the BudgetNotifier.        *)
(*                                                                         *)
(* Abstracted: spend and limit are small numbers, the warning threshold is  *)
(* the limit itself, a limit of 0 stands for no budget; tokens, units and   *)
(* times are left out.  HTTP answers are "ok", "401" or "error".            *)
(***************************************************************************)
EXTENDS Naturals, FiniteSets

CONSTANTS Provider,   \* registered providers
          Asker,      \* who asks for refreshes: the ticker, IPC requests
          Attempts,   \* RetryPolicy.Attempts
          MaxSpend    \* bound on what a provider reports

ASSUME ProviderAssumption == Attempts \in Nat \ {0} /\ MaxSpend \in Nat

VARIABLES snap,      \* Store.snapshots
          notified,  \* BudgetNotifier.notified
          limit,     \* the budget configured per provider
          spent,     \* what the provider would report
          task,      \* the refreshOne goroutines, per asker and provider
          good,      \* history: the last snapshot stored by a success
          raced      \* history: two refreshes of the provider overlapped

providerVars == <<snap, notified, limit, spent, task, good, raced>>

NoSnap == [spend |-> 0, limit |-> 0, failed |-> FALSE, known |-> FALSE]
NoTask == [pc |-> "idle", left |-> 0, snap |-> NoSnap]
Over(s) == s.limit > 0 /\ s.spend >= s.limit

ProviderInit ==
  /\ snap = [p \in Provider |-> NoSnap] /\ good = snap
  /\ notified = {} /\ raced = {}
  /\ limit = [p \in Provider |-> 0]
  /\ spent = [p \in Provider |-> 0]
  /\ task = [t \in Asker \X Provider |-> NoTask]

Moves(a, p, r) == task' = [task EXCEPT ![<<a, p>>] = r]

-----------------------------------------------------------------------------
(* What a request ends in, given what the server answers at first, whether    *)
(* the token refresher succeeds, and what the server answers then.            *)
DoGet(first, renewed, then) ==
  IF first # "401" THEN first ELSE IF renewed THEN then ELSE "error"

\* LiteLLM tries its API key when the answer is still 401.
LiteLLMGet(first, renewed, then, byKey) ==
  LET answer == DoGet(first, renewed, then)
  IN IF answer = "401" THEN byKey ELSE answer

Answer == {"ok", "401", "error"}

\* RefreshAll asks every provider, RefreshOne one.
Refresh(a, P) ==
  /\ \A p \in Provider : task[<<a, p>>].pc = "idle"
  /\ task' = [t \in Asker \X Provider |->
                IF t[1] = a /\ t[2] \in P
                THEN [NoTask EXCEPT !.pc = "fetch", !.left = Attempts] ELSE task[t]]
  /\ raced' = raced \cup {p \in P : \E b \in Asker : task[<<b, p>>].pc # "idle"}
  /\ UNCHANGED <<snap, notified, limit, spent, good>>

\* Not configured (nobody is signed in): skipped silently.
Skip(a, p) ==
  /\ task[<<a, p>>].pc = "fetch" /\ task[<<a, p>>].left = Attempts /\ Moves(a, p, NoTask)
  /\ UNCHANGED <<snap, notified, limit, spent, good, raced>>

\* The snapshot with the budget overlaid.
Budgeted(p) == [spend |-> spent[p], limit |-> limit[p], failed |-> FALSE, known |-> TRUE]

\* fetchWithRetry: one attempt; a backoff and another one while some are left.
\* ErrNotConfigured, when the user signs out meanwhile, is not retried.
NotCounted(n)      == n
Fewer(n)           == n - 1
Fetch(a, p) ==
  /\ task[<<a, p>>].pc = "fetch"
  /\ \E answer \in {LiteLLMGet(first, renewed, then, byKey) :
                       first, then, byKey \in Answer, renewed \in BOOLEAN} :
       IF answer = "ok"
       THEN Moves(a, p, [NoTask EXCEPT !.pc = "store", !.snap = Budgeted(p)])
       ELSE \E n \in {Fewer(task[<<a, p>>].left), 0} :
              Moves(a, p, [NoTask EXCEPT !.pc = IF n > 0 THEN "backoff" ELSE "failed", !.left = n])
  /\ UNCHANGED <<snap, notified, limit, spent, good, raced>>

Backoff(a, p) ==
  /\ task[<<a, p>>].pc = "backoff" /\ Moves(a, p, [task[<<a, p>>] EXCEPT !.pc = "fetch"])
  /\ UNCHANGED <<snap, notified, limit, spent, good, raced>>

\* buildErrorSnapshot keeps what the store holds.
Blank(s)  == [NoSnap EXCEPT !.failed = TRUE]
Failed(s) == [s EXCEPT !.failed = TRUE]

ReadPrior(a, p) ==
  /\ task[<<a, p>>].pc = "failed"
  /\ Moves(a, p, [NoTask EXCEPT !.pc = "store", !.snap = Failed(snap[p])])
  /\ UNCHANGED <<snap, notified, limit, spent, good, raced>>

\* Store.Set, and BudgetNotifier.OnSnapshot under its lock: a provider enters
\* notified in the step that emits the warning, and a snapshot without a limit
\* leaves it where it is.
Silent(p, s) == IF s.limit = 0 \/ Over(s) THEN notified ELSE notified \ {p}
Warned(p, s) == IF s.limit = 0 THEN notified
                ELSE IF Over(s) THEN notified \cup {p} ELSE notified \ {p}

StoreSet(a, p) ==
  /\ task[<<a, p>>].pc = "store"
  /\ LET s == task[<<a, p>>].snap
     IN /\ snap' = [snap EXCEPT ![p] = s]
        /\ notified' = Warned(p, s)
        /\ good' = IF s.failed THEN good ELSE [good EXCEPT ![p] = s]
  /\ Moves(a, p, NoTask)
  /\ UNCHANGED <<limit, spent, raced>>

-----------------------------------------------------------------------------
Spend(p) ==
  /\ \E n \in 0 .. MaxSpend : n # spent[p] /\ spent' = [spent EXCEPT ![p] = n]
  /\ UNCHANGED <<snap, notified, limit, task, good, raced>>

SetBudget(p) ==
  /\ limit' = [limit EXCEPT ![p] = IF @ = 0 THEN MaxSpend ELSE 0]
  /\ UNCHANGED <<snap, notified, spent, task, good, raced>>

TaskStep(a, p) == Fetch(a, p) \/ Backoff(a, p) \/ ReadPrior(a, p) \/ StoreSet(a, p)

ProviderNext ==
  \/ \E a \in Asker, P \in SUBSET Provider : P # {} /\ Refresh(a, P)
  \/ \E a \in Asker, p \in Provider : Skip(a, p) \/ TaskStep(a, p)
  \/ \E p \in Provider : Spend(p) \/ SetBudget(p)

\* A request times out after 30 s and a backoff ends.
ProviderFairness ==
  \A a \in Asker, p \in Provider : WF_providerVars(TaskStep(a, p))

ProviderSpec == ProviderInit /\ [][ProviderNext]_providerVars

-----------------------------------------------------------------------------
(* A failed refresh keeps the numbers of the last success, instead of          *)
(* blanking them; only overlapping refreshes of a provider, one of which       *)
(* reads the prior snapshot before the other stores its own, go back further.  *)
ErrorKeepsLastGood ==
  \A p \in Provider \ raced :
    snap[p] = [good[p] EXCEPT !.failed = snap[p].failed]

Crosses(p) == ~Over(good[p]) /\ Over(good'[p])
Warns(p)   == p \in notified' \ notified

(* A budget warning is given when the spend of the last success crosses the    *)
(* limit, and not again while it stays over it, whatever fails in between.     *)
(* Only a provider that was over its limit when the limit went away is still    *)
(* in notified when it has a limit again and is over it: no second warning,    *)
(* although budget_notifier.go:8-10 has one fire at every crossing.             *)
WarnsOncePerCrossing ==
  \A p \in Provider \ raced :
    /\ Warns(p) => Crosses(p)
    /\ Crosses(p) => Warns(p) \/ (p \in notified /\ good[p].limit = 0)

(* Whatever is stored, by whichever of the refreshes under way: a failure       *)
(* neither blanks the figures nor repeats a warning, and none is left out but   *)
(* the one after a time without a limit.                                       *)
ProvidersSound == [][ErrorKeepsLastGood' /\ WarnsOncePerCrossing]_providerVars

(* Every refresh ends: the attempts are counted.                               *)
RefreshEnds ==
  \A a \in Asker, p \in Provider : (task[<<a, p>>].pc # "idle") ~> (task[<<a, p>>].pc = "idle")
=============================================================================
