# Verification of llm-cost-monitor

TLA+ models of llm-cost-monitor, TLC runs that check them on small instances,
and TLAPS proofs of what matters most for every instance. Paths below are
relative to the repository.

The program reads the usage logs of AI coding tools on each machine, prices
them, shows the cost in a tray application, and can upload the events to a team
server that merges the machines of many people into one cost dashboard. The
numbers are the product, so the question asked throughout is: **can an event be
lost, counted twice, or attributed to somebody who may not upload it?**

1. [Inventory](#1-inventory)
2. [What is modelled](#2-what-is-modelled)
3. [Runs](#3-runs)
4. [Fairness](#4-fairness)
5. [Proofs](#5-proofs)
6. [Disagreements with the documentation](#6-disagreements-with-the-documentation)
7. [Not modelled](#7-not-modelled)
8. [Plan](#8-plan)
9. [Running the checks](#9-running-the-checks)

## 1. Inventory

| Part | Source | State it keeps | Operations | What makes it correct |
|---|---|---|---|---|
| log parsers, file cache | `src/main/parsers`, `storage/file-cache.ts` | byte offset per log file | parse one file, remember the offset | no line skipped or read twice, also after a crash |
| Cursor's usage | `providers/cursor/usage.ts` | none; events are made up from totals | ask three endpoints in turn, store | the totals of the last answer are in the table |
| plans | `providers/*/plan.ts`, `google/plan-cache.ts` | Google's cached plan, a file | detect, save, load | a paying account is shown as one |
| event storage | `storage/event-repository.ts` | `usage_events`, `sync_outbox` in the local Postgres | `upsertMany` (one transaction) | an event is stored iff its outbox row is |
| pricing | `pricing/pricing-table.ts` | a table loaded at start | lookup, cost | no answered call is free by accident |
| aggregation, yield score | `aggregation`, `git` | none | queries at the same time, read-only | the figures of one snapshot agree |
| sync queue | `sync/sync-queue.ts`, `outbox-`, `cursor-repository.ts`, `transport.ts`, `redaction.ts` | outbox `seq` and `sent_at`, `sync_cursor`, one in-flight drain per queue | `drain`, `forceDrain` | nothing left behind, cursor monotone, cadence kept |
| scheduler, IPC | `index.ts`, `ipc.ts` | `syncQueue`, timers | rebuild on settings change, timers, "sync now" | everybody uses the current queue |
| settings | `settings/store.ts`, `SettingsTab.tsx` | memory copy, JSON file, listeners, the form's copy | `set`, `load`, `subscribe`, edit | memory, file, timers and window agree |
| authentication | `auth/*` | session, token file, `auth_user` row | sign in, restore, refresh, sign out | memory, file and row name one account, signed out stays signed out |
| alerts | `alerts/*` | `alerts` table, sampler | raise, snooze, ack, resolve, tick | one live alert per condition, one notification each |
| renderer | `renderer` | copies of data, requests under way | reload, select, poll, retry | the last answer shown is the current one |
| team server, uploads | `server/http.ts`, `server/team-service.ts`, `server/db.ts` | `usage_events`, `event_daily_rollup`, `daily_aggregates`, `nodes`, `sync_conflicts` | `events:batchUpsert` | rollup = events, first write wins, cap and membership obeyed, every call answered |
| team server, overview | `server/team-service.ts`, `sync/team-overview-client.ts`, `OverviewTab.tsx` | none | eight queries, a forecast made of the answer | the figures of one overview agree, and cover the account's month |
| team server, administration | the same | `teams`, `team_members` | add, revoke, set role, privacy floor | only active admins manage, a team keeps an admin |
| servers' start-up and tokens | `server/index.ts`, `auth.ts`, `migrate.ts`; `go-server/cmd`, `internal/auth`, `internal/db` | `schema_version`, cached key set, requests in flight | migrate, listen, authorise, drain, exit | no serving over half a schema, nobody let in by default |
| Go server | `go-server/internal` | the same tables, without the rollup | port of `batchUpsert` | the same answers as the TypeScript server |
| Go daemon | `go-desktop/internal/daemon` | lock, pid file, socket | start, stop | one daemon, and its files are its own |
| Go providers | `go-desktop/internal/provider` | snapshot store, listeners | refresh one, refresh all | a failure does not blank the figures; a warning at every crossing and at no other time |
| Go sessions | `go-desktop/internal/auth` | session and keyring | login, refresh, logout | no mixed accounts, signed out stays signed out |

How the parts interact. `ProviderRegistry.refreshAll` takes the providers in turn;
each parses its logs and calls `upsertMany`, which inserts the events and an
outbox row for each in one transaction. `refreshAll` itself may run twice at
once: the start-up and the timer call it (`index.ts:403-427`), and so does a window
(`ipc.ts:110`). A timer in `index.ts` calls `SyncQueue.drain`; the renderer's "sync
now" reaches `forceDrain` through IPC. A drain reads the cursor and a batch, POSTs
it, marks the rows sent and advances the cursor, with an `await` between any two
of these. The server handles each POST as one Postgres transaction, payload by
payload, through a pool of five connections. The windows learn of changes by
broadcasts and ask again; the alert sampler asks the aggregator and the registry
at every tick. The Go programs are a rewrite of daemon and server: the server may
share its database with the TypeScript one, the daemon shares nothing.

Where the behaviour is hard: transactions of two refreshes that commit in the
other order than they drew their sequence numbers; answers that are lost, late or
in another order; a queue replaced while its drain is running; two requests with
the same event; two batches that lock the same nodes crosswise; a COMMIT whose
acknowledgement is lost; a pool that is asked twice by one request; a log that
grows while it is read; calls of one service that overlap at every await;
processes that start, migrate and clean up at the same time. `hazards` in
`PROJECT.json` lists them at the line where each bites, with the properties that
cover it.

## 2. What is modelled

| Module | Stands for |
|---|---|
| `EventLedger` | the promise of the upload path: an append-only, first-write-wins table of events and per-bucket counters that move with it |
| `TeamServer` | the upload path itself: the route, `batchUpsert`, `upsertEvent`, `upsertDaily`, the pool, Postgres row locks; implements `EventLedger` |
| `SyncClient` | the desktop's side: outbox writers, `SyncQueue`, cursors, transport, scheduling, settings changes, restarts |
| `TeamMembership` | the admin routes: `requireAdmin`, `addMember`, `revokeMember`, `setMemberRole`, `setPrivacyFloor` |
| `Ingest` | one log, its parser, the file cache and the table |
| `Pricing` | the lookup of a price and the cost of a call |
| `Aggregation` | a snapshot: the queries behind today, the windows, the forecasts |
| `Alerts` | sampler, alert table, notifier, tray, the user's actions |
| `CursorUsage` | a refresh of Cursor's usage from its three endpoints |
| `TeamFigures` | what a window shows of a team: uploads at each privacy level, the queries of `getOverview`, the account's row and forecast |
| `Plans` | how the user pays each of the four vendors, and Google's plan cache |
| `AuthSession` | `AuthService` with its token file and table |
| `Settings` | settings store, what `index.ts` rebuilds, the form |
| `Views` | the six views of the renderer that ask for data |
| `GoServer` | `BatchUpsert` of the Go server |
| `ServerBoot` | start, migrations, tokens and shutdown of both servers |
| `GoSessions`, `GoDaemon`, `GoProviders` | the parts of the Go daemon |
| `MCTeamServer`, `MCSyncClient`, `MCTeamMembership`, `MCDesktop`, `MCData`, `MCGo` | the instances TLC checks |
| `EventLedgerProofs`, `TeamServerProofs` | theorems about ledger and upload path |
| `TeamMembershipProofs`, `SyncClientProofs` | theorems about the admin routes and the sync queue |
| `DesktopDataProofs` | theorems about `Alerts`, `Ingest` and `Pricing` |
| `DesktopFiguresProofs` | sums, and theorems about `CursorUsage`, `Aggregation` and `TeamFigures` |
| `DesktopServicesProofs` | theorems about `Settings`, `Views`, `Plans` and `AuthSession` |
| `GoProgramsProofs` | theorems about the Go programs and the servers' start |

`MCDesktop`, `MCData` and `MCGo` hold several components that share no state in
their models. A variable `part` says which one a behaviour exercises; the others
stay in a first state. The state space is then the sum and not the product of
theirs, and a run asks each component its own question.

### TeamServer

One action is one database round trip of one request, so requests interleave
wherever `batchUpsert` awaits. `pc[r]` says which statement comes next; the
variables called `my...` are the request's uncommitted writes.

| Action | Code (`server/team-service.ts` unless named) |
|---|---|
| `Receive` | `http.ts`: the route; an empty body is answered at once |
| `Connect` | `pool.connect()`, `BEGIN` |
| `Screen` | head of the loop: team of the URL, recomputed `sync_event_id`, cached status |
| `LookupMember` | `getMembership`, a query of **the pool** |
| `CheckDevice` | `loadUserNodes` once per user, `maxDevicesPerUser` |
| `Touch` | upsert of the node row, waits for its row lock |
| `SelectEvent`, `InsertEvent` | `upsertEvent`: duplicate, conflict row, or insert and delta |
| `UpsertDaily` | `upsertDaily`, an overwrite |
| `EndLoop`, `Commit` | rollup increments and `COMMIT`; the acknowledgement may be lost |
| `Fail` | any statement failing: `ROLLBACK`, `release`, 500 |
| `Reply` | the response; what it reports stored goes to the history variable `acked` |
| `AddMember`, `RevokeMember` | a member appears, comes back or is revoked at any moment |

Postgres is part of the model, not an assumption: reads are READ COMMITTED,
`ON CONFLICT DO UPDATE` on `nodes` takes a row lock until the transaction ends
(`NodeLocked`), and `InsertEvent` is enabled only when the primary key is free
(`Collides`), so a collision would show. Contents, days, tokens and cost are
abstract: a content is what a `payload_hash` tells apart, and the rollup keeps
`event_count` only, because tokens and cost are added by the same statement.

### SyncClient

`outbox`, `sent`, `cursor` and `age` are the local tables; `mine[w]` the
uncommitted rows of a writer. `qpc[q]` is where the drain of queue instance `q`
is; `current` is the instance the timer uses and `ipc` the one the handlers
captured. The server is what `TeamServer` promises, seen from here: `served` is
the set of events each server has processed for each target, `bucket` the event
set its daily row sums.

| Action | Code |
|---|---|
| `Enqueue`, `CommitRows`, `RollbackRows` | `event-repository.ts` `upsertMany`; a conflicting or rolled-back insert leaves a gap in `seq` |
| `ChangeSettings` | `settings.subscribe` in `index.ts`: a new queue each time |
| `StartScheduled`, `StartForced` | `runSyncDrain`, the `SYNC_DRAIN` handler; `drainGated` joins a drain in flight |
| `Peek` | `cursors.get` and the cadence gate |
| `ReadBatch` | `outbox.pending`, redaction, the token |
| `Deliver`, `Acknowledge`, `FailCall` | the POST applied, answered, or given up after 15 s |
| `DeliverLate`, `LoseLate` | what the client gave up is applied later, or never |
| `MarkSent`, `Advance` | `outbox.markSent(maxSeq)`, `cursors.advance` with `GREATEST` |
| `FailStatement` | a local statement fails, the drain ends |
| `Tick`, `Restart` | time, and the app dying and starting |

### TeamMembership

One team, since every statement names its team. One action is one statement of
one request; `requireAdmin` reads the caller's row, and what it allowed happens
after further awaits.

| Action | Code |
|---|---|
| `Receive`, `RequireAdmin` | `http.ts`: the admin routes; a call by `Console` goes to the service directly |
| `LockTeam`, `CountAdmins`, `UpsertMember`, `CommitAdd` | `addMember`: row of the team, election of the first admin, `ON CONFLICT` that keeps a role, `COMMIT` |
| `Revoke`, `SetFloor` | `revokeMember`, `setPrivacyFloor`: one `UPDATE` each |
| `SelectMember`, `CountOthers`, `Refuse`, `CommitRole` | `setMemberRole`: row of the member, other admins, 404 or 400, `UPDATE` and `COMMIT` |
| `Fail` | 401, a bad body, a failing statement: `ROLLBACK` |

Two history variables: `trusted[r]`, the caller was an active admin at some moment
since the request arrived; `raced[r]`, somebody was demoted since the request
counted the admins. Teams are inserted by operators: `ensureTeam` is called by
tests only, and a team without a row (`NoTeam`) is one of the initial states.

### Ingest

One log of one of the four formats (`format`), which the assistant only appends to,
often half a line at a time. The cache is an offset; `gone` remembers lines a
failed refresh passed over or a reading cut in two.

| Action | Code |
|---|---|
| `AppendLine`, `FinishLine` | the assistant (external) |
| `Stat`, `ReadLog` | `parse...File`: the size, then the lines from the cached offset; Codex always reads from the start |
| `WriteCache`, `Store` | the cached offset first, then `upsertMany` |
| `RefreshFails` | an error or the end of the app in between |

`Parse` says what each format makes of a line: of the chunks of a Claude message the
last one that this reading finds is an event, whose id contains the time of that
chunk; a Codex or Cursor call is told with the turn context before it. Counts, tools
and projects are left out.

### Pricing

`BuildEntries` is the loading of the file, `Price` the lookup: the exact name,
provider prefixes, the prefix sweep in both directions, keywords. A name is the
sequence of its parts; the order of the file's entries matters and is part of the
model. `PricesSound` compares the cost with a definition of its own: only entries
related to the model may have a part in it (`Related`), and answered output is free
only where one of those is.

### Aggregation

`Ask` starts a snapshot, `RunQuery(q)` answers one of its queries on a connection of
its own, `Return` puts the figures together; `StoreEvent` and `MidnightPasses` fall
anywhere. A day is `DayLen` units and the clocks may change by one, because the
code counts in `DAY_MS`. `AggregationSound`: the figures of one snapshot agree, the
forecasts are defined and extrapolate the days that have passed.

### Alerts

One action per await of `AlertSampler.tick` (`TickStart`, `Unsnooze`, `Raise`,
`Snapshot`, `Downgrade`, `TickDone`, `TickFails`), since `setInterval` does not wait
for it, and one per IPC handler (`Ack`, `Snooze`, `Resolve`, `ResolveAll`), on a list
that may be old. History: notifications per alert, raises a failed tick left
unannounced, and whether a subscription was seen since.

### CursorUsage

`Refresh`, `Summary`, `Daily`, `Legacy` and `StoreUsage` are the requests of
`fetchCursorUsageEvents` in order and the `upsertMany` after them; `Fail` is any of
them failing. `MakeRequest`, `NewEntry`, `SpendMore` and `Later` are the account and
the clock. The arithmetic of the split, the rounded timestamps, the ids and the
numbering of entries are kept; tokens are not.

### TeamFigures

`merged` is the view `v_merged_daily`: one record per event and per row it is counted
in, with the level it came at and when. An event of a daily row is in it under the key
of that row, so that an overwritten row takes its events along.

| Action | Code |
|---|---|
| `Upload` | `drainImpl` at the level of the settings, `redactToDaily` and `upsertDaily`, or `redactEvent` and `upsertEvent`; the answer may be lost |
| `AskOverview` | `fetchTeamOverview` and the route: the window of the period, at least an hour, and the local midnight |
| `RunNextQuery` | the queries of `getOverview`, each on its own, in the order of the code |
| `Forget` | the window asks again |
| `HourPasses` | the clock |

`Upload(n, u)` takes the account from the settings, which may name another one at
each drain. `nodes` is the table of that name: `Touched` gives a node the account of
its first upload and only renews `last_seen_at` after that (`ON CONFLICT`), while
the rows of the upload carry the account of the payload. A machine is therefore not
one account's: `Uploaded(u)` and `MachinesOf(u)` are what was uploaded for an
account and from where.

Time is in hours, and an event costs one. Dates are UTC days, `today` is a moment,
the month of the query is the server's and the days elapsed are the window's, which
is `zone` ahead. `tangled` notes the nodes that have an event counted twice (in a
daily row and as a row, or for two accounts) or lost from a daily row, `disturbed`
and `shrunk` what was uploaded since the overview was asked. Abstracted: the clocks
do not change and months are equally long, there are no more than eight projects, no
hour passes between the queries of one overview because its client gives up after
eight seconds, and the forecasts by provider are made like the one of the account.

### Plans

`Detect` reads the credentials; Anthropic and OpenAI are answered from the disk,
Google through `CodeAssist`, `Truncate`, `Write`, `TellLive` or, when it does not
answer, `LoadPlan`; Cursor through `Stripe`, `Me` and `Tell`. Two callers, the
dashboard and the alert sampler, do so at once, while the account changes (`Sign`) and
the cache ages (`Ages`). `writeFile` is two steps: it truncates, then writes.

### AuthSession

`RestoreStep`, `SignInStep`, `SignOutStep` and `TokenStep` are the awaits of
`restoreSession`, `signIn`, `signOut` and `accessTokenForSync`, over the session in
memory, the token file and the `auth_user` rows. Google's answers are choices; the
unlinking of the token file succeeds, see section 7; a
refresh token is an account and a number. `AppRestart` falls anywhere. History:
`overlap`, `unwritten`, `left` say which excuses a property may use.

### Settings

`Set` is `SettingsStore.set` with its merge, the write, which may fail, and the
listener of `index.ts` that rebuilds queue and timers; `Load` the start, with the
file (`Restored`) or, where it is missing or does not parse, with the defaults and
their first write, which may fail or be cut short and whose failure is swallowed
(`Initialised`); `Stop` the end of the app, also inside a write; `Edit` and
`PickInterval` the form, which sends the whole `teamSync` block of its own copy;
`Receive` the broadcast that renews the copy.

### Views

`view` is one of six: `App`, the browser dashboard, the alerts, the account rows of
the two overviews, the team. They differ in who tells them of a change
(`Announced`; a change goes untold, `Unannounced`, when a step between it and its
broadcast fails), which requests they cancel (`Cancelled`) and what they do by the clock
(`Poll`, `Rerender`). `Serve`, `ShowAnswer` and `RequestFails` let answers come late,
fail and overtake each other. `Manage` is an admin action of the team's view; its
answer may be lost although the server did it (`CallManage`), and then nothing is asked
again.

### The Go programs

`GoServer`: `Upload`, `Serve` (one statement of `BatchUpsert`), `Abort`,
`BreakDeadlock`, and the members that come and go; it reads the membership on the
transaction's connection and has no cap and no rollup, unlike `TeamServer`.

`ServerBoot`: `Launch`, `BootStep` (mode, schema version, each migration, listen),
`Authorize`, `RefreshKeys`, `Terminate`, `RequestEnds`, `Exit`, `Dies`, for servers
of both kinds over one database.

`GoSessions`: `LoginStart`, `LoginDone`, `RefreshStart` to `RefreshInstall`,
`SaveAccess`, `SaveRefresh`, `Logout`, `RotateKey`, `DaemonRestart`: the mutex is
not held over the network or the keyring, so each is a step. A login brings a
refresh token or none (`NewGrant`), a refresh rotates it or not (`Taken`), and a
refresh that fails may have failed behind a rotation whose answer is lost, as may
one whose id token does not verify: `lost` notes both. `GoDaemon`: the steps of
`RunForeground` (`Startup`, of which the pid file, the socket and its mode may fail,
`Shutdown`, `Crash`) and of the commands that look for a daemon and stop it.
`GoProviders`: `Refresh`, `TaskStep` (request, retry, backoff, store, notify),
`Skip`, and the spend and the budget that change meanwhile.

## 3. Runs

| Run | Module | Expected | Question |
|---|---|---|---|
| `server_upload` | `MCTeamServer` | pass | do rollup, events, conflicts and answers stay consistent, and does the code implement `EventLedger`? |
| `server_mixed` | `MCTeamServer` | pass | is every payload judged once, and is a revocation obeyed? |
| `server_answers` | `MCTeamServer` | pass | is every upload answered when a connection is to spare, row-lock deadlocks included? |
| `server_pool_exhausted` | `MCTeamServer` | violation | and when as many uploads are in flight as there are connections? |
| `client_one_writer` | `MCSyncClient` | pass | with one provider refresh at a time, is anything marked sent or passed by the cursor that no server saw? does the cursor ever go back? |
| `client_uploads` | `MCSyncClient` | pass | with sync switched on and off and queues replaced, are scheduled uploads `intervalMs` apart, and does every event reach the server in the end? |
| `client_two_writers` | `MCSyncClient` | violation | is the first question's answer the same with two refreshes at once? |
| `team_admin` | `MCTeamMembership` | pass | do only admins manage, are elections serial, does a lone demotion leave an admin, is every request answered? |
| `team_last_admin` | `MCTeamMembership` | violation | does a team keep an admin when two are demoted at once? |
| `desktop_services` | `MCDesktop` | pass | do session, file and row agree, does signing in end (`AuthSound`, `SignInSettles`)? one alert and one notification per condition, and does a decision of the user hold (`AlertsSound`, `AlertsSettle`)? |
| `desktop_data` | `MCData` | pass | is every line of a log one row (`IngestSound`)? is no call free by accident (`PricesSound`)? do the figures of a snapshot agree (`AggregationSound`)? does the table hold what Cursor reported (`CursorSound`)? do the figures of a team's overview agree while machines upload for changing accounts, and does the forecast cover the month (`TeamFiguresSound`)? is a paying account shown as one, and a saved plan kept (`PlansSound`)? do the running queue and timers, the file and the window follow the settings (`SettingsSound`)? does the last answer stand (`ViewsSound`)? |
| `go_programs` | `MCGo` | pass | does a session stay one account's (`SessionsSound`)? one daemon, with its own files (`DaemonSound`)? do failures keep the figures, is a crossing announced, and nothing else (`ProvidersSound`)? are uploads to the Go server stored, once, under their lock (`GoServerSound`)? does a server serve over a complete schema and refuse by default (`BootSound`)? does what was asked for end (`GoEnds`)? |

Bounds, and why the interesting cases happen within them.

*Server.* Two requests at a time (`Req`) are enough for every pairwise race, and
each may send again after its answer, so a retry meets its own earlier writes and
those of the other. `server_upload` offers three bodies: an event, the same event
with two contents in one body (a conflict inside a transaction, and in another
bucket), and a body that locks two nodes. `server_mixed` offers a foreign team, a
forged id, a daily bucket, a second device above the cap and an empty body, while
the member comes and goes. `server_answers` has two bodies that lock two nodes in
opposite orders and three connections; `server_pool_exhausted` the same with two.
The real pool has five connections: the pattern needs as many requests as
connections, whatever the number. Nothing in the server model is cut off by a
counter: the state space is finite because tables grow by a finite set of ids.

*Client.* `MaxSeq` bounds the sequence numbers (3 or 4, with gaps from conflicts
and rollbacks among them), `MaxBatch` is 1 or 2 so that a batch is cut short,
`MaxLate` requests may be under way after being given up, `MaxCrash` restarts may
happen, and two `Queue` names allow one stale instance to overlap the current
one. `Interval` is one or two ticks; the age of the last sync saturates there.
`client_uploads` leaves late requests out (`MaxLate = 0`), which
`client_one_writer` has. The client of `client_one_writer` is `aggregateOnly`,
which has one step more to what it sends; the rows it marks are the same.

*Members.* Two requests, three users, and three teams to start with: three
admins, an admin and a member, and nobody, each with and without a row in
`teams`. The calls are ten of the many: the console adds anybody, two users
demote, promote, revoke and add each other and the third. No counter bounds them.

*Desktop services.* Two accounts, two refresh tokens, one `signOut` and one
`accessTokenForSync` beside `restoreSession` and `signIn`: any two of the four kinds
of call overlap. Two overlapping ticks of the sampler, at most two alerts, and no
load, one of the machine, or one of the budget.

*Settings, views, plans.* Settings have one URL and one in the environment, two
teams, two intervals and two edits on their way, so that an edit is sent from a
stale copy. Views have two selections, three requests at a time and two changes of
the data, enough for an older answer to overtake a newer one that has been overtaken
itself. Plans have four vendors, one at a time, two accounts of every tier, two
callers, and a cache that is fresh, at its limit or too old (`Ttl = 1`).

*Desktop data.* Logs of three lines with two Claude messages: a message in three
chunks, two messages that alternate, a turn before and after a resume. Prices:
every file of up to three of six entries, in every order, which cover prefixes,
missing rates, keywords and a shadowed entry. Days of two units, weeks of two days,
months of four, three starting tables, three calendars around a change of the
clocks, one of them at UTC and one unit off. Cursor: three requests per bucket with
a cap of two (`MAX_EVENTS_PER_REFRESH`), a cost that does not divide, two refreshes,
a cycle of two days, three entries of a team with empty ones among them.

*Team figures.* Two machines, each uploading for either of two accounts, west and
east of UTC (`Zones`); three events, two of them in one daily row; two uploads at a
level that aggregates or one that does not; days and months of two units, and the
clock from one UTC midnight to the next, so that a window begins in the first hour,
in the day and in another month.

*Go programs.* Two accounts, two grants, one refreshing goroutine beside login and
logout. Two daemons and one command. One provider with two askers, two attempts and
a spend of 0 or 1 around the limit. Two uploads of six bodies over two connections,
on two nodes in both orders. One server of each kind over two migrations and two
signing keys.

`CHECK_DEADLOCK FALSE` stands in the three runs of several parts because the bounds
(`MaxLines`, `MaxReads`, `MaxToken`, ...) end some of the parts, and in
`server_pool_exhausted`, whose point the deadlock is.

## 4. Fairness

`TeamServer`: weak fairness of each request's own steps, because Node runs every
ready callback and Postgres every statement it is given. Strong fairness of the
steps that wait for a connection or a row lock, because both queues are first
come first served. Weak fairness of `DetectDeadlock`, because Postgres fails one
transaction of a cycle of row locks. No fairness on failures or on new requests.

`SyncClient`: weak fairness of the timer and of time. Strong fairness of each
step of a drain: the database and the network may fail any number of times but
not for ever. No fairness of writers, settings or "sync now"; restarts are
bounded.

`TeamMembership`: weak fairness of each request's steps and strong fairness of
those that wait for a row lock, which Postgres grants first come first served.

`AuthSession`: weak fairness of the steps of each call, and of the five-minute timer
of the loopback server; nobody has to press anything or answer. `Alerts`: weak
fairness of the timer and of the steps of a tick, and strong fairness of the tick
at which a snooze is over, since `snoozed_until` passes once and for all. Queries
may still fail any number of times: `TickFails` disables nothing for ever.

`GoDaemon`: a process that was started runs on. `GoProviders`: requests time out and
backoffs end. `GoServer`: statements are answered, Postgres ends deadlocks.
`ServerBoot`: a start goes on, and a server that was told to stop exits when its
requests have ended. Requests of the Go server end, as `GoAnswered` says; of those
of the TypeScript server nothing is assumed, because `server_pool_exhausted` shows
uploads that never do, and `pool.end()` waits for their connections. The other
modules assume none and have safety properties only.

## 5. Proofs

| Theorem | Module | For every value of the constants |
|---|---|---|
| `LedgerRollup` | `EventLedgerProofs` | in the abstract ledger each counter equals a recount |
| `ServerTypes` | `TeamServerProofs` | `TypeInv`: types, each payload judged at most once, devices loaded before a node is written |
| `ServerInvariant` | `TeamServerProofs` | the inductive invariant `IInv` |
| `ServerNoCollision` | `TeamServerProofs` | `upsertEvent`'s INSERT never meets an existing row |
| `ServerImplementsLedger` | `TeamServerProofs` | `TeamServer` implements `EventLedger` |
| `ServerRollupMatches` | `TeamServerProofs` | `event_daily_rollup` always counts `usage_events` |
| `ServerFullInvariant` | `TeamServerProofs` | the whole inductive invariant `FullInv`, which `server_upload` checks |
| `ServerAcked` | `TeamServerProofs` | what a 200 response called accepted or duplicate is committed |
| `ServerConflicts` | `TeamServerProofs` | a `sync_conflicts` row names the content that stands |
| `ServerRevocation` | `TeamServerProofs` | a request that arrived after a revocation records nothing for the user |
| `MembershipTypes` | `TeamMembershipProofs` | types of the admin routes |
| `MembershipAuthorized` | `TeamMembershipProofs` | whoever passes `requireAdmin` was an active admin since the request arrived |
| `MembershipOneElection` | `TeamMembershipProofs` | elections of first members are serial |
| `MembershipFirstElected` | `TeamMembershipProofs` | a new member leaves the team with an admin, unless a demotion comes between count and commit |
| `MembershipDemotion` | `TeamMembershipProofs` | so does a demotion, unless another one comes between |
| `MembershipPromotion` | `TeamMembershipProofs` | `addMember` promotes nobody who is there |
| `ClientTypes` | `SyncClientProofs` | types of outbox, queues and requests |
| `ClientCursorMonotone` | `SyncClientProofs` | a cursor never goes back, whatever instances drain |
| `ClientCadence` | `SyncClientProofs` | scheduled uploads of one instance are an interval apart unless another overtook |
| `ClientSentReached` | `SyncClientProofs` | with one writer and one target, a row marked sent was processed by the server |
| `ClientCursorSkipsNothing` | `SyncClientProofs` | and the cursor passes no row the server has not processed |
| `GoUploadsSound` | `GoProgramsProofs` | what the Go server called stored is committed, once, under the lock of its node |
| `DaemonsSound` | `GoProgramsProofs` | one daemon holds the lock, and the pid file and socket it relies on are its own |
| `ProvidersAreSound` | `GoProgramsProofs` | a failure stored last leaves the figures of the last success; a budget warning is given at each crossing and at no other time, but for a provider still held as warned from before a time without a limit |
| `BootsSound` | `GoProgramsProofs` | migrations are committed in order and once, and a server serves over all of them |
| `SessionsAreSound` | `GoProgramsProofs` | a session holds one account's tokens, a logout is final, and a refresh token is still accepted unless the answer to a rotation was lost or dropped |
| `AlertsAreSound` | `DesktopDataProofs` | a condition has one live alert and one notification, a subscription calms the cost alerts, the tray was told |
| `ResolvedAlertsStay` | `DesktopDataProofs` | a resolved alert never becomes live again |
| `IngestIsSound` | `DesktopDataProofs` | every call a refresh passed is stored or was given up by a failure; a line is one row, and so is a Claude message that no refresh cut in two |
| `PricesAreSound` | `DesktopDataProofs` | a price comes from related entries only, an answer is free only if one of them says so |
| `UsageIsSound` | `DesktopFiguresProofs` | the table holds as many events and as much cost as Cursor's last stored answer |
| `FiguresAreSound` | `DesktopFiguresProofs` | the figures of an undisturbed snapshot add up; a forecast is no lower than what was spent |
| `TeamFiguresAreSound` | `DesktopFiguresProofs` | an event is counted once but for daily rows; an overview's figures agree or grow in order; an active member has an active machine, perhaps another's; today is the UTC day; the forecast covers the account's month |
| `SettingsAreSound` | `DesktopServicesProofs` | queue and timers run with the settings in force, the user's last value survives, window and file hold it unless a write failed, the first of a start included |
| `ViewsAreSound` | `DesktopServicesProofs` | a view at rest shows the present data of what is selected, unless the change was not broadcast, or for another reason the code leaves |
| `PlansAreSound` | `DesktopServicesProofs` | a paying account is shown as a subscription, whichever request tells it |
| `AuthIsSound` | `DesktopServicesProofs` | who is shown as signed in is who is on the disk and in the session, and a sign-out is final |

Assumptions. Each module states one, and TLC evaluates it in every run of it:
finitely many ids or users, sentinels outside the sets they extend, well-formed
requests. `LedgerAssumption`, which `EventLedger` needs of its constants, is proved of
the server's (`LedgerAssumptionHolds`). Beyond that kind are: each key once in a
price list, which is an object of JSON (`PricingAssumption`); events tables that are
finite, and days of two units or more (`AggregationAssumption`), because a change of
the clocks may shorten a day by one and a day of no length has no midnight of its own;
and at least one refresh token (`AuthAssumption`). `ClientSentReached` and
`ClientCursorSkipsNothing` also assume `Alone`: one writer, and one target. The first
is needed, as `client_two_writers` shows; the second because `sent_at` is one flag
for all targets (section 6).

The argument. That the rollup matches the events is not inductive: it is kept by
increments computed inside transactions, so one has to know what an uncommitted
transaction holds. `IInv` says it: (`NodesExclusive`) a node row is touched by
one open transaction at a time, because of its lock; (`WritesLocked`,
`EventLocked`) an event is read and written only under the lock of its node;
hence (`WritesFresh`, `InsertFresh`) what a transaction has not committed is new
to everybody, and stays so until it commits; (`DeltaCounts`) its delta counts
exactly those events; and (`NothingPending`) a request outside a transaction
holds nothing. `TypeInv` is proved first. Then each step
is shown to preserve each part it can disturb, and to be an `Accept` step or a
stutter of the ledger: only `Commit` changes the tables, and by `WritesFresh` it
adds events without touching old ones and moves each counter by the number added.
`ServerRollupMatches` is then `LedgerRollup` through the refinement.

`FullInv` adds what the other three need. `AnswerInv` follows a verdict to the row
it speaks of: what a request has judged accepted or duplicate it can see
(`ReportsStored`), a pending conflict row names what it saw (`ConflictsFound`),
and what a request has once seen nobody can change, because committed rows are
never overwritten and uncommitted ones are its own. `MemberInv` follows a cached
"active" back to `team_members`: it was true at some moment since the request
arrived (`CacheWasActive`), the payload at hand is of the team it was looked up
for (`Screened`), and no payload gets past the lookup without it (`Admitted`).
Every invariant a passing server run checks is therefore also proved.

The admin routes. What a request does late rests on what it read early, so `IInv`
of `TeamMembershipProofs` says what is left of each reading: an active admin is
noticed while the request is under way (`Noticed`), an election stands under the
lock of the team (`ElectionLocked`) and is right until somebody is demoted
(`Elected`), a member's row stands still while it is locked (`RowHeld`), and
another admin is there until another demotion (`OtherAdmin`). A handful of lemmas
say once for all actions what a step does to others (`OthersWait`, `RowsStay`,
`LocksStay`, `AdminsStay`, `Watch`, `Moves`), so each part has a short proof.
`MembershipDemotion` and the counterexample of `team_last_admin` together say that
the race of two demotions is the only way to lose the last admin row.

The sync queue. What a drain posted, what was answered and what it is about to mark
must agree although requests outlive the drain and the app; `Upload` of
`SyncClientProofs` says for each stage of a drain which rows have reached the server:
those under the cursor, those marked, those of the batch once it was applied. That
no row can come in under a batch afterwards is where one writer is needed: its
uncommitted rows are the only ones, and all are above what is visible. `GateKept`
relates the age a drain read to the age that stands, for the cadence.

The Go programs. `GoInv` follows an upload's verdicts to the rows (`Kept`) while the
payload at hand (`AtPayload`) is written only under the lock of its node, by which
writers of one event are ordered. `DaemonInv` has who holds the lock
(`HolderLocked`) and which files stand (`PidStands`, `SocketStands`), `swept` being
the clean-up of a daemon that has already given up the lock. `ProviderInv` separates
refreshes that overlapped from those that did not (`Apart`), and says of the latter
that a failure keeps the figures (`FailureKeeps`, `Figures`) and that who is warned
of is who is over the limit, if there is one (`NotYetWarned`). `BootInv` counts the
migrations (`InOrder`, `Counted`) and says what a server past each stage has
(`ServerSound`). `SessInv` follows each call from the session it copied (`Held`) to
what it installs (`Fit`), one call at a time where it has to be (`OneCall`).

The desktop's data. `AlertInv`: what a tick raised is in the table and nobody else's
(`FreshKnown`), a tick that has not begun to write has nothing to tell (`NothingYet`),
and who owes the tray a repaint is still under way or failed (`Owed`); `RowsKept`
says of each step what it may not do to a row. `IngestInv`: the offset in the cache
runs ahead neither of the log nor of a refresh (`InStep`), what a refresh is going to
record as read is in its hands (`BatchCovers`), and what is recorded is stored, given
up or about to be stored (`CacheCovers`); `RowsTell` ties a row to its line. `PriceInv`
is small: the price list in use is one, and the bill is the price it gives. The work is
in `Price`, which is shown to depend on the related entries alone: a list and its
related part (`Part`) find the same entry in each of the searches.

Sums. The count and the cost of what Cursor reported, and the figures of a snapshot,
are folds. `FoldFunction` is a `CHOOSE` of a recursive function; that there is one
and that it unfolds is shown with a least counterexample in the size of the subset,
through the library's theorem that strict inclusion of finite sets is well-founded,
because induction theorems with an operator parameter are out of the provers'
reach. From there `SumTakes` (any element may be taken first), `SumOfSame`,
`SumRenamed` (a bijection of the indices keeps a sum) and `SumOfFibres` (grouping
keeps it) are ordinary lemmas. `UsageInv`: a refresh that is about to store has as
many events, as dear, as it reports, with ids of their own and none in the future
(`Reading`). `FiguresInv`: an answer already given is what its query would answer now,
unless an event came (`Fresh`), and a forecast is that of the day asked (`Projected`).

The team's overview. `TeamInv`: a node whose rows are not tangled has one row for
each event it uploaded (`CountedOnce`, which is inductive); an answer stays what its
query would answer now until an upload (`Undisturbed`), and while no daily row is
overwritten what was counted is still there (`Growing`); a row is no newer than the
last upload of its node (`Noted`), so that whoever counted as active has a machine
that was seen (`ActiveSeen`). That the members, the models and the projects each add
up is `SumOfFibres`; the rest is arithmetic of days, that a date is not before
another just when the moment is not before its midnight (`FloorAtLeast`, `DayLens`).

The desktop's services. `SettingsInv`: of the calls on their way the last that names
a field carries the user's value, and a field no call names has it already
(`LastWins`); what the window was told last is in force (`ToldLast`). `ViewInv`: the
present data is shown, or a request, a broadcast or a timer is going to bring it
(`Covered`), nobody has read a version that is not there (`Versions`), and a view
that cancels has one request (`OneRequest`). `PlansInv`: a plan saved undisturbed is
there and young enough (`SteadyMeans`), and Cursor's second answer has told the tier
of whoever pays (`KnownTier`). `AuthInv` says for each kind of call what it relies
on at each of its awaits as long as it is alone (`Alone`, `RestoreKnows`,
`SignInKnows`, `TokenKnows`), and what holds between calls (`DiskAgrees`,
`SignedInMeans`, `LeftMeans`).

The proofs make visible what the code's safety hangs on: the node upsert comes
before the event's SELECT, in the same transaction, and the node is part of the
event's id. Neither is stated in the code. For a view of the
renderer to stay out of date it takes one answer that replaced a newer one, however
many later ones are shown over it without bringing the present data (`overtaken`);
that needs three requests to be seen.

Every safety invariant and every action property of a passing run is also proved.
Only model-checked is liveness, which is out of the prover's reach, as is `ENABLED`:
`Answered`, `EventuallyUploaded`, `ManagementAnswered`, `SignInSettles`, `GoEnds` and
`AlertsSettle`, of which `ResolvedAlertsStay` proves the part that is safety.
`EventuallyUploaded` assumes that no batch is refused for ever.

## 6. Disagreements with the documentation

Each of these is a run that TLC ends with a counterexample; `findings` in
`PROJECT.json` quotes the line it contradicts.

- **Two provider refreshes lose events** (`client_two_writers`). `seq` is drawn at
  INSERT; a row that commits after the cursor has passed its `seq` is marked sent
  without having been sent. The refresh of the timer and the one a window asks for
  overlap, each at another provider.
- **The upload route can hang for ever** (`server_pool_exhausted`): each request
  holds a connection and asks the pool for another.
- **A team can lose its last admin** (`team_last_admin`): two demotions at once
  each count the other's admin.

Met while modelling, without a run of their own. The models contain the behaviour;
a property says it where it can, with the exception named in its comment.

*Uploads.*

- aggregateOnly uploads of one day overwrite each other: each sums only its own
  batch and the server keeps the last, against the comment of
  `server-migrations/0003_event_daily_rollup.sql`.
- An event whose answer was lost and that is sent again after a change of the privacy
  level stands in a daily row and in a row of its own, and is counted twice.
- The privacy floor of a team is stored and shown, and no upload is refused or
  redacted by it (`team-service.ts`, `batchUpsert`).
- "sync now" keeps the queue of start-up (`index.ts:310`, `322`; comment at 307).
- `sent_at` is one flag for all targets although cursors are kept per team and
  user, so a user who changes teams never sends the earlier rows to the second.
- A queue replaced while draining does not know of the drain in flight, so two
  uploads can succeed within one interval; `CadenceKept` excuses it.
- A batch refused with a 4xx is retried for ever and blocks the rows behind it
  (`sync-queue.ts:229`).
- The device cap can be passed by two first uploads at the same time
  (`team-service.ts:342`, `352`), and a node row keeps its first owner
  (`team-service.ts:354-358`), so a second user of a machine is never counted in later
  batches: he is an active member whose machine is another's, and his own overview lists
  none (`OverviewTab.tsx:295`). `OverviewGrows` says so.
- An event that is sent again after the settings name another account (its answer was
  lost) is another event to the server, whose ids contain the account, and is counted for
  both; `CountedOnce` excuses the node.
- A TypeScript server that is told to stop waits in `pool.end()` (`server/index.ts:65`)
  for the uploads that hang, and then never exits. `Exits` claims it of a server without
  a request only.

*Administration.*

- `revokeMember` revokes the last active admin without a question, and
  `setMemberRole` counts revoked admins as remaining ones.
- `addMember` answers the role it elected while `ON CONFLICT` keeps the stored
  one: a revoked admin re-added as `member` is an admin again, and the answer
  says `member`.

*Logs, usage and prices.*

- A Claude message can be counted twice. The id of an event holds the timestamp of its
  chunk (`claude-code.ts:179-184`), and a refresh resumes where the last one ended (112):
  chunks on both sides of a refresh are two rows, against the comment at 128-130.
  `OneRowPerReading` of `IngestSound` says that a message is one row unless a refresh
  read the log between its chunks.
- The file cache is advanced before the events are stored: a failure in between
  loses them (`claude-code.ts:217`); `IngestSound` excuses these lines only.
- `cursor.ts:152`: a reading that resumes has forgotten turn and model, so a line
  read twice may be two events.
- Cursor's made-up events carry the day of their timestamp in their id, and the
  timestamps are spread over the cycle up to now: with two refreshes on two days, a
  request in each, events move to another day, get another id and are stored beside
  the old ones (`cursor/usage.ts:369`; the ids of old accounts hold the timestamp
  itself, 287). The comments at `usage.ts:345-346` and `cursor/index.ts:73-74` say
  that refreshes overwrite their rows; the test keeps the time fixed. `CursorSound`
  speaks of the rows of the last refresh.
- A listed model without an output price is free (`pricing-table.ts:179`, `207`)
  against "never silently emits $0".
- In the first hour of a UTC day the account's "Today" has all of yesterday in it: the
  route raises the window to an hour (`http.ts:131`), which begins the day before, and
  `sinceDate` counts that day whole; the comment at `OverviewTab.tsx:251-255` means to
  avoid that. `TodayIsToday` says it with the hour.
- The account's forecast takes the cost of the server's UTC month and the days of the
  local one (`team-service.ts:765`, `OverviewTab.tsx:195-202`): in the hours between the
  two it is of another month. `ForecastCovers` excuses the server's being ahead.
- Forecasts count UTC days where the comments speak of days (`aggregator.ts:369`),
  and one day less after the clocks were put forward.
- Root commits have an empty `%P` and are dropped by the yield scanner
  (`git-scanner.ts:109`).

*Plans.* `shared/plan-info.ts:3-5` calls a subscription paid.

- Every signed-in account of Claude Code or Codex is answered as a subscription, a
  Free one too (`anthropic/plan.ts:107`), and so is a free membership of Cursor; the
  sampler then lowers the alerts on costs to warnings (`sampler.ts:71`).
- Google's cached plan is not compared with the account (`google/plan.ts:234`): after
  a change of account and a failing call the other account's paid plan is shown.
- A reader between the truncation and the write of the cache finds none and
  answers the bare identity; `PlansSound` excuses an overlapping save.
- A member of a Cursor team without a membership of his own is not a subscriber;
  a failing request of Cursor turns a subscription into `oauth`, having no cache.

*Alerts, settings, account, windows.*

- `store.ts:46-48` says that listeners are told after the settings are flushed;
  `persist` swallows its error, so they are told of settings that are in memory only, and
  a restart loses them (`unsaved` in `Settings`). The first write of a start fails as
  silently (`store.ts:119-126`).
- A settings file that cannot be read or parsed is replaced by the defaults.
- `index.ts:406-422` broadcasts a refresh only after `events.count()` and the tray's title
  succeeded, and a tick that fails after it raised an alert tells nobody
  (`sampler.ts:145`, `204`): the windows stay stale until the next announced change.
- Alerts that are enabled later need a restart (`sampler.ts:79`), and a tick that
  fails leaves what it raised without a notification.
- The form sends the whole `teamSync` block from its own copy, so an edit made
  before the broadcast of the last one takes that one back (`SettingsTab.tsx:121`).
- `signOut` during a restore or a refresh can leave the other session in place
  (`auth-service.ts:188`, `226`).
- `OverviewTab.tsx:285` cancels and resends its request at each rendering, that is
  every second, against the comment at 245; a slow answer is never shown.
- An admin action that `callManage` gives up after eight seconds may be done;
  `TeamTab.tsx:82` shows an error and the old list.
- `TeamTab` loads once and acts on the team of the settings; the dashboard in a
  browser is told of no change and falls back to sample data (`browser-stub.ts:227`,
  `274`).

*Go programs.*

- A budget crossing can go unannounced: without a limit `OnSnapshot` leaves `notified` as
  it is (`budget_notifier.go:35`), so that a provider that was over its limit when the limit
  went away is not warned of at its next crossing, against "fires once per (provider ×
  threshold-crossing)" (line 8). `WarnsOncePerCrossing` names the case.
- The fallback of the LiteLLM provider is never tried (`litellm.go:107`);
  `OnSessionExpired` and `EnsureValidToken` are wired nowhere; a refresh that ends
  after a logout is excused by `SessionsSound`.
- A provider that rotates refresh tokens retires the old one with its answer: when that
  is lost (`sessions.go:151-154`) or its id token does not verify (159), the session keeps
  a token that is no longer accepted, until the next login. A login that brought no
  refresh token (`pkce.go:159`) cannot be renewed at all (`sessions.go:143`).
- Without a key set the Go server answers 500 where the TypeScript one answers 401;
  its `revoke` and `setRole` routes answer 200 and do nothing.
- Migrations 2 and 3 lack `ON CONFLICT` in their last statement: of two servers that
  start together one fails, as `BootSound` allows.
- A daemon cleans up after it has given up the lock (`run.go:38`), so it can remove
  the files of the next one; `DaemonSound` excuses a daemon that was swept.
- A listener that unsubscribes leaves a nil slot (`store.go:110`) that `Set` calls; nothing
  unsubscribes.

## 7. Not modelled

A token file that cannot be unlinked at a sign-out (`keychain-store.ts:60-66` swallows
the error, and the next start would restore the session); the signature check of tokens
(an external library), timestamps, token counts and
sums of cost in the upload path, status reporting
to the renderer, and the response's `cursor`, which the client ignores. The
in-memory `lastSyncAt` of a queue is read only for a target that never synced and
is left out. `Fail` does not tell statement errors from lost connections: both roll
back. Of the aggregator, the longer windows and the lists of models, projects and
sessions are made like the ones modelled; the yield score over git is a batch
computation on the output of `git log`. `statusline-export.ts` writes a file the way
the settings do. Where each vendor keeps its files and tokens is configuration.
Layout, charts and formatting of the renderer have no state. The Go configuration,
CLI, plugin host, telemetry, updater and SDK wrap files, HTTP calls and flags.
Scripts, deployment and the archived Swift application have no behaviour of this
kind.

## 8. Plan

What remains worth doing, in this order:

1. `Ingest` composed with the outbox of `SyncClient`: a line of a log reaches the
   server once. Today they meet in `upsertMany`, which both model. `IngestIsSound` and
   `ClientCursorSkipsNothing` are the two halves; what joins them is that the events
   an `upsertMany` committed are the rows of the outbox.
2. The abstract counterparts of `AuthSession` and `GoSessions`: one specification of
   a session that both implement.
3. The yield score over a repository's history, against a reference definition.
4. Larger instances of `go_programs` and `desktop_services`, a part at a time.

## 9. Running the checks

    cd tla
    tlc -workers 2 -config server_upload.cfg MCTeamServer.tla
    tlapm TeamServerProofs.tla

Each run of the table has a `.cfg` of its name. The desktop runs take two to three
minutes each, the other passing runs half a minute to a minute and a half, the
violations seconds. The proof modules take between seconds and a few minutes each.
