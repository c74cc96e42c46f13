----------------------------- MODULE ServerBoot -----------------------------
(***************************************************************************)
(* Start, stop and bearer tokens of the team servers.  The TypeScript one   *)
(* (server/index.ts, db.ts, auth.ts) and the Go one (cmd/server, db, auth)  *)
(* run the same steps; several may start on one database at once.           *)
(*                                                                         *)
(* A migration is its number.  A token is the key it is signed with (0: none *)
(* of the issuer's) and whether audience, issuer and times are right.       *)
(***************************************************************************)
EXTENDS Naturals, FiniteSets

CONSTANTS TsServer, GoServerProc,   \* processes
          Latest,                   \* migrations in server-migrations
          MaxIssuerKey              \* bound on the signing keys published

ASSUME BootAssumption == Latest \in Nat \ {0} /\ MaxIssuerKey \in Nat \ {0}

VARIABLES versions,  \* rows of schema_version
          proc,      \* per process: pc, the version it read, config, keys, work
          issuerKey, \* the key the issuer signs with
          runs       \* history: commits of each migration (those of 0001 as one)

bootVars == <<versions, proc, issuerKey, runs>>

NoWork  == [key |-> 0, claims |-> FALSE, user |-> FALSE]
Proc    == TsServer \cup GoServerProc
Down    == [pc |-> "off", current |-> 0, mode |-> "jwks", audience |-> FALSE,
            keys |-> 0, work |-> NoWork]
PcOfServer(s)   == proc[s].pc
On(s, f) == proc' = [proc EXCEPT ![s] = f]
To(s, pc) == proc' = [proc EXCEPT ![s].pc = pc]
Newest  == IF versions = {} THEN 0 ELSE CHOOSE v \in versions : \A w \in versions : w <= v
Tokens  == [key : 0 .. MaxIssuerKey, claims : BOOLEAN, user : {TRUE}]
Busy(s) == proc[s].work.user

BootInit ==
  /\ versions = {} /\ proc = [s \in Proc |-> Down] /\ issuerKey = 1
  /\ runs = [v \in 1 .. Latest |-> 0]

-----------------------------------------------------------------------------
\* configFromEnv / FromEnv: jwks unless the environment says otherwise.
Launch(s) ==
  /\ PcOfServer(s) = "off"
  /\ \E mode \in {"jwks", "insecure-noverify"}, audience \in BOOLEAN :
       On(s, [Down EXCEPT !.pc = "read", !.mode = mode, !.audience = audience])
  /\ UNCHANGED <<versions, issuerKey, runs>>

\* The maximum of schema_version is read once, before the files are listed.
ReadVersion(s) ==
  /\ PcOfServer(s) = "read" /\ On(s, [proc[s] EXCEPT !.pc = "migrate", !.current = Newest])
  /\ UNCHANGED <<versions, issuerKey, runs>>

\* One file, one transaction.  Its INSERT into schema_version fails if another
\* process was faster, and the process exits; 0001 ignores the conflict.
Anyway(v) == TRUE
NewRow(v) == v \notin versions \/ v = 1
Migrate(s) ==
  LET v == proc[s].current + 1
  IN /\ PcOfServer(s) = "migrate" /\ v <= Latest
     /\ IF NewRow(v)
        THEN /\ versions' = versions \cup {v}
             /\ runs' = [runs EXCEPT ![v] = IF v = 1 THEN 1 ELSE @ + 1]
             /\ On(s, [proc[s] EXCEPT !.current = v])
        ELSE On(s, Down) /\ UNCHANGED <<versions, runs>>
  /\ UNCHANGED <<issuerKey>>

\* createAuthorizer / New: jwks without an audience stops the start.
Configured(c) == c.mode = "insecure-noverify" \/ c.audience
UpToDate(s)   == proc[s].current >= Latest
Listen(s) ==
  /\ PcOfServer(s) = "migrate" /\ UpToDate(s)
  /\ \E warm \in {0, issuerKey} :
       On(s, IF Configured(proc[s]) THEN [proc[s] EXCEPT !.pc = "serve", !.keys = warm]
             ELSE Down)
  /\ UNCHANGED <<versions, issuerKey, runs>>

-----------------------------------------------------------------------------
\* What a token is answered: jose fetches the keys when it meets an unknown one,
\* jwx has those of its last refresh.  Without keys TypeScript answers 401, Go 500.
Known(s, fetched) == IF s \in TsServer /\ fetched THEN issuerKey ELSE proc[s].keys
Signed(k, t)   == t.key = k
Verdict(s, t, fetched) ==
  IF proc[s].mode = "insecure-noverify" THEN "user"
  ELSE LET k == Known(s, fetched)
       IN CASE k = 0 -> IF s \in GoServerProc THEN "500" ELSE "401"
            [] k # 0 /\ t.claims /\ Signed(k, t) -> "user"
            [] OTHER -> "401"

Authorize(s) ==
  /\ PcOfServer(s) = "serve" /\ ~Busy(s)
  /\ \E t \in Tokens, fetched \in BOOLEAN :
       /\ t.key <= issuerKey
       /\ On(s, [proc[s] EXCEPT
                    !.keys = Known(s, fetched),
                    !.work = IF Verdict(s, t, fetched) = "user" THEN t ELSE NoWork])
  /\ UNCHANGED <<versions, issuerKey, runs>>

RequestEnds(s) ==
  /\ Busy(s) /\ On(s, [proc[s] EXCEPT !.work = NoWork])
  /\ UNCHANGED <<versions, issuerKey, runs>>

RefreshKeys(s) ==
  /\ PcOfServer(s) = "serve" /\ s \in GoServerProc /\ proc[s].keys # issuerKey
  /\ On(s, [proc[s] EXCEPT !.keys = issuerKey])
  /\ UNCHANGED <<versions, issuerKey, runs>>

IssuerRotates ==
  /\ issuerKey < MaxIssuerKey /\ issuerKey' = issuerKey + 1
  /\ UNCHANGED <<versions, proc, runs>>

\* SIGTERM: no new requests; the pool closes when those in flight have given
\* their connections back.
Terminate(s) ==
  /\ PcOfServer(s) = "serve" /\ To(s, "drain") /\ UNCHANGED <<versions, issuerKey, runs>>

PoolIdle(s)  == ~Busy(s)
Exit(s) ==
  /\ PcOfServer(s) = "drain" /\ PoolIdle(s) /\ On(s, Down)
  /\ UNCHANGED <<versions, issuerKey, runs>>

\* The database is gone, a signal during the start, a crash.
Dies(s) ==
  /\ PcOfServer(s) # "off" /\ On(s, Down) /\ UNCHANGED <<versions, issuerKey, runs>>

BootStep(s) == ReadVersion(s) \/ Migrate(s) \/ Listen(s)

BootNext ==
  \/ \E s \in Proc : \/ Launch(s) \/ BootStep(s) \/ Authorize(s) \/ RequestEnds(s)
                     \/ RefreshKeys(s) \/ Terminate(s) \/ Exit(s) \/ Dies(s)
  \/ IssuerRotates

\* A start and an exit go on.  Requests of the Go server end (GoServer); those
\* of the TypeScript one may wait for a second connection for ever.
BootFairness ==
  /\ \A s \in Proc : WF_bootVars(BootStep(s)) /\ WF_bootVars(Exit(s))
  /\ \A s \in GoServerProc : WF_bootVars(RequestEnds(s))

BootSpec == BootInit /\ [][BootNext]_bootVars

-----------------------------------------------------------------------------
(* However many servers start at once or die half-way, the migrations are      *)
(* committed in order, and all but the first, which may be repeated, once.     *)
MigratedOnce ==
  /\ versions = 1 .. Cardinality(versions)
  /\ \A v \in 2 .. Latest : runs[v] = IF v \in versions THEN 1 ELSE 0

(* A server answers requests on a complete schema only, and never in jwks mode *)
(* without the audience to check.                                              *)
ServesConfigured ==
  \A s \in Proc : PcOfServer(s) \in {"serve", "drain"} =>
    versions = 1 .. Latest /\ (proc[s].mode = "jwks" => proc[s].audience)

(* In jwks mode a request is let in only with right claims under a key the     *)
(* issuer has published, whatever keys are cached.                             *)
AdmitsVerified ==
  \A s \in Proc : Busy(s) /\ proc[s].mode = "jwks" =>
    proc[s].work.claims /\ proc[s].work.key \in 1 .. issuerKey

(* A Go server that was told to stop lets its requests end and exits; a        *)
(* TypeScript server does unless a request that it is in never ends.           *)
Exits ==
  /\ \A s \in GoServerProc : (PcOfServer(s) = "drain") ~> (PcOfServer(s) = "off")
  /\ \A s \in TsServer :
       (PcOfServer(s) = "drain" /\ ~Busy(s)) ~> (PcOfServer(s) = "off")

(* A server serves what it was told to, on a schema migrated once.             *)
BootSound == MigratedOnce /\ ServesConfigured /\ AdmitsVerified
=============================================================================
