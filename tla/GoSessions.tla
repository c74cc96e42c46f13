----------------------------- MODULE GoSessions -----------------------------
(***************************************************************************)
(* The Go daemon's OIDC session: go-desktop/internal/auth.  SessionManager  *)
(* keeps the session under a mutex that no call holds over the network or   *)
(* the keyring, so Login, Logout and the refreshes a 401 triggers in the    *)
(* provider goroutines interleave between those steps.                      *)
(*                                                                         *)
(* A grant is <<account, serial>>: the access token and the refresh token   *)
(* issued with it.  The cached key set has the provider's current key or    *)
(* not.  The id token kept in the keyring is never read and left out.       *)
(***************************************************************************)
EXTENDS Naturals, FiniteSets

CONSTANTS Person, NoPerson,
          Refresher,        \* goroutines that meet a 401
          MaxGrant          \* bound: grants issued

ASSUME GoSessionAssumption == /\ NoPerson \notin Person
                              /\ MaxGrant \in Nat

VARIABLES current,   \* SessionManager.current
          keyring,   \* the keyring's :access and :refresh entries
          sessCall,  \* calls in flight: pc, their copy of the session
          live,      \* refresh tokens the identity provider still takes
          granted,   \* grants issued
          jwks,      \* the key set cached in memory and on disk is current
          crossed,   \* history: two calls were in flight at once
          partial,   \* history: a keyring write failed, or a crash cut a call
          lost,      \* history: of this login, the answer to a rotation was lost or dropped
          loggedOut  \* history: logged out, not in again since

sessVars == <<current, keyring, sessCall, live, granted, jwks, crossed,
              partial, lost, loggedOut>>

NoGrant  == <<NoPerson, 0>>
NoSess   == [user |-> NoPerson, access |-> NoGrant, refresh |-> NoGrant]
SessProc == {"login", "logout"} \cup Refresher
Resting  == [pc |-> "idle", sess |-> NoSess]
PcOf(p)  == sessCall[p].pc
Quiet    == \A p \in SessProc : PcOf(p) = "idle"
Set(p, f) == sessCall' = [sessCall EXCEPT ![p] = f]
Step(p, pc) == sessCall' = [sessCall EXCEPT ![p].pc = pc]
Begin(p, f) == PcOf(p) = "idle" /\ Set(p, f) /\ crossed' = (crossed \/ ~Quiet)

\* KeyringStore.Load: without an access token there is no session; who it
\* belongs to is not stored.
Loaded == IF keyring.access = NoGrant THEN NoSess
          ELSE [NoSess EXCEPT !.access = keyring.access, !.refresh = keyring.refresh]

SessInit ==
  /\ current = NoSess /\ keyring = [access |-> NoGrant, refresh |-> NoGrant]
  /\ sessCall = [p \in SessProc |-> Resting]
  /\ live = {} /\ granted = 0 /\ jwks = FALSE
  /\ crossed = FALSE /\ partial = FALSE /\ lost = FALSE /\ loggedOut = FALSE

-----------------------------------------------------------------------------
LoginStart ==
  /\ Begin("login", [Resting EXCEPT !.pc = "browser"])
  /\ UNCHANGED <<current, keyring, live, granted, jwks, partial, lost, loggedOut>>

\* The redirect brings an error, the exchange or the verification fails.
LoginFails ==
  /\ PcOf("login") = "browser" /\ Set("login", Resting)
  /\ UNCHANGED <<current, keyring, live, granted, jwks, crossed, partial, lost, loggedOut>>

\* A provider that is not asked for offline access may give no refresh token.
NewGrant(u, g, offline) == [user |-> u, access |-> g, refresh |-> IF offline THEN g ELSE NoGrant]
LoginDone ==
  /\ PcOf("login") = "browser" /\ granted < MaxGrant
  /\ \E u \in Person, offline \in BOOLEAN :
       LET g == <<u, granted + 1>>
           s == NewGrant(u, g, offline)
       IN /\ current' = s /\ live' = live \cup ({s.refresh} \ {NoGrant})
          /\ Set("login", [pc |-> "access", sess |-> s])
  /\ granted' = granted + 1 /\ lost' = FALSE /\ loggedOut' = FALSE
  /\ UNCHANGED <<keyring, jwks, crossed, partial>>

\* KeyringStore.Save writes entry by entry and goes on after an error.
Written(entry, value) == [keyring EXCEPT ![entry] = value]
WriteEntry(p, entry, value) ==
  \/ keyring' = Written(entry, value) /\ UNCHANGED partial
  \/ UNCHANGED keyring /\ partial' = TRUE

SaveAccess(p) ==
  /\ PcOf(p) = "access"
  /\ WriteEntry(p, "access", sessCall[p].sess.access) /\ Step(p, "refresh")
  /\ UNCHANGED <<current, live, granted, jwks, crossed, lost, loggedOut>>

SaveRefresh(p) ==
  /\ PcOf(p) = "refresh"
  /\ WriteEntry(p, "refresh", sessCall[p].sess.refresh) /\ Set(p, Resting)
  /\ UNCHANGED <<current, live, granted, jwks, crossed, lost, loggedOut>>

\* Logout answers loggedOut once Clear has tried every entry: saving no session
\* does the same to the keyring as deleting its entries.
ToClear    == [Resting EXCEPT !.pc = "access"]
Logout ==
  /\ Begin("logout", ToClear)
  /\ current' = NoSess /\ loggedOut' = TRUE
  /\ UNCHANGED <<keyring, live, granted, jwks, partial, lost>>

-----------------------------------------------------------------------------
(* ForceRefresh, called by DoGet on a 401                                    *)

RefreshStart(p) ==
  /\ current.refresh # NoGrant
  /\ Begin(p, [pc |-> "grant", sess |-> current])
  /\ UNCHANGED <<current, keyring, live, granted, jwks, partial, lost, loggedOut>>

\* The session with a new access token; the provider may rotate the refresh
\* token, which retires the one used.
KeepOld(s, g, rotated) == [s EXCEPT !.access = g]
Renewed(s, g, rotated) == [s EXCEPT !.access = g, !.refresh = IF rotated THEN g ELSE @]

\* The grant a call asks for, and what the provider takes once it gave it.
Asked(p)          == <<sessCall[p].sess.refresh[1], granted + 1>>
Issues(p)         == sessCall[p].sess.refresh \in live /\ granted < MaxGrant /\ granted' = granted + 1
Taken(p, rotated) == IF rotated THEN (live \ {sessCall[p].sess.refresh}) \cup {Asked(p)} ELSE live

RefreshGrant(p) ==
  /\ PcOf(p) = "grant" /\ Issues(p)
  /\ \E rotated, signed \in BOOLEAN :
       /\ live' = Taken(p, rotated)
       /\ Set(p, [pc   |-> IF signed THEN "verify" ELSE "install",
                  sess |-> Renewed(sessCall[p].sess, Asked(p), rotated)])
  /\ UNCHANGED <<current, keyring, jwks, crossed, partial, lost, loggedOut>>

\* Refused, or no answer: the session stays as it is.  Without an answer the provider
\* may still have rotated the token.
RefreshFails(p) ==
  /\ PcOf(p) = "grant" /\ Set(p, Resting)
  /\ \/ UNCHANGED <<live, granted, lost>>
     \/ Issues(p) /\ live' = Taken(p, TRUE) /\ lost' = TRUE
  /\ UNCHANGED <<current, keyring, jwks, crossed, partial, loggedOut>>

\* JWKSCache.Verify: the cached set, or a fetched one once the hour is over; on
\* a miss the set is fetched again.  A fetch that fails leaves the cached set,
\* which may still know the key.
RefreshVerify(p) ==
  /\ PcOf(p) = "verify"
  /\ \E fetched, known \in BOOLEAN :
       /\ jwks' = (jwks \/ fetched)
       /\ IF jwks' \/ known
          THEN Step(p, "install") /\ UNCHANGED lost
          ELSE Set(p, Resting) /\ lost' = (lost \/ current.refresh \notin live)   \* the grant is dropped
  /\ UNCHANGED <<current, keyring, live, granted, crossed, partial, loggedOut>>

\* What is installed is the copy read at the start.
RefreshInstall(p) ==
  /\ PcOf(p) = "install"
  /\ current' = sessCall[p].sess /\ Step(p, "access")
  /\ UNCHANGED <<keyring, live, granted, jwks, crossed, partial, lost, loggedOut>>

-----------------------------------------------------------------------------
RotateKey ==
  /\ jwks /\ jwks' = FALSE
  /\ UNCHANGED <<current, keyring, sessCall, live, granted, crossed, partial, lost, loggedOut>>

\* The daemon stops or dies and is started again; the key set is read from disk.
DaemonRestart ==
  /\ current' = Loaded /\ sessCall' = [p \in SessProc |-> Resting]
  /\ partial' = (partial \/ \E p \in SessProc : PcOf(p) \notin {"idle", "browser"})
  /\ UNCHANGED <<keyring, live, granted, jwks, crossed, lost, loggedOut>>

SessNext ==
  \/ LoginStart \/ LoginFails \/ LoginDone \/ Logout \/ RotateKey \/ DaemonRestart
  \/ \E p \in SessProc : SaveAccess(p) \/ SaveRefresh(p)
  \/ \E p \in Refresher : \/ RefreshStart(p) \/ RefreshGrant(p) \/ RefreshFails(p)
                          \/ RefreshVerify(p) \/ RefreshInstall(p)

SessSpec == SessInit /\ [][SessNext]_sessVars

-----------------------------------------------------------------------------
(* A session that names a user holds that user's tokens only, whatever calls  *)
(* overlap: Login and ForceRefresh install whole copies.  (A                  *)
(* session loaded from the keyring names nobody.)                             *)
SessionOfOneAccount ==
  current.user # NoPerson =>
    /\ current.access[1] = current.user
    /\ current.refresh # NoGrant => current.refresh[1] = current.user

(* Between calls the keyring holds the tokens of the session in memory, so a  *)
(* restart changes nothing; only overlapping calls or a failed keyring write  *)
(* may leave the two apart.                                                   *)
KeyringMatches ==
  Quiet /\ ~crossed /\ ~partial =>
    keyring = [access |-> current.access, refresh |-> current.refresh]

(* The refresh token kept in memory, if the login brought one, is one the     *)
(* provider still accepts, also when it rotates them at every refresh; unless *)
(* a rotation's answer was lost, or dropped since its id token did not verify.*)
RefreshTokenLive ==
  Quiet /\ ~crossed /\ ~partial /\ ~lost /\ current.refresh # NoGrant => current.refresh \in live

(* A logout that nothing overlapped is final: neither a restart nor a refresh *)
(* brings the session back.                                                   *)
LogoutFinal == Quiet /\ loggedOut /\ ~crossed /\ ~partial => current = NoSess

(* What the daemon keeps of a session, in memory and in the keyring.          *)
SessionsSound == SessionOfOneAccount /\ KeyringMatches /\ RefreshTokenLive /\ LogoutFinal
=============================================================================
