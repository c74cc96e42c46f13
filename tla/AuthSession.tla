----------------------------- MODULE AuthSession -----------------------------
(***************************************************************************)
(* Desktop sign-in: src/src/main/auth.  AuthService keeps the state shown   *)
(* to the renderer and the session the sync uploads use in memory, the      *)
(* refresh token in a file (KeychainStore) and the account in table         *)
(* auth_user (AuthRepository).  Its calls restoreSession, signIn, signOut   *)
(* and accessTokenForSync suspend at every await and interleave there.      *)
(*                                                                         *)
(* Abstracted: a refresh token is <<account, serial>>, an access token the  *)
(* account it speaks for and whether it has 60 s left; Google's answers are *)
(* a choice, its verification of the id_token is taken as given.  Not       *)
(* modelled: LCM_DEV_BEARER_OVERRIDE, a file that cannot be deleted.        *)
(***************************************************************************)
EXTENDS Naturals, FiniteSets

CONSTANTS Account, NoUser,
          OutCall, TokenCall,   \* the concurrent calls of signOut, accessTokenForSync
          MaxToken              \* bound: refresh tokens Google issues

ASSUME AuthAssumption ==
  /\ NoUser \notin Account /\ MaxToken \in Nat \ {0}
  /\ OutCall \cap TokenCall = {} /\ {"restore", "signIn"} \cap (OutCall \cup TokenCall) = {}

VARIABLES configured,   \* the OAuth client is loaded from ~/.env or bundled
          authState,    \* AuthService.state
          session,      \* AuthService.session
          keychain,     \* the refresh token on disk
          active,       \* accounts with is_active in auth_user
          authCall,     \* the calls in flight
          issued,       \* refresh tokens issued so far
          overlap,      \* history: two calls were in flight at once
          unwritten,    \* history: a sign-in left another token on disk
          left          \* history: signed out, and not in again since

authVars == <<configured, authState, session, keychain, active, authCall, issued,
              overlap, unwritten, left>>

NoToken   == <<NoUser, 0>>
Token     == Account \X (1 .. MaxToken)
Owner(t)  == t[1]
NoSession == [user |-> NoUser, refresh |-> NoToken, bearer |-> NoUser, fresh |-> FALSE]
AuthProc  == {"restore", "signIn"} \cup OutCall \cup TokenCall
Idle      == [pc |-> "idle", user |-> NoUser, token |-> NoToken]

\* loadAuthSecrets: any GCP_* key in ~/.env makes the file own both halves.
HasSecrets(envId, envSecret, bundledId) ==
  IF envId \/ envSecret THEN envId ELSE bundledId

AuthInit ==
  /\ \E id, sec, bundled \in BOOLEAN : configured = HasSecrets(id, sec, bundled)
  /\ authState = [kind |-> "signed-out", user |-> NoUser]
  /\ session = NoSession
  /\ \E u \in Account : keychain \in {NoToken, <<u, 1>>} /\ active \in {{}, {u}}
  /\ authCall = [p \in AuthProc |->
                   IF p = "restore" THEN [Idle EXCEPT !.pc = "read"] ELSE Idle]
  /\ issued = 1
  /\ overlap = FALSE /\ unwritten = FALSE /\ left = FALSE

At(p, pc)  == authCall[p].pc = pc
InFlight   == {p \in AuthProc : ~At(p, "idle")}
Go(p, pc)  == authCall' = [authCall EXCEPT ![p].pc = pc]
Done(p)    == authCall' = [authCall EXCEPT ![p] = Idle]
Start(p, r) ==
  /\ At(p, "idle")
  /\ authCall' = [authCall EXCEPT ![p] = r]
  /\ overlap' = (overlap \/ \E q \in InFlight : {p, q} \cap TokenCall # {p, q})
ShowIn(u)  == /\ authState' = [kind |-> "signed-in", user |-> u]
              /\ left' = FALSE
Mismatch   == Owner(keychain) \notin {NoUser, authCall["signIn"].user}
Show(k)    == authState' = [kind |-> k, user |-> NoUser]

\* A refresh token issued to u, or none.
Issue(u, t) == \/ t = NoToken /\ UNCHANGED issued
               \/ /\ issued < MaxToken /\ issued' = issued + 1
                  /\ t = <<u, issued + 1>>

\* refreshGoogleAccessToken succeeded for token t: an id_token or not, rotated
\* or not.  f is the user and g the refresh token kept when the answer has none.
Refreshed(t, f, g, user, rotated) ==
  /\ user \in {NoUser, Owner(t)}
  /\ Issue(Owner(t), rotated)
  /\ session' = [user    |-> IF user = NoUser THEN f ELSE user,
                 refresh |-> IF rotated = NoToken THEN g ELSE rotated,
                 bearer  |-> Owner(t), fresh |-> TRUE]

\* The session of a new sign-in; Google may issue no refresh token.
NewSession(u, t) == [user |-> u, refresh |-> t, bearer |-> u, fresh |-> TRUE]

\* upsertActive, one transaction.
UpsertBeside(u) == active' = active \cup {u}
UpsertActive(u) == active' = {u}

\* refresh-token.bin after deleteRefreshToken.
Deleted    == NoToken

-----------------------------------------------------------------------------
(* restoreSession, once per start                                           *)

RestoreRead ==
  /\ At("restore", "read")
  /\ IF ~configured \/ keychain = NoToken
     THEN Done("restore")
     ELSE \/ Done("restore")                       \* unreadable: taken for none
          \/ authCall' = [authCall EXCEPT !["restore"] =
                            [pc |-> "find", user |-> NoUser, token |-> keychain]]
  /\ UNCHANGED <<configured, authState, session, keychain, active, issued, overlap, unwritten, left>>

RestoreFind ==
  /\ At("restore", "find")
  /\ \/ /\ active = {} /\ Go("restore", "wipe")
     \/ \E u \in active :
          authCall' = [authCall EXCEPT !["restore"].pc = "refresh",
                                       !["restore"].user = u]
     \/ Done("restore")                            \* the query fails
  /\ UNCHANGED <<configured, authState, session, keychain, active, issued, overlap, unwritten, left>>

RestoreWipe ==                                     \* a token without an account
  /\ At("restore", "wipe")
  /\ keychain' = Deleted /\ Done("restore")
  /\ UNCHANGED <<configured, authState, session, active, issued, overlap, unwritten, left>>

RestoreRefresh ==
  /\ At("restore", "refresh")
  /\ LET c == authCall["restore"]
     IN \/ \E user \in Account \cup {NoUser}, rotated \in Token \cup {NoToken} :
             /\ Refreshed(c.token, c.user, c.token, user, rotated)
             /\ IF rotated = NoToken
                THEN ShowIn(session'.user) /\ Done("restore")
                ELSE /\ authCall' = [authCall EXCEPT !["restore"] =
                           [pc |-> "store", user |-> session'.user, token |-> rotated]]
                     /\ UNCHANGED <<authState, left>>
        \/ Go("restore", "unkey") /\ UNCHANGED <<authState, session, issued, left>>
  /\ UNCHANGED <<configured, keychain, active, overlap, unwritten>>

RestoreStore ==
  /\ At("restore", "store")
  /\ \/ /\ keychain' = authCall["restore"].token
        /\ ShowIn(authCall["restore"].user) /\ Done("restore")
     \/ Go("restore", "unkey") /\ UNCHANGED <<keychain, authState, left>>
  /\ UNCHANGED <<configured, session, active, issued, overlap, unwritten>>

RestoreUnkey ==
  /\ At("restore", "unkey")
  /\ keychain' = Deleted /\ Go("restore", "clear")
  /\ UNCHANGED <<configured, authState, session, active, issued, overlap, unwritten, left>>

RestoreClear ==
  /\ At("restore", "clear")
  /\ active' \in {{}, active} /\ Done("restore")
  /\ UNCHANGED <<configured, authState, session, keychain, issued, overlap, unwritten, left>>

-----------------------------------------------------------------------------
(* signIn: a call while one is in flight joins it                           *)

SignInRefused ==
  /\ ~configured /\ Show("error")
  /\ UNCHANGED <<configured, session, keychain, active, authCall, issued, overlap, unwritten, left>>

SignInStart ==
  /\ configured /\ Start("signIn", [Idle EXCEPT !.pc = "open"])
  /\ Show("signing-in")
  /\ UNCHANGED <<configured, session, keychain, active, issued, unwritten, left>>

\* The loopback server listens and the browser is opened; a redirect answered
\* before waitForCallback is lost.
SignInOpen ==
  /\ At("signIn", "open")
  /\ Go("signIn", "wait")
  /\ UNCHANGED <<configured, authState, session, keychain, active, issued, overlap, unwritten, left>>

SignInCallback ==
  /\ At("signIn", "wait") /\ Go("signIn", "exchange")
  /\ UNCHANGED <<configured, authState, session, keychain, active, issued, overlap, unwritten, left>>

\* No callback within five minutes.
NoTimeout == FALSE
SignInTimeout ==
  /\ At("signIn", "wait") /\ Show("error") /\ Done("signIn")
  /\ UNCHANGED <<configured, session, keychain, active, issued, overlap, unwritten, left>>

\* The port cannot be bound, the user declines, the code or the answer is
\* refused, the account cannot be stored: the state shows the error, and a
\* session set meanwhile stays.
SignInFails ==
  /\ authCall["signIn"].pc \in {"open", "exchange", "upsert"}
  /\ Show("error") /\ Done("signIn")
  /\ UNCHANGED <<configured, session, keychain, active, issued, overlap, unwritten, left>>

SignInExchange ==
  /\ At("signIn", "exchange")
  /\ \E u \in Account, t \in Token \cup {NoToken} :
       /\ Issue(u, t)
       /\ session' = NewSession(u, t)
       /\ authCall' = [authCall EXCEPT !["signIn"] = [pc |-> "upsert", user |-> u, token |-> t]]
  /\ UNCHANGED <<configured, authState, keychain, active, overlap, unwritten, left>>

SignInUpsert ==
  /\ At("signIn", "upsert")
  /\ LET c == authCall["signIn"]
     IN /\ UpsertActive(c.user)
        /\ IF c.token = NoToken
           THEN /\ ShowIn(c.user) /\ Done("signIn")
                /\ unwritten' = (unwritten \/ Mismatch)
           ELSE Go("signIn", "store") /\ UNCHANGED <<authState, unwritten, left>>
  /\ UNCHANGED <<configured, session, keychain, issued, overlap>>

SignInStore ==
  /\ At("signIn", "store")
  /\ LET c == authCall["signIn"]
     IN /\ ShowIn(c.user) /\ Done("signIn")
        /\ \/ keychain' = c.token /\ unwritten' = FALSE
           \/ /\ UNCHANGED keychain                \* not fatal
              /\ unwritten' = (unwritten \/ Mismatch)
  /\ UNCHANGED <<configured, session, active, issued, overlap>>

-----------------------------------------------------------------------------
(* signOut                                                                  *)

SignOutStart(p) ==
  /\ Start(p, [Idle EXCEPT !.pc = "clear"])
  /\ session' = NoSession
  /\ UNCHANGED <<configured, authState, keychain, active, issued, unwritten, left>>

SignOutClear(p) ==
  /\ At(p, "clear")
  /\ active' \in {{}, active} /\ Go(p, "unkey")
  /\ UNCHANGED <<configured, authState, session, keychain, issued, overlap, unwritten, left>>

SignOutEnd(p) ==
  /\ At(p, "unkey")
  /\ keychain' = Deleted /\ unwritten' = FALSE
  /\ Show("signed-out") /\ left' = TRUE /\ Done(p)
  /\ UNCHANGED <<configured, session, active, issued, overlap>>

-----------------------------------------------------------------------------
(* accessTokenForSync; the answers null and a fresh token change nothing     *)

Stale == ~session.fresh

TokenStart(p) ==
  /\ authState.kind = "signed-in" /\ session # NoSession /\ Stale
  /\ session.refresh # NoToken
  /\ Start(p, [Idle EXCEPT !.pc = "refresh", !.token = session.refresh])
  /\ UNCHANGED <<configured, authState, session, keychain, active, issued, unwritten, left>>

\* The user and the refresh token the answer lacks are those of the session of
\* now; without a session reading them throws, and the call answers null.
TokenRefresh(p) ==
  /\ At(p, "refresh")
  /\ LET t == authCall[p].token
     IN \/ \E user \in Account \cup {NoUser}, rotated \in Token \cup {NoToken} :
             /\ session # NoSession \/ (user # NoUser /\ rotated # NoToken)
             /\ Refreshed(t, session.user, session.refresh, user, rotated)
             /\ IF rotated = NoToken THEN Done(p)
                ELSE authCall' = [authCall EXCEPT ![p] = [Idle EXCEPT !.pc = "store", !.token = rotated]]
        \/ Done(p) /\ UNCHANGED <<session, issued>>
  /\ UNCHANGED <<configured, authState, keychain, active, overlap, unwritten, left>>

TokenStore(p) ==
  /\ At(p, "store")
  /\ keychain' \in {authCall[p].token, keychain} /\ Done(p)
  /\ UNCHANGED <<configured, authState, session, active, issued, overlap, unwritten, left>>

-----------------------------------------------------------------------------
TokenExpires ==
  /\ session # NoSession /\ session.fresh
  /\ session' = [session EXCEPT !.fresh = FALSE]
  /\ UNCHANGED <<configured, authState, keychain, active, authCall, issued, overlap, unwritten, left>>

\* The app is quit or crashes at any point and is started again.
AppRestart ==
  /\ authState' = [kind |-> "signed-out", user |-> NoUser]
  /\ session' = NoSession
  /\ authCall' = [p \in AuthProc |-> IF p = "restore" THEN [Idle EXCEPT !.pc = "read"] ELSE Idle]
  /\ unwritten' = (unwritten \/ (At("signIn", "store") /\ Mismatch))
  /\ UNCHANGED <<configured, keychain, active, issued, overlap, left>>

RestoreStep == RestoreRead \/ RestoreFind \/ RestoreWipe \/ RestoreRefresh
               \/ RestoreStore \/ RestoreUnkey \/ RestoreClear
SignInStep  == SignInOpen \/ SignInTimeout \/ SignInFails \/ SignInExchange
               \/ SignInUpsert \/ SignInStore
SignOutStep(p) == SignOutClear(p) \/ SignOutEnd(p)
TokenStep(p)   == TokenRefresh(p) \/ TokenStore(p)

AuthNext ==
  \/ RestoreStep \/ SignInRefused \/ SignInStart \/ SignInCallback \/ SignInStep
  \/ \E p \in OutCall : SignOutStart(p) \/ SignOutStep(p)
  \/ \E p \in TokenCall : TokenStart(p) \/ TokenStep(p)
  \/ TokenExpires \/ AppRestart

\* Awaits return: the queries answer, the HTTP requests fail or answer, and the
\* five-minute timer fires.  Nobody has to press anything.
AuthFairness == /\ WF_authVars(RestoreStep) /\ WF_authVars(SignInStep)
                /\ \A p \in OutCall : WF_authVars(SignOutStep(p))
                /\ \A p \in TokenCall : WF_authVars(TokenStep(p))

AuthSpec == AuthInit /\ [][AuthNext]_authVars

-----------------------------------------------------------------------------
(* One account is active; every token, on disk or in a call, was issued.     *)
AuthTypeOK ==
  /\ authState \in [kind : {"signed-out", "signing-in", "signed-in", "error"},
                    user : Account \cup {NoUser}]
  /\ (authState.kind = "signed-in") <=> (authState.user # NoUser)
  /\ keychain \in Token \cup {NoToken}
  /\ active \subseteq Account /\ Cardinality(active) <= 1
  /\ keychain[2] <= issued /\ \A p \in AuthProc : authCall[p].token[2] <= issued

(* While a user is shown as signed in, the uploads use a session of that very *)
(* user, unless calls of AuthService overlapped: signOut during a refresh or  *)
(* a restore, or a sign-in during either, leaves another user's session.      *)
SessionOfUser ==
  authState.kind = "signed-in" /\ ~overlap /\ ~unwritten /\ InFlight = {} =>
    /\ session.user = authState.user /\ session.bearer = authState.user
    /\ Owner(session.refresh) \in {authState.user, NoUser}

(* Who is shown as signed in is the account of the table, and the token on    *)
(* disk is its own ("never sees a signed-in but not actually persisted").     *)
SignedInIsPersisted ==
  authState.kind = "signed-in" /\ ~overlap /\ ~unwritten /\ InFlight = {} =>
    active = {authState.user} /\ Owner(keychain) \in {authState.user, NoUser}

(* A finished sign-out is final, over restarts and failed statements too,     *)
(* unless another call overlapped it: nothing is left to restore.             *)
SignOutIsFinal ==
  left /\ ~overlap =>
    authState.kind # "signed-in" /\ keychain = NoToken

(* The state of the desktop's account, in all four respects.                  *)
AuthSound == AuthTypeOK /\ SessionOfUser /\ SignedInIsPersisted /\ SignOutIsFinal

(* "Signing in ..." does not stay: the flow ends, though the redirect of the   *)
(* browser may be lost and whatever may fail.                                  *)
SignInSettles == (authState.kind = "signing-in") ~> (authState.kind # "signing-in")
=============================================================================
