------------------------------- MODULE Plans -------------------------------
(***************************************************************************)
(* providers/*/plan.ts, google/plan-cache.ts: how the user pays each vendor, *)
(* from what the vendor's own program left on the disk, and for Google and   *)
(* Cursor from what the vendor answers.  The registry asks for the dashboard *)
(* and for the alerts, so that two callers may be at it (registry.describe). *)
(*                                                                         *)
(* A behaviour follows one vendor.  A tier is free, paid for by the user or  *)
(* by a team; its label is left out.  An account keeps its tier.             *)
(***************************************************************************)
EXTENDS Naturals

CONSTANTS Vendors,   \* among anthropic, openai, google and cursor
          Payer,     \* accounts of the vendor
          Caller,
          Ttl,       \* CACHE_TTL_MS
          NoPlan

ASSUME PlansAssumption ==
  /\ Vendors \subseteq {"anthropic", "openai", "google", "cursor"} /\ Ttl \in Nat
  /\ NoPlan \notin Payer \cup {"free", "pro", "team", "enterprise"}
  /\ NoPlan \notin [of : Payer, paid : BOOLEAN, age : Nat]

VARIABLES vendor,
          tier,      \* of each account
          creds,     \* whose credentials are on the disk; NoPlan, Broken
          apiKey,    \* an API key in the environment
          file,      \* google-plan-cache.json; NoPlan when it is missing or torn
          steady,    \* a plan was saved, undisturbed since: history
          call,      \* the detection of each caller
          chip      \* the last answer

planVars == <<vendor, tier, creds, apiKey, file, steady, call, chip>>

Broken    == "broken"      \* a file without a usable token
NotAsking == [step |-> "asleep"]
NoAnswer  == [user |-> NoPlan, mode |-> "none", source |-> "none", failed |-> FALSE, steady |-> FALSE]

Paid(u) == tier[u] # "free"

-----------------------------------------------------------------------------
(* The user and the clock                                                    *)

\* Another account, signing out, an interrupted sign-in.
Sign(who) ==
  /\ creds # who
  /\ creds' = who
  /\ UNCHANGED <<vendor, tier, apiKey, file, steady, call, chip>>

Ages ==
  /\ file # NoPlan /\ file.age <= Ttl
  /\ file' = [file EXCEPT !.age = @ + 1]
  /\ steady' = (steady /\ file.age < Ttl)
  /\ UNCHANGED <<vendor, tier, creds, apiKey, call, chip>>

-----------------------------------------------------------------------------
(* A detection                                                               *)

On(c, s) ==
  /\ call' = [call EXCEPT ![c] = s]
  /\ UNCHANGED <<vendor, tier, creds, apiKey, chip>>
Answer(c, a) ==
  /\ call' = [call EXCEPT ![c] = NotAsking] /\ chip' = a
  /\ UNCHANGED <<vendor, tier, creds, apiKey, file, steady>>

Plan(u, mode, source, failed) ==
  [user |-> u, mode |-> mode, source |-> source, failed |-> failed, steady |-> steady]

\* Without an account the key counts; only Google looks for it before it gives up on
\* a broken file.
Accountless ==
  IF creds = Broken /\ (vendor # "google" \/ ~apiKey) THEN "unknown"
  ELSE IF apiKey THEN "apiKey" ELSE "none"

\* detectAnthropicPlan, detectOpenAIPlan: whoever has an account is a subscriber.
ModeOnDisk(u) == "subscription"
Detect(c) ==
  /\ call[c] = NotAsking
  /\ IF creds \notin Payer THEN Answer(c, Plan(NoPlan, Accountless, "disk", FALSE))
     ELSE IF vendor \in {"anthropic", "openai"}
     THEN Answer(c, Plan(creds, ModeOnDisk(creds), "disk", FALSE))
     ELSE On(c, [step |-> vendor, user |-> creds]) /\ UNCHANGED <<file, steady>>

\* detectGooglePlan: the tier, or what was saved when Google does not answer, for one
\* because the token has expired.
ModeOf(u) == IF Paid(u) THEN "subscription" ELSE "oauth"
CodeAssist(c) ==
  /\ call[c].step = "google"
  /\ \E next \in {"save", "load"} : On(c, [call[c] EXCEPT !.step = next])
  /\ UNCHANGED <<file, steady>>

\* saveCachedPlan: writeFile truncates, then writes.
Truncate(c) ==
  /\ call[c].step = "save"
  /\ On(c, [call[c] EXCEPT !.step = "write"])
  /\ file' = NoPlan /\ steady' = FALSE
\* Over what another caller wrote meanwhile the longer text's end may remain.
Write(c) ==
  LET mine == [of |-> call[c].user, paid |-> Paid(call[c].user), age |-> 0] IN
    /\ call[c].step = "write"
    /\ On(c, [call[c] EXCEPT !.step = "live"])
    /\ file' \in {mine} \cup (IF file \in {NoPlan, mine} THEN {} ELSE {NoPlan})
    /\ steady' = (file' # NoPlan /\ \A d \in Caller \ {c} : call[d].step # "write")
SaveFails(c) ==
  /\ call[c].step \in {"save", "write"}
  /\ On(c, [call[c] EXCEPT !.step = "live"]) /\ UNCHANGED <<file, steady>>
TellLive(c) ==
  /\ call[c].step = "live"
  /\ Answer(c, Plan(call[c].user, ModeOf(call[c].user), "live", FALSE))

\* loadCachedPlan: a torn or an old file is none.
LoadedOld == file # NoPlan /\ file.age > Ttl
Loaded == file # NoPlan /\ file.age <= Ttl
LoadPlan(c) ==
  /\ call[c].step = "load"
  /\ Answer(c, IF Loaded
               THEN Plan(call[c].user, IF file.paid THEN "subscription" ELSE "oauth", "saved", TRUE)
               ELSE Plan(call[c].user, "oauth", "identity", TRUE))

\* detectCursorPlan: /auth/stripe; a team's member has no membership, or a free one.
Stripe(c) ==
  LET u == call[c].user
      Then(known, team, failed) ==
        On(c, [step |-> IF known = NoPlan \/ team THEN "me" ELSE "tell", user |-> u,
               tier |-> known, team |-> team, failed |-> failed])
  IN /\ call[c].step = "cursor"
     /\ \/ tier[u] # "team" /\ Then(tier[u], FALSE, FALSE)
        \/ tier[u] = "team" /\ \E known \in {NoPlan, "free"} : Then(known, TRUE, FALSE)
        \/ Then(NoPlan, FALSE, TRUE)
     /\ UNCHANGED <<file, steady>>

\* /auth/me: a plan named enterprise is a tier, one named team only says so.
Me(c) ==
  LET s == call[c]
      Then(known, team, failed) ==
        On(c, [s EXCEPT !.step = "tell", !.tier = known, !.team = team, !.failed = failed])
  IN /\ s.step = "me"
     /\ \/ tier[s.user] = "team" /\ \/ Then("enterprise", s.team, s.failed)
                                    \/ Then(s.tier, TRUE, s.failed)
        \/ tier[s.user] # "team" /\ Then(IF s.tier = NoPlan THEN tier[s.user] ELSE s.tier, s.team, s.failed)
        \/ Then(s.tier, s.team, TRUE)
     /\ UNCHANGED <<file, steady>>

Tell(c) ==
  /\ call[c].step = "tell"
  /\ Answer(c, Plan(call[c].user, IF call[c].tier # NoPlan THEN "subscription" ELSE "oauth", "live", call[c].failed))

\* The app is left; the file stays as it is.
Leave ==
  /\ \E c \in Caller : call[c] # NotAsking
  /\ call' = [c \in Caller |-> NotAsking] /\ chip' = NoAnswer
  /\ UNCHANGED <<vendor, tier, creds, apiKey, file, steady>>

-----------------------------------------------------------------------------
PlansInit ==
  /\ vendor \in Vendors /\ apiKey \in BOOLEAN
  /\ tier \in [Payer -> {"free", "pro"} \cup (IF vendor = "cursor" THEN {"team"} ELSE {})]
  /\ creds = NoPlan /\ file = NoPlan /\ steady = FALSE
  /\ call = [c \in Caller |-> NotAsking] /\ chip = NoAnswer

PlansNext ==
  \/ \E who \in Payer \cup {NoPlan, Broken} : Sign(who)
  \/ Ages \/ Leave
  \/ \E c \in Caller : \/ Detect(c) \/ CodeAssist(c) \/ Truncate(c) \/ Write(c) \/ SaveFails(c)
                       \/ TellLive(c) \/ LoadPlan(c) \/ Stripe(c) \/ Me(c) \/ Tell(c)

PlansSpec == PlansInit /\ [][PlansNext]_planVars

-----------------------------------------------------------------------------
(* Properties                                                                *)

\* An account that pays is shown as a subscription, whichever request tells it; a
\* member of a Cursor team without a membership of his own is not.
PaidIsShown ==
  chip.user \in Payer /\ Paid(chip.user) /\ ~chip.failed
    /\ ~(vendor = "cursor" /\ tier[chip.user] = "team")
  => chip.mode = "subscription"

\* Once a plan is saved and until it is CACHE_TTL_MS old, a failing request does not
\* turn the answer into the bare identity, unless another caller is saving.
NoFlip == chip.source = "identity" => ~chip.steady

PlansSound == PaidIsShown /\ NoFlip
=============================================================================
