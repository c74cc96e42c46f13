------------------------------ MODULE MCDesktop ------------------------------
(***************************************************************************)
(* Instances of two services of the desktop for TLC: the account and the     *)
(* alerts.  They share no state here, so that a behaviour exercises one of   *)
(* them; the other stays in a state in which no fairness asks for a step.    *)
(***************************************************************************)
EXTENDS AuthSession, Alerts

VARIABLE part   \* the service a behaviour exercises

vars == <<part, authVars, alertVars>>

\* A first state of the account when it is not exercised: one of those it may have.
AuthRests == /\ configured = FALSE /\ keychain = NoToken /\ active = {}
             /\ authCall = [p \in AuthProc |-> Idle]
             /\ authState = [kind |-> "signed-out", user |-> NoUser] /\ session = NoSession
             /\ issued = 1 /\ overlap = FALSE /\ unwritten = FALSE /\ left = FALSE

Init == /\ part \in {"auth", "alerts"}
        /\ IF part = "auth" THEN AuthInit ELSE AuthRests
        /\ AlertInit /\ (part # "alerts" => over = {})

AuthPart   == part = "auth" /\ AuthNext /\ UNCHANGED <<part, alertVars>>
AlertsPart == part = "alerts" /\ AlertNext /\ UNCHANGED <<part, authVars>>

Next == AuthPart \/ AlertsPart

FairSpec == Init /\ [][Next]_vars /\ AuthFairness /\ AlertFairness
=============================================================================
