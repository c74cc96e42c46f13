-------------------------------- MODULE MCGo --------------------------------
(***************************************************************************)
(* Instances of the Go programs for TLC.  They share no state, so that a     *)
(* behaviour exercises one of them; the others stay where they start, where  *)
(* no fairness asks for a step.                                              *)
(***************************************************************************)
EXTENDS GoSessions, GoDaemon, GoProviders, GoServer, ServerBoot

VARIABLE part

vars == <<part, sessVars, daemonVars, providerVars, goServerVars, bootVars>>

P(u, hash, ours) == [id |-> <<u, CHOOSE n \in Node : (u = "u1") = (n = "n1"), "e">>,
                     hash |-> hash, ours |-> ours]

\* Two contents of one event, alone and in one batch; two nodes in both orders;
\* a payload of another team.
MCBodies == { <<P("u1", "h1", TRUE)>>, <<P("u1", "h2", TRUE)>>,
              <<P("u1", "h1", TRUE), P("u2", "h1", TRUE)>>,
              <<P("u2", "h1", TRUE), P("u1", "h2", TRUE)>>,
              <<P("u1", "h1", TRUE), P("u1", "h2", TRUE)>>,
              <<P("u2", "h2", FALSE), P("u2", "h1", TRUE)>> }

Init == /\ part \in {"sessions", "daemon", "providers", "server", "boot"}
        /\ SessInit /\ DaemonInit /\ ProviderInit /\ GoServerInit /\ BootInit

SessionsPart ==
  /\ part = "sessions" /\ SessNext
  /\ UNCHANGED <<part, daemonVars, providerVars, goServerVars, bootVars>>
DaemonPart ==
  /\ part = "daemon" /\ DaemonNext
  /\ UNCHANGED <<part, sessVars, providerVars, goServerVars, bootVars>>
ProvidersPart ==
  /\ part = "providers" /\ ProviderNext
  /\ UNCHANGED <<part, sessVars, daemonVars, goServerVars, bootVars>>
ServerPart ==
  /\ part = "server" /\ GoServerNext
  /\ UNCHANGED <<part, sessVars, daemonVars, providerVars, bootVars>>
BootPart ==
  /\ part = "boot" /\ BootNext
  /\ UNCHANGED <<part, sessVars, daemonVars, providerVars, goServerVars>>

Next == SessionsPart \/ DaemonPart \/ ProvidersPart \/ ServerPart \/ BootPart

FairSpec == /\ Init /\ [][Next]_vars
            /\ DaemonFairness /\ ProviderFairness /\ GoServerFairness /\ BootFairness

(* What the programs were asked to do comes to an end: a stop, a refresh, an   *)
(* upload, the requests of a Go server that shuts down.                        *)
GoEnds == StopCompletes /\ RefreshEnds /\ GoAnswered /\ Exits
=============================================================================
