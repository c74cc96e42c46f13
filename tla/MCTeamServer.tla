---------------------------- MODULE MCTeamServer ----------------------------
(***************************************************************************)
(* Instances of TeamServer for TLC: which requests arrive in each run.     *)
(***************************************************************************)
EXTENDS TeamServer, TLC

CONSTANTS t1, t2, u1, u2, n1, n2, l1, c1, c2, d1, d2

MCDayOf == (c1 :> d1) @@ (c2 :> d2)

Event(u, n, c) ==
  [kind |-> "event", id |-> <<t1, u, n, l1>>, claimed |-> <<t1, u, n, l1>>,
   content |-> c]

Forged(u, n, c) == [Event(u, n, c) EXCEPT !.claimed = <<t2, u, n, l1>>]
Stray(u, n, c)  == [Event(u, n, c) EXCEPT !.id[1] = t2, !.claimed[1] = t2]
Daily(u, n, c)  == [Event(u, n, c) EXCEPT !.kind = "daily"]

Post(s) == [team |-> t1, events |-> s]

\* An event, the same with other content (in another bucket), twice in one
\* body, and a body that mixes it with an event of another node.
EventRequests ==
  { Post(<<Event(u1, n1, c1)>>),
    Post(<<Event(u1, n1, c2), Event(u1, n1, c1)>>),
    Post(<<Event(u1, n2, c1), Event(u1, n1, c1)>>) }

\* Every kind of payload that is refused, a daily bucket and an event of a
\* second device, an empty body.
MixedRequests ==
  { Post(<<>>),
    Post(<<Stray(u1, n1, c1), Event(u1, n1, c1), Forged(u1, n1, c2)>>),
    Post(<<Daily(u1, n1, c1), Event(u1, n2, c1)>>) }

\* Two bodies that lock the same two nodes in opposite orders, with the kind of
\* payload that takes the fewest steps.
CrossedRequests ==
  { Post(<<Daily(u1, n1, c1), Daily(u1, n2, c1)>>),
    Post(<<Daily(u1, n2, c1), Daily(u1, n1, c1)>>) }

ReqSymmetry == Permutations(Req)
=============================================================================
