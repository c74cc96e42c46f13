---------------------------- MODULE MCSyncClient ----------------------------
(***************************************************************************)
(* Instances of SyncClient for TLC.                                        *)
(***************************************************************************)
EXTENDS SyncClient, TLC

CONSTANTS e1, e2, e3, w1, w2, t1, t2, s1, s2

OneWriter  == w1 :> {e1, e2, e3}
OneWriter2 == w1 :> {e1, e2}
TwoWriters == (w1 :> {e1}) @@ (w2 :> {e2})

Sync(t)  == [target |-> t, url |-> s1, daily |-> FALSE]
Daily(t) == [Sync(t) EXCEPT !.daily = TRUE]
Off      == [target |-> NoTarget, url |-> NoUrl, daily |-> FALSE]

OneTarget    == {Sync(t1)}
OnAndOff     == {Sync(t1), Off}
OneAggregate == {Daily(t1)}

QueueSymmetry == Permutations(Queue)
=============================================================================
