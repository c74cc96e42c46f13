---------------------------- MODULE EventLedger ----------------------------
(***************************************************************************)
(* What the team server promises about event-level uploads, independently  *)
(* of how it is built: an append-only, first-write-wins table of events    *)
(* (usage_events) and a counter per bucket (event_daily_rollup) that always *)
(* moves together with it.  A step stores any set of events not stored     *)
(* before; nothing is overwritten or removed, and a retry of what is       *)
(* already stored is a stutter.                                            *)
(*                                                                         *)
(* Content stands for everything a payload carries besides its id (its     *)
(* payload_hash tells two contents of one id apart).  KeyOf names the      *)
(* bucket an event is counted in; only the number of events of a bucket is *)
(* kept: tokens and cost are summed by the same statement.                 *)
(***************************************************************************)
EXTENDS Naturals, FiniteSets

CONSTANTS
  EventId,     \* sync_event_ids
  Content,     \* what an upload says of an event
  NoContent,   \* "no row with this id"
  Key,         \* buckets of the rollup
  KeyOf        \* KeyOf[<<id, c>>]: the bucket that event id with content c counts in

\* What a user of this module has to establish of the constants.
LedgerAssumption ==
  /\ IsFiniteSet(EventId)
  /\ NoContent \notin Content
  /\ KeyOf \in [EventId \X Content -> Key]

VARIABLES
  ledger,      \* the content stored for each id, NoContent if none
  rollup       \* the counter of each bucket

ledgerVars == <<ledger, rollup>>

Stored(l) == {id \in EventId : l[id] # NoContent}

\* The stored events of l that are counted in bucket k.
InBucket(l, k) == {id \in Stored(l) : KeyOf[<<id, l[id]>>] = k}

Ledgers == [EventId -> Content \cup {NoContent}]

LedgerInit ==
  /\ ledger = [id \in EventId |-> NoContent]
  /\ rollup = [k \in Key |-> 0]

\* The events that a step from l to m stores for the first time.
NewIn(l, m, k) == InBucket(m, k) \ Stored(l)

Accept ==
  /\ ledger' \in Ledgers
  /\ \A id \in Stored(ledger) : ledger'[id] = ledger[id]
  /\ rollup' = [k \in Key |-> rollup[k] + Cardinality(NewIn(ledger, ledger', k))]

LedgerSpec == LedgerInit /\ [][Accept]_ledgerVars

LedgerTypeOK ==
  /\ ledger \in Ledgers
  /\ rollup \in [Key -> Nat]

(***************************************************************************)
(* The counter of a bucket is the number of stored events that belong to   *)
(* it: no upload, retry or conflict is ever counted twice or missed.       *)
(***************************************************************************)
RollupMatches == \A k \in Key : rollup[k] = Cardinality(InBucket(ledger, k))

=============================================================================
