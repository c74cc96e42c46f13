------------------------------- MODULE Ingest -------------------------------
(***************************************************************************)
(* From the log of an assistant to the events table: a refresh of a provider *)
(* (providers/*, parsers/*, storage/file-cache.ts, upsertMany) looks at the   *)
(* size of a log, reads it from where the file cache says, records the size  *)
(* in the cache, and then stores the events.  The assistant appends all the  *)
(* while, a line often in two writes.  A refresh may fail, and the app may   *)
(* die, between any two steps; a provider runs one refresh at a time.        *)
(*                                                                         *)
(* One log file of one of the four formats.  A line is two units long; its   *)
(* timestamp is its place.  A log is only appended to.                       *)
(***************************************************************************)
EXTENDS Naturals, Sequences, FiniteSets

CONSTANTS Message,  \* Claude messages; the chunks of one share its id
          MaxLines  \* bound on the lines of the log

ASSUME IngestAssumption == MaxLines \in Nat /\ "turn" \notin Message

VARIABLES format,  \* claude, gemini, codex, or cursor
          log,     \* the lines: a message id, "row" with usage, or "turn" (context)
          half,    \* the last line is written only in part
          cache,   \* files.last_offset; 0 without a row
          run,     \* the refresh under way
          events,  \* the table: event ids, each with the line and the turn it tells
          gone,    \* history: lines a refresh passed over for good
          seen     \* history: how many lines the log had when a refresh read it

ingestVars == <<format, log, half, cache, run, events, gone, seen>>

Lines  == 1 .. Len(log)
Size   == 2 * Len(log) - (IF half THEN 1 ELSE 0)
NoRun  == [pc |-> "idle", size |-> 0, from |-> 0, batch |-> {}, torn |-> {}]
Kinds  == CASE format = "claude" -> Message
            [] format = "gemini" -> {"row"}
            [] OTHER             -> {"row", "turn"}

IngestInit ==
  /\ format \in {"claude", "gemini", "codex", "cursor"}
  /\ log = <<>> /\ half = FALSE /\ cache = 0 /\ run = NoRun
  /\ events = {} /\ gone = {} /\ seen = {}

-----------------------------------------------------------------------------
(* The assistant                                                             *)

AppendLine ==
  /\ ~half /\ Len(log) < MaxLines
  /\ \E k \in Kinds : log' = Append(log, k)
  /\ half' \in BOOLEAN
  /\ UNCHANGED <<format, cache, run, events, gone, seen>>

FinishLine ==
  /\ half /\ half' = FALSE
  /\ UNCHANGED <<format, log, cache, run, events, gone, seen>>

-----------------------------------------------------------------------------
(* parse...File                                                              *)

\* Codex is read from the start each time; the other parsers resume.
ResumeAlways(size) == IF cache <= size THEN cache ELSE 0
Resume(size)       == IF format # "codex" /\ cache <= size THEN cache ELSE 0

\* stat and the file cache: a log of the recorded size is skipped.  When the cache
\* cannot be asked the log is read from the start.
Stat ==
  /\ run.pc = "idle" /\ log # <<>>
  /\ \E from \in {0} \cup (IF cache # Size THEN {Resume(Size)} ELSE {}) :
       run' = [run EXCEPT !.pc = "read", !.size = Size, !.from = from]
  /\ UNCHANGED <<format, log, half, cache, events, gone, seen>>

\* readJsonlLines: lines that are not JSON, cut off at the end or by a start in
\* their middle, are skipped.
Whole(from) == {i \in Lines : 2 * (i - 1) >= from /\ ~(i = Len(log) /\ half)}

Row(i, id, turn) == [id |-> id, line |-> i, turn |-> turn]
Calls(S)         == {i \in S : log[i] # "turn"}

\* Of the chunks of a Claude message the last one of this reading counts; its time
\* is part of the event's id, so that another reading's last chunk is another event.
AllChunks(S)   == S
LastChunks(S)  == {i \in S : \A j \in S : j > i => log[j] # log[i]}
ParseClaude(S) == {Row(i, <<0, i>>, 0) : i \in LastChunks(S)}
ParseGemini(S) == {Row(i, <<0, i>>, 0) : i \in Calls(S)}

\* Codex and Cursor lines belong to the turn that was announced before them, as
\* far as this reading saw one.
LatestOf(S)    == IF S = {} THEN 0 ELSE CHOOSE i \in S : \A j \in S : j <= i
Turn(i, S)     == LatestOf({j \in S : j < i /\ log[j] = "turn"})
ParseCodex(S)  == {Row(i, <<Turn(i, S), i>>, Turn(i, S)) : i \in Calls(S)}
ParseCursor(S) == {Row(i, <<Turn(i, S), i>>, Turn(i, S)) : i \in Calls(S)}

Parse(S) == CASE format = "claude" -> ParseClaude(S)
              [] format = "gemini" -> ParseGemini(S)
              [] format = "codex"  -> ParseCodex(S)
              [] format = "cursor" -> ParseCursor(S)

\* Lines that the next reading resumes after although this one could not parse them.
Torn(whole) == IF format = "codex" THEN {}
               ELSE {i \in Lines : 2 * (i - 1) < run.size /\ 2 * (i - 1) >= run.from} \ whole

WholeLines == Len(log) - (IF half THEN 1 ELSE 0)
ReadLog ==
  /\ run.pc = "read" /\ seen' = seen \cup {WholeLines}
  /\ LET whole == Whole(run.from) IN
       run' = [run EXCEPT !.pc = "cache", !.torn = Torn(whole),
                             !.batch = Parse(whole)]
  /\ UNCHANGED <<format, log, half, cache, events, gone>>

CachedNow(size) == Size        \* the size when the cache is written
Cached(size)    == size        \* the size the refresh began with
WriteCache ==
  /\ run.pc = "cache" /\ cache' = Cached(run.size) /\ run' = [run EXCEPT !.pc = "store"]
  /\ gone' = gone \cup run.torn
  /\ UNCHANGED <<format, log, half, events, seen>>

\* upsertMany, one transaction: a row of a known id is overwritten.
Store ==
  /\ run.pc = "store"
  /\ events' = {e \in events : \A n \in run.batch : n.id # e.id} \cup run.batch
  /\ gone' = (IF run.from = 0 THEN gone \ {n.line : n \in run.batch} ELSE gone)
  /\ run' = NoRun
  /\ UNCHANGED <<format, log, half, cache, seen>>

\* An error of the file or of the database, which refreshAll only reports, or the
\* end of the app.  The events of this reading are dropped; once the cache is
\* written nothing asks for them again, as long as the log does not grow (Codex)
\* or ever.
RefreshFails ==
  /\ run.pc # "idle" /\ run' = NoRun
  /\ gone' = (IF run.pc = "store" THEN gone \cup {n.line : n \in run.batch} ELSE gone)
  /\ UNCHANGED <<format, log, half, cache, events, seen>>

IngestNext == \/ AppendLine \/ FinishLine
              \/ Stat \/ ReadLog \/ WriteCache \/ Store \/ RefreshFails

IngestSpec == IngestInit /\ [][IngestNext]_ingestVars

-----------------------------------------------------------------------------
(* Every call in the log is in the table once a refresh has passed it, but for *)
(* those a refresh dropped after it had advanced the cache, or cut in two.     *)
Settled == run.pc = "idle" /\ cache = Size /\ ~half
NothingLost == Settled => {r.line : r \in Parse(Lines)} \subseteq {e.line : e \in events} \cup gone

(* A line of the log is one row, over retries, crashes and logs that grow      *)
(* while they are read ("a stable event id ... across rescans"); a line of     *)
(* Cursor may be two, as its turn is not known to a reading that resumes.      *)
OneRowPerLine ==
  format # "cursor" => \A d, e \in events : d.line = e.line => d = e

(* The chunks of a Claude message are one row, the last of them, unless a       *)
(* refresh read the log when some of them were there and others were not: then  *)
(* the message is a row, and is counted, once for each, although               *)
(* claude-code.ts:128-130 keeps one row of a message.                           *)
Chunks(d, e) == format = "claude" /\ log[d.line] = log[e.line] /\ d.line < e.line
OneRowPerReading ==
  \A d, e \in events : Chunks(d, e) => \E n \in seen : d.line <= n /\ n < e.line

(* A Codex call is told with the turn it belongs to, and so with its model.    *)
TurnKept == format = "codex" => \A e \in events : e.turn = Turn(e.line, Lines)

(* The rows say of the log what it says, and all of it.                        *)
IngestSound == NothingLost /\ OneRowPerLine /\ OneRowPerReading /\ TurnKept
=============================================================================
