------------------------------ MODULE Settings ------------------------------
(***************************************************************************)
(* The user's settings: settings/store.ts, what index.ts rebuilds when they *)
(* change, and the form in SettingsTab.tsx, which edits a copy of its own   *)
(* that App.tsx renews when main broadcasts.                                *)
(*                                                                         *)
(* Settings are the upload URL, the team and the two intervals; the other   *)
(* fields behave like these.  Calls of the window and broadcasts to it keep *)
(* their order.  A restart may happen anywhere, also inside a write.        *)
(***************************************************************************)
EXTENDS Naturals, Sequences

CONSTANTS Url, NoUrl,  \* upload URLs, and none
          Team,        \* teams (with a default)
          Every,       \* intervals (with a default)
          DefaultTeam, DefaultRefresh, DefaultSync,
          EnvUrl,      \* LCM_SYNC_URL, or NoUrl
          MaxCalls     \* bound on the edits under way

ASSUME SettingsAssumption ==
  /\ NoUrl \notin Url /\ MaxCalls \in Nat
  /\ DefaultTeam \in Team /\ {DefaultRefresh, DefaultSync} \subseteq Every

VARIABLES up,        \* the app runs
          cached,    \* SettingsStore.cached
          disk,      \* settings.json; NoFile
          wired,     \* what index.ts built: the queue's URL and the two timers
          cadence,   \* lastRefreshIntervalMs and lastSyncIntervalMs
          copy,      \* the window's settings, or NoFile while they load
          calls,     \* SETTINGS_SET calls on their way to main
          announced, \* settings on their way to the window
          wish,      \* history: the values the user gave last; NoFile: lost by a restart
          raced,     \* history: an edit was made on a copy that was out of date
          unsaved    \* history: the last write of the file failed, or died with the app

settingsVars == <<up, cached, disk, wired, cadence, copy, calls, announced, wish, raced, unsaved>>

NoFile   == [none |-> TRUE]   \* no file, or none that parses
Defaults == [url |-> NoUrl, team |-> DefaultTeam, syncEvery |-> DefaultSync,
             refreshEvery |-> DefaultRefresh]
Block    == {"url", "team", "syncEvery"}       \* the fields of teamSync

EffectiveUrl(s) == IF s.url # NoUrl THEN s.url ELSE EnvUrl
BuildQueue(s)   == EffectiveUrl(s)
Wiring(s) == [queue |-> BuildQueue(s), sync |-> s.syncEvery, refresh |-> s.refreshEvery]
Cadences(s) == [sync |-> s.syncEvery, refresh |-> s.refreshEvery]

-----------------------------------------------------------------------------
(* set: the patch is merged into the settings and teamSync into its block,    *)
(* written to a temporary file that is renamed, and the listeners are called.  *)

MergedShallow(s, patch) ==   \* teamSync replaced instead of merged
  [f \in DOMAIN s |-> IF f \in DOMAIN patch THEN patch[f]
                      ELSE IF f \in Block /\ DOMAIN patch \cap Block # {} THEN Defaults[f]
                      ELSE s[f]]
Merged(s, patch) == [f \in DOMAIN s |-> IF f \in DOMAIN patch THEN patch[f] ELSE s[f]]

\* index.ts rebuilds the queue at every change and a timer when its interval is
\* another than the one it saw last.
Rewired(w, seen, s) ==
  [queue   |-> BuildQueue(s),
   sync    |-> IF s.syncEvery # seen.sync THEN s.syncEvery ELSE w.sync,
   refresh |-> IF s.refreshEvery # seen.refresh THEN s.refreshEvery ELSE w.refresh]

Set ==
  /\ up /\ calls # <<>>
  /\ LET next == Merged(cached, Head(calls)) IN
       /\ \E saved \in BOOLEAN : disk' = (IF saved THEN next ELSE disk) /\ unsaved' = ~saved
       /\ cached' = next /\ wired' = Rewired(wired, cadence, next) /\ cadence' = Cadences(next)
       /\ announced' = Append(announced, next)
  /\ calls' = Tail(calls)
  /\ UNCHANGED <<up, copy, wish, raced>>

\* The app dies: at rest, or inside a write, before the rename or after it.  The
\* edits that had not reached the file are lost.
Stop ==
  /\ up /\ up' = FALSE
  /\ \/ UNCHANGED <<disk, unsaved>>
     \/ calls # <<>> /\ disk' = Merged(cached, Head(calls)) /\ unsaved' = TRUE
  /\ wish' = IF calls = <<>> /\ ~raced /\ ~unsaved THEN wish ELSE NoFile
  /\ copy' = NoFile /\ calls' = <<>> /\ announced' = <<>>
  /\ UNCHANGED <<cached, wired, cadence, raced>>

\* What a start takes for the settings: the file, with the fields that older
\* versions did not write filled in, which nothing writes back ...
Restored ==
  /\ disk # NoFile /\ cached' = disk
  /\ wish' = IF wish = NoFile THEN disk ELSE wish
  /\ unsaved' = FALSE /\ UNCHANGED disk

\* ... or, where it cannot be read or parsed, the defaults.  Their first write is
\* not renamed into place and its failure is swallowed: it leaves the defaults, the
\* file as it was, or one cut short (as does an app that dies inside it).
Initialised ==
  /\ cached' = Defaults /\ wish' = Defaults
  /\ disk' \in {Defaults, disk, NoFile} /\ unsaved' = (disk' # Defaults)

\* loadOrInit, and what index.ts builds of it.
Load ==
  /\ ~up /\ up' = TRUE
  /\ Restored \/ Initialised
  /\ wired' = Wiring(cached') /\ cadence' = Cadences(cached')
  /\ announced' = <<cached'>>   \* the answer to the settings() call of the window
  /\ raced' = FALSE
  /\ UNCHANGED <<copy, calls>>

-----------------------------------------------------------------------------
(* The window                                                                *)

Receive ==
  /\ announced # <<>> /\ copy' = Head(announced) /\ announced' = Tail(announced)
  /\ UNCHANGED <<up, cached, disk, wired, cadence, calls, wish, raced, unsaved>>

Send(patch) ==
  /\ up /\ Len(calls) + Len(announced) < MaxCalls
  /\ calls' = Append(calls, patch)
  /\ UNCHANGED <<up, cached, disk, wired, cadence, copy, announced, unsaved>>

\* TeamSyncCard.update sends the whole block with one field changed.
PatchOf(field, v) == [f \in Block |-> IF f = field THEN v ELSE copy[f]]
Edit ==
  /\ copy # NoFile
  /\ \E field \in {"url", "team"} :
     \E v \in (IF field = "url" THEN Url \cup {NoUrl} ELSE Team) :
       /\ Send(PatchOf(field, v))
       /\ wish' = [wish EXCEPT ![field] = v]
       /\ raced' = (raced \/ calls # <<>> \/ announced # <<>>)

\* RefreshIntervalCard.apply sends the two intervals and nothing else of the block.
PickInterval ==
  \E ms \in Every :
    /\ Send([refreshEvery |-> ms, syncEvery |-> ms])
    /\ wish' = [wish EXCEPT !.refreshEvery = ms, !.syncEvery = ms]
    /\ UNCHANGED raced

SettingsInit ==
  /\ up = FALSE /\ cached = Defaults /\ disk = NoFile /\ wired = Wiring(Defaults)
  /\ cadence = Cadences(Defaults) /\ copy = NoFile /\ calls = <<>> /\ announced = <<>>
  /\ wish = NoFile /\ raced = FALSE /\ unsaved = FALSE

SettingsNext == Set \/ Stop \/ Load \/ Receive \/ Edit \/ PickInterval

SettingsSpec == SettingsInit /\ [][SettingsNext]_settingsVars

-----------------------------------------------------------------------------
(* The queue and the timers that run are those the settings ask for, however   *)
(* the edits that changed them followed each other.                            *)
WiringFollows == up => wired = Wiring(cached)

(* Once the edits have reached main, every field holds what the user gave last, *)
(* also before a restart, unless an edit was sent from a copy that was out of   *)
(* date (the form sends the whole block, so that it takes back the edit before  *)
(* it), its write failed or was cut short by the app's end, or the file could   *)
(* not be read at the start: the defaults then take the place of the edits.     *)
EditsSurvive == up /\ calls = <<>> /\ ~raced => cached = wish

(* When nothing is on its way the window shows the settings in force.          *)
WindowCurrent == up /\ calls = <<>> /\ announced = <<>> => copy = cached

(* The file holds the settings in force unless the last write failed, the first *)
(* one of a start included: the app then runs with settings a restart loses.    *)
FileCurrent == up /\ ~unsaved => disk = cached

SettingsSound == WiringFollows /\ EditsSurvive /\ WindowCurrent /\ FileCurrent
=============================================================================
