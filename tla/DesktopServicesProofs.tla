------------------------ MODULE DesktopServicesProofs ------------------------
(***************************************************************************)
(* Theorems about the desktop app's services: the settings and their form  *)
(* (Settings), the views of the windows (Views), the plans (Plans) and the *)
(* sign-in (AuthSession), for any values of the fields, edits under way,   *)
(* selections, requests, versions, accounts and concurrent calls.          *)
(***************************************************************************)
EXTENDS Integers, AuthSession, Settings, Views, Plans, FiniteSetTheorems, SequenceTheorems, TLAPS

(***************************************************************************)
(* Settings.                                                               *)
(***************************************************************************)
Fields  == {"url", "team", "syncEvery", "refreshEvery"}
Form    == [url : Url \cup {NoUrl}, team : Team, syncEvery : Every, refreshEvery : Every]
ValuesOf(f) == CASE f = "url" -> Url \cup {NoUrl} [] f = "team" -> Team [] OTHER -> Every
Patches == {p \in UNION {[D -> Url \cup {NoUrl} \cup Team \cup Every] : D \in SUBSET Fields} :
              \A f \in DOMAIN p : p[f] \in ValuesOf(f)}

SettingsTypeOK ==
  /\ up \in BOOLEAN /\ raced \in BOOLEAN /\ unsaved \in BOOLEAN
  /\ cached \in Form /\ wish \in Form \cup {NoFile} /\ (up => wish \in Form)
  /\ disk \in Form \cup {NoFile} /\ copy \in Form \cup {NoFile}
  /\ calls \in Seq(Patches) /\ announced \in Seq(Form)

\* Nothing is on its way while the app is down.
DownIsQuiet == ~up => calls = <<>> /\ announced = <<>>

\* index.ts remembers the intervals of the settings in force.
LastFollows == up => cadence = Cadences(cached)

\* What the window was told last is what is in force.
Told == IF announced = <<>> THEN copy ELSE announced[Len(announced)]
ToldLast == up => Told = cached

\* The last call that names a field carries the user's last value of it; a field
\* that no call names has that value in force.
Named(f, i)  == i \in DOMAIN calls /\ f \in DOMAIN calls[i]
LastWins ==
  up /\ ~raced => \A f \in Fields :
    /\ (\A i \in DOMAIN calls : ~Named(f, i)) => cached[f] = wish[f]
    /\ \A i \in DOMAIN calls : Named(f, i) /\ (\A j \in DOMAIN calls : j > i => ~Named(f, j))
                                 => calls[i][f] = wish[f]

\* Edits that no restart lost are in the file while the app is down.
Kept == ~up /\ wish # NoFile => disk = wish

SettingsInv == /\ SettingsTypeOK /\ DownIsQuiet /\ LastFollows /\ ToldLast /\ LastWins
               /\ Kept /\ WiringFollows /\ FileCurrent

-----------------------------------------------------------------------------
LEMMA DefaultsType == Defaults \in Form
BY SettingsAssumption DEF Defaults, Form

LEMMA MergedType ==
  ASSUME NEW s \in Form, NEW p \in Patches
  PROVE  Merged(s, p) \in Form
<1>1. DOMAIN s = Fields /\ \A f \in Fields : s[f] \in ValuesOf(f)
  BY DEF Form, Fields, ValuesOf
<1>2. \A f \in DOMAIN p : p[f] \in ValuesOf(f)
  BY DEF Patches
<1>. QED
  BY <1>1, <1>2 DEF Merged, Form, Fields, ValuesOf

LEMMA FormEqual ==
  ASSUME NEW s \in Form, NEW t \in Form, \A f \in Fields : s[f] = t[f]
  PROVE  s = t
BY DEF Form, Fields

LEMMA FileIsNoForm == NoFile \notin Form
BY DEF NoFile, Form

\* The patches that the form and the interval card send.
LEMMA PatchType ==
  /\ \A field \in {"url", "team"} : \A v \in ValuesOf(field) :
       copy \in Form => /\ PatchOf(field, v) \in Patches /\ DOMAIN PatchOf(field, v) = Block
  /\ \A ms \in Every : /\ [refreshEvery |-> ms, syncEvery |-> ms] \in Patches
                       /\ DOMAIN [refreshEvery |-> ms, syncEvery |-> ms] = {"refreshEvery", "syncEvery"}
<1>1. ASSUME NEW field \in {"url", "team"}, NEW v \in ValuesOf(field), copy \in Form
      PROVE  PatchOf(field, v) \in Patches /\ DOMAIN PatchOf(field, v) = Block
  <2>1. PatchOf(field, v) \in [Block -> Url \cup {NoUrl} \cup Team \cup Every]
    BY <1>1 DEF PatchOf, Block, Form, ValuesOf
  <2>2. \A f \in Block : PatchOf(field, v)[f] \in ValuesOf(f)
    BY <1>1 DEF PatchOf, Block, Form, ValuesOf
  <2>. QED
    BY <2>1, <2>2 DEF Patches, Block, Fields
<1>2. ASSUME NEW ms \in Every
      PROVE  /\ [refreshEvery |-> ms, syncEvery |-> ms] \in Patches
             /\ DOMAIN [refreshEvery |-> ms, syncEvery |-> ms] = {"refreshEvery", "syncEvery"}
  <2>1. [refreshEvery |-> ms, syncEvery |-> ms]
          \in [{"refreshEvery", "syncEvery"} -> Url \cup {NoUrl} \cup Team \cup Every]
    OBVIOUS
  <2>. QED
    BY <2>1 DEF Patches, Fields, ValuesOf
<1>. QED
  BY <1>1, <1>2

\* What is written of an edit to the history.
LEMMA WishType ==
  ASSUME SettingsTypeOK, up
  PROVE  /\ \A field \in {"url", "team"} : \A v \in ValuesOf(field) :
              /\ [wish EXCEPT ![field] = v] \in Form
              /\ \A f \in Fields : [wish EXCEPT ![field] = v][f] = IF f = field THEN v ELSE wish[f]
         /\ \A ms \in Every :
              /\ [wish EXCEPT !.refreshEvery = ms, !.syncEvery = ms] \in Form
              /\ \A f \in Fields : [wish EXCEPT !.refreshEvery = ms, !.syncEvery = ms][f] =
                                     IF f \in {"refreshEvery", "syncEvery"} THEN ms ELSE wish[f]
BY DEF SettingsTypeOK, Form, Fields, ValuesOf

\* An edit and the choice of an interval, in the terms the proofs need.
LEMMA EditMeans ==
  ASSUME SettingsTypeOK, Edit
  PROVE  /\ up /\ copy \in Form
         /\ \E field \in {"url", "team"} : \E v \in ValuesOf(field) :
              /\ calls' = Append(calls, PatchOf(field, v))
              /\ PatchOf(field, v) \in Patches /\ DOMAIN PatchOf(field, v) = Block
              /\ wish' = [wish EXCEPT ![field] = v] /\ wish' \in Form
         /\ raced' = (raced \/ calls # <<>> \/ announced # <<>>)
         /\ UNCHANGED <<up, cached, disk, wired, cadence, copy, announced, unsaved>>
<1>1. copy \in Form
  BY FileIsNoForm DEF Edit, SettingsTypeOK
<1>2. PICK field \in {"url", "team"} : \E v \in ValuesOf(field) :
             Send(PatchOf(field, v)) /\ wish' = [wish EXCEPT ![field] = v]
  BY DEF Edit, ValuesOf
<1>3. PICK v \in ValuesOf(field) :
             Send(PatchOf(field, v)) /\ wish' = [wish EXCEPT ![field] = v]
  BY <1>2
<1>4. PatchOf(field, v) \in Patches /\ DOMAIN PatchOf(field, v) = Block /\ wish' \in Form
  BY <1>1, <1>3, PatchType, WishType DEF Send
<1>5. /\ up /\ calls' = Append(calls, PatchOf(field, v))
      /\ UNCHANGED <<up, cached, disk, wired, cadence, copy, announced, unsaved>>
  BY <1>3 DEF Send
<1>6. raced' = (raced \/ calls # <<>> \/ announced # <<>>)
  BY DEF Edit
<1>. QED
  BY <1>1, <1>2, <1>3, <1>4, <1>5, <1>6

LEMMA SettingsTypeStep ==
  ASSUME SettingsTypeOK, SettingsNext
  PROVE  SettingsTypeOK'
<1>1. CASE Set
  <2>1. calls # <<>> /\ Head(calls) \in Patches /\ Tail(calls) \in Seq(Patches)
    BY <1>1 DEF Set, SettingsTypeOK
  <2>2. Merged(cached, Head(calls)) \in Form
    BY <2>1, MergedType DEF SettingsTypeOK
  <2>. QED
    BY <1>1, <2>1, <2>2 DEF Set, SettingsTypeOK
<1>2. CASE Stop
  <2>1. calls # <<>> => Merged(cached, Head(calls)) \in Form
    BY MergedType DEF SettingsTypeOK
  <2>2. disk' \in Form \cup {NoFile} /\ unsaved' \in BOOLEAN
    BY <1>2, <2>1 DEF Stop, SettingsTypeOK
  <2>3. calls' \in Seq(Patches) /\ announced' \in Seq(Form)
    BY <1>2, EmptySeq DEF Stop
  <2>4. copy' \in Form \cup {NoFile} /\ up' = FALSE
    BY <1>2 DEF Stop
  <2>5. wish' \in Form \cup {NoFile}
    BY <1>2 DEF Stop, SettingsTypeOK
  <2>. QED
    BY <1>2, <2>2, <2>3, <2>4, <2>5 DEF Stop, SettingsTypeOK
<1>3. CASE Load
  <2>1. /\ cached' \in Form /\ wish' \in Form /\ disk' \in Form \cup {NoFile}
        /\ unsaved' \in BOOLEAN
    <3>1. CASE Restored
      BY <3>1 DEF Restored, SettingsTypeOK
    <3>2. CASE Initialised
      BY <3>2, DefaultsType DEF Initialised, SettingsTypeOK
    <3>. QED
      BY <1>3, <3>1, <3>2 DEF Load
  <2>2. announced' \in Seq(Form)
    <3>1. announced' = <<cached'>>
      BY <1>3 DEF Load
    <3>. QED
      BY <2>1, <3>1
  <2>3. up' \in BOOLEAN /\ raced' \in BOOLEAN /\ UNCHANGED <<copy, calls>>
    BY <1>3 DEF Load
  <2>. QED
    BY <2>1, <2>2, <2>3 DEF SettingsTypeOK
<1>4. CASE Receive
  BY <1>4 DEF Receive, SettingsTypeOK
<1>5. CASE Edit
  <2>1. PICK patch \in Patches : calls' = Append(calls, patch)
    BY <1>5, EditMeans
  <2>2. calls' \in Seq(Patches)
    BY <2>1 DEF SettingsTypeOK
  <2>3. /\ wish' \in Form /\ raced' \in BOOLEAN
        /\ UNCHANGED <<up, cached, disk, wired, cadence, copy, announced, unsaved>>
    BY <1>5, EditMeans
  <2>. QED
    BY <2>2, <2>3 DEF SettingsTypeOK
<1>6. CASE PickInterval
  <2>1. PICK ms \in Every : /\ Send([refreshEvery |-> ms, syncEvery |-> ms])
                            /\ wish' = [wish EXCEPT !.refreshEvery = ms, !.syncEvery = ms]
                            /\ UNCHANGED raced
    BY <1>6 DEF PickInterval
  <2>2. wish' \in Form
    BY <2>1, WishType DEF Send
  <2>3. calls' \in Seq(Patches)
    BY <2>1, PatchType DEF Send, SettingsTypeOK
  <2>. QED
    BY <2>1, <2>2, <2>3 DEF Send, SettingsTypeOK
<1>. QED
  BY <1>1, <1>2, <1>3, <1>4, <1>5, <1>6 DEF SettingsNext

\* Rebuilt by the differences, the wiring is that of the new settings.
LEMMA RewiredFollows ==
  ASSUME NEW s, NEW t
  PROVE  Rewired(Wiring(s), Cadences(s), t) = Wiring(t)
BY DEF Rewired, Wiring, Cadences

LEMMA WiringStep ==
  ASSUME DownIsQuiet, LastFollows, WiringFollows, FileCurrent, SettingsNext
  PROVE  DownIsQuiet' /\ LastFollows' /\ WiringFollows' /\ FileCurrent'
<1>. USE DEF DownIsQuiet, LastFollows, WiringFollows, FileCurrent
<1>1. CASE Set
  BY <1>1, RewiredFollows DEF Set
<1>2. CASE Stop
  BY <1>2 DEF Stop
<1>3. CASE Load
  BY <1>3 DEF Load, Restored, Initialised
<1>4. CASE Receive
  BY <1>4 DEF Receive
<1>5. CASE Edit \/ PickInterval
  <2>1. up /\ UNCHANGED <<up, cached, disk, wired, cadence, copy, announced, unsaved>>
    BY <1>5 DEF Edit, PickInterval, Send
  <2>. QED
    BY <2>1
<1>. QED
  BY <1>1, <1>2, <1>3, <1>4, <1>5 DEF SettingsNext

\* Broadcasts arrive in their order, and each change is broadcast.
LEMMA ToldStep ==
  ASSUME SettingsTypeOK, DownIsQuiet, ToldLast, SettingsNext
  PROVE  ToldLast'
<1>. USE DEF ToldLast
<1>1. CASE Set
  <2>1. announced' = Append(announced, cached')
    BY <1>1 DEF Set
  <2>2. announced' # <<>> /\ announced'[Len(announced')] = cached'
    BY <2>1 DEF SettingsTypeOK
  <2>. QED
    BY <2>2 DEF Told
<1>2. CASE Stop
  BY <1>2 DEF Stop
<1>3. CASE Load
  <2>1. announced' = <<cached'>>
    BY <1>3 DEF Load
  <2>. QED
    BY <2>1 DEF Told
<1>4. CASE Receive
  <2>1. /\ announced # <<>> /\ copy' = Head(announced) /\ announced' = Tail(announced)
        /\ UNCHANGED <<up, cached>>
    BY <1>4 DEF Receive
  <2>2. Told' = Told
    <3>1. CASE Len(announced) = 1
      BY <2>1, <3>1 DEF Told, SettingsTypeOK
    <3>2. CASE Len(announced) # 1
      <4>1. Len(announced) \in Nat /\ Len(announced) > 1
        <5>1. Len(announced) \in Nat \ {0}
          BY <2>1, EmptySeq DEF SettingsTypeOK
        <5>. QED
          BY <3>2, <5>1
      <4>2. Len(announced') = Len(announced) - 1 /\ announced'[Len(announced) - 1] = announced[Len(announced)]
        BY <2>1, <4>1 DEF SettingsTypeOK
      <4>3. announced' # <<>>
        BY <4>1, <4>2
      <4>. QED
        BY <2>1, <4>2, <4>3 DEF Told
    <3>. QED
      BY <3>1, <3>2
  <2>. QED
    BY <2>1, <2>2
<1>5. CASE Edit \/ PickInterval
  BY <1>5 DEF Edit, PickInterval, Send, Told
<1>. QED
  BY <1>1, <1>2, <1>3, <1>4, <1>5 DEF SettingsNext

\* main takes the calls in their order: the head leaves, and what it names and no
\* later call names has its value in force.
LEMMA LastWinsSet ==
  ASSUME SettingsTypeOK, LastWins, Set
  PROVE  LastWins'
<1>. SUFFICES ASSUME ~raced, NEW f \in Fields
              PROVE  /\ (\A i \in DOMAIN calls' : ~Named(f, i)') => cached'[f] = wish[f]
                     /\ \A i \in DOMAIN calls' :
                          Named(f, i)' /\ (\A j \in DOMAIN calls' : j > i => ~Named(f, j)')
                            => calls'[i][f] = wish[f]
  BY DEF Set, LastWins
<1>. DEFINE n == Len(calls)
<1>1. /\ up /\ n \in Nat /\ n > 0 /\ DOMAIN calls = 1 .. n /\ calls[1] = Head(calls)
      /\ DOMAIN calls' = 1 .. n - 1 /\ \A i \in 1 .. n - 1 : calls'[i] = calls[i + 1]
  <2>1. up /\ calls # <<>> /\ calls' = Tail(calls)
    BY DEF Set
  <2>2. n \in Nat \ {0}
    BY <2>1, EmptySeq DEF SettingsTypeOK
  <2>. QED
    BY <2>1, <2>2 DEF SettingsTypeOK
<1>. HIDE DEF n
<1>2. /\ (\A i \in 1 .. n : ~Named(f, i)) => cached[f] = wish[f]
      /\ \A i \in 1 .. n : Named(f, i) /\ (\A j \in 1 .. n : j > i => ~Named(f, j))
                             => calls[i][f] = wish[f]
  BY <1>1 DEF LastWins
<1>3. \A i \in 1 .. n - 1 : i + 1 \in 1 .. n /\ (Named(f, i)' <=> Named(f, i + 1))
  BY <1>1 DEF Named
<1>4. cached'[f] = IF Named(f, 1) THEN calls[1][f] ELSE cached[f]
  <2>1. cached' = Merged(cached, calls[1])
    BY <1>1 DEF Set
  <2>2. DOMAIN cached = Fields
    BY DEF SettingsTypeOK, Form, Fields
  <2>. QED
    BY <1>1, <2>1, <2>2 DEF Merged, Named
<1>5. ASSUME \A i \in 1 .. n - 1 : ~Named(f, i)' PROVE cached'[f] = wish[f]
  <2>1. \A j \in 1 .. n : j > 1 => ~Named(f, j)
    <3>1. ASSUME NEW j \in 1 .. n, j > 1 PROVE j - 1 \in 1 .. n - 1 /\ (j - 1) + 1 = j
      BY <1>1, <3>1
    <3>. QED
      BY <1>3, <1>5, <3>1
  <2>2. CASE Named(f, 1)
    BY <1>1, <1>2, <1>4, <2>1, <2>2
  <2>3. CASE ~Named(f, 1)
    <3>1. \A i \in 1 .. n : i = 1 \/ i > 1
      BY <1>1
    <3>. QED
      BY <1>2, <1>4, <2>1, <2>3, <3>1
  <2>. QED
    BY <2>2, <2>3
<1>6. ASSUME NEW i \in 1 .. n - 1, Named(f, i)', \A j \in 1 .. n - 1 : j > i => ~Named(f, j)'
      PROVE  calls'[i][f] = wish[f]
  <2>1. \A j \in 1 .. n : j > i + 1 => ~Named(f, j)
    <3>1. ASSUME NEW j \in 1 .. n, j > i + 1
          PROVE  j - 1 \in 1 .. n - 1 /\ j - 1 > i /\ (j - 1) + 1 = j
      BY <1>1, <3>1
    <3>. QED
      BY <1>3, <1>6, <3>1
  <2>. QED
    BY <1>1, <1>2, <1>3, <1>6, <2>1
<1>. QED
  BY <1>1, <1>5, <1>6

\* A new call is the last to name its fields.
LEMMA LastWinsAppend ==
  ASSUME SettingsTypeOK, NEW p \in Patches, calls' = Append(calls, p), UNCHANGED cached,
         NEW f \in Fields,
         f \in DOMAIN p => p[f] = wish'[f],
         f \notin DOMAIN p =>
           /\ (\A i \in DOMAIN calls : ~Named(f, i)) => cached[f] = wish'[f]
           /\ \A i \in DOMAIN calls : Named(f, i) /\ (\A j \in DOMAIN calls : j > i => ~Named(f, j))
                                        => calls[i][f] = wish'[f]
  PROVE  /\ (\A i \in DOMAIN calls' : ~Named(f, i)') => cached'[f] = wish'[f]
         /\ \A i \in DOMAIN calls' :
              Named(f, i)' /\ (\A j \in DOMAIN calls' : j > i => ~Named(f, j)')
                => calls'[i][f] = wish'[f]
<1>0. PICK n \in Nat : n = Len(calls)
  BY DEF SettingsTypeOK
<1>1. /\ DOMAIN calls = 1 .. n /\ DOMAIN calls' = 1 .. n + 1 /\ calls'[n + 1] = p
      /\ \A i \in 1 .. n : calls'[i] = calls[i]
  BY <1>0 DEF SettingsTypeOK
<1>2. /\ \A i \in 1 .. n : Named(f, i)' <=> Named(f, i)
      /\ Named(f, n + 1)' <=> f \in DOMAIN p
  BY <1>1 DEF Named
<1>3. \A i \in 1 .. n + 1 : i \in 1 .. n \/ i = n + 1
  BY <1>1
<1>4. n + 1 \in 1 .. n + 1 /\ (\A i \in 1 .. n : n + 1 > i /\ i \in 1 .. n + 1)
  BY <1>1
<1>5. CASE f \in DOMAIN p
  BY <1>1, <1>2, <1>3, <1>4, <1>5
<1>6. CASE f \notin DOMAIN p
  <2>1. \A i \in 1 .. n + 1 : Named(f, i)' => i \in 1 .. n /\ Named(f, i)
    BY <1>2, <1>3, <1>6
  <2>. QED
    BY <1>1, <1>2, <1>3, <1>4, <1>6, <2>1
<1>. QED
  BY <1>5, <1>6

\* When no call is on its way, main holds the user's last values.
LEMMA AllInForce ==
  ASSUME SettingsTypeOK, LastWins, up, calls = <<>>, ~raced
  PROVE  cached = wish
<1>1. \A f \in Fields : cached[f] = wish[f]
  BY DEF LastWins
<1>. QED
  BY <1>1, FormEqual DEF SettingsTypeOK

\* An app that stops with everything written leaves the edits in its file.
LEMMA KeptStep ==
  ASSUME SettingsTypeOK, Kept, LastWins, FileCurrent, SettingsNext
  PROVE  Kept'
<1>1. CASE Stop
  <2>. SUFFICES ASSUME wish' # NoFile PROVE disk' = wish'
    BY DEF Kept
  <2>1. up /\ calls = <<>> /\ ~raced /\ ~unsaved /\ wish' = wish /\ disk' = disk
    BY <1>1 DEF Stop
  <2>. QED
    BY <2>1, AllInForce DEF FileCurrent
<1>2. CASE Set \/ Load \/ Edit \/ PickInterval
  <2>1. up' = TRUE \/ (up /\ up' = up)
    BY <1>2 DEF Set, Load, Edit, PickInterval, Send
  <2>. QED
    BY <2>1 DEF Kept
<1>3. CASE Receive
  BY <1>3 DEF Receive, Kept
<1>. QED
  BY <1>1, <1>2, <1>3 DEF SettingsNext

LEMMA LastWinsStep ==
  ASSUME SettingsTypeOK, DownIsQuiet, Kept, ToldLast, LastWins, SettingsNext
  PROVE  LastWins'
<1>1. CASE Set
  BY <1>1, LastWinsSet
<1>2. CASE Stop
  BY <1>2 DEF Stop, LastWins
<1>3. CASE Load
  <2>1. cached' = wish' /\ calls' = <<>>
    BY <1>3 DEF Load, Restored, Initialised, DownIsQuiet, Kept
  <2>. QED
    BY <2>1 DEF LastWins, Named
<1>4. CASE Receive
  BY <1>4 DEF Receive, LastWins, Named
<1>5. CASE Edit
  \* Sent from a copy that is in force, the block repeats what it does not change.
  <2>. SUFFICES ASSUME ~raced' PROVE LastWins'
    BY DEF LastWins
  <2>1. PICK field \in {"url", "team"} : \E v \in ValuesOf(field) :
               /\ calls' = Append(calls, PatchOf(field, v))
               /\ PatchOf(field, v) \in Patches /\ DOMAIN PatchOf(field, v) = Block
               /\ wish' = [wish EXCEPT ![field] = v]
    BY <1>5, EditMeans
  <2>2. PICK v \in ValuesOf(field) :
               /\ calls' = Append(calls, PatchOf(field, v))
               /\ PatchOf(field, v) \in Patches /\ DOMAIN PatchOf(field, v) = Block
               /\ wish' = [wish EXCEPT ![field] = v]
    BY <2>1
  <2>3. up /\ ~raced /\ calls = <<>> /\ copy = cached /\ UNCHANGED cached
    BY <1>5, EditMeans DEF ToldLast, Told
  <2>4. \A f \in Fields : cached[f] = wish[f]
    BY <2>3 DEF LastWins
  <2>5. \A f \in Fields : wish'[f] = IF f = field THEN v ELSE wish[f]
    <3>1. \A f \in Fields : [wish EXCEPT ![field] = v][f] = IF f = field THEN v ELSE wish[f]
      BY <2>3, WishType
    <3>. QED
      BY <2>2, <3>1
  <2>6. \A f \in Block : PatchOf(field, v)[f] = IF f = field THEN v ELSE copy[f]
    BY DEF PatchOf
  <2>7. ASSUME NEW f \in Fields
        PROVE  /\ (\A i \in DOMAIN calls' : ~Named(f, i)') => cached'[f] = wish'[f]
               /\ \A i \in DOMAIN calls' :
                    Named(f, i)' /\ (\A j \in DOMAIN calls' : j > i => ~Named(f, j)')
                      => calls'[i][f] = wish'[f]
    <3>1. f \in Block => PatchOf(field, v)[f] = wish'[f]
      BY <2>3, <2>4, <2>5, <2>6
    <3>2. f \notin Block => cached[f] = wish'[f]
      BY <2>4, <2>5 DEF Block
    <3>3. DOMAIN calls = {}
      BY <2>3
    <3>. QED
      BY <2>2, <2>3, <3>1, <3>2, <3>3, LastWinsAppend
  <2>. QED
    BY <2>7 DEF LastWins
<1>6. CASE PickInterval
  <2>. SUFFICES ASSUME ~raced' PROVE LastWins'
    BY DEF LastWins
  <2>1. PICK ms \in Every : /\ Send([refreshEvery |-> ms, syncEvery |-> ms])
                            /\ wish' = [wish EXCEPT !.refreshEvery = ms, !.syncEvery = ms]
                            /\ UNCHANGED raced
    BY <1>6 DEF PickInterval
  <2>. DEFINE p == [refreshEvery |-> ms, syncEvery |-> ms]
  <2>2. /\ up /\ ~raced /\ calls' = Append(calls, p) /\ UNCHANGED cached
        /\ p \in Patches /\ DOMAIN p = {"refreshEvery", "syncEvery"}
        /\ p["refreshEvery"] = ms /\ p["syncEvery"] = ms
    BY <2>1, PatchType DEF Send
  <2>. HIDE DEF p
  <2>3. \A f \in Fields : wish'[f] = IF f \in {"refreshEvery", "syncEvery"} THEN ms ELSE wish[f]
    BY <2>1, <2>2, WishType
  <2>4. ASSUME NEW f \in Fields
        PROVE  /\ (\A i \in DOMAIN calls' : ~Named(f, i)') => cached'[f] = wish'[f]
               /\ \A i \in DOMAIN calls' :
                    Named(f, i)' /\ (\A j \in DOMAIN calls' : j > i => ~Named(f, j)')
                      => calls'[i][f] = wish'[f]
    <3>1. f \in DOMAIN p => p[f] = wish'[f]
      BY <2>2, <2>3
    <3>2. f \notin DOMAIN p => wish'[f] = wish[f]
      BY <2>2, <2>3
    <3>3. /\ (\A i \in DOMAIN calls : ~Named(f, i)) => cached[f] = wish[f]
          /\ \A i \in DOMAIN calls : Named(f, i) /\ (\A j \in DOMAIN calls : j > i => ~Named(f, j))
                                       => calls[i][f] = wish[f]
      BY <2>2 DEF LastWins
    <3>. QED
      BY <2>2, <3>1, <3>2, <3>3, LastWinsAppend
  <2>. QED
    BY <2>4 DEF LastWins
<1>. QED
  BY <1>1, <1>2, <1>3, <1>4, <1>5, <1>6 DEF SettingsNext

LEMMA SettingsInvInit == SettingsInit => SettingsInv
<1>. SUFFICES ASSUME SettingsInit PROVE SettingsInv
  OBVIOUS
<1>1. SettingsTypeOK
  BY DefaultsType, EmptySeq DEF SettingsInit, SettingsTypeOK
<1>2. DownIsQuiet /\ LastFollows /\ ToldLast /\ LastWins /\ Kept /\ WiringFollows /\ FileCurrent
  BY DEF SettingsInit, DownIsQuiet, LastFollows, ToldLast, LastWins, Kept, WiringFollows, FileCurrent
<1>. QED
  BY <1>1, <1>2 DEF SettingsInv

LEMMA SettingsInvStep == SettingsInv /\ [SettingsNext]_settingsVars => SettingsInv'
<1>. SUFFICES ASSUME SettingsInv, [SettingsNext]_settingsVars PROVE SettingsInv'
  OBVIOUS
<1>1. CASE SettingsNext
  BY <1>1, SettingsTypeStep, WiringStep, ToldStep, KeptStep, LastWinsStep DEF SettingsInv
<1>2. CASE UNCHANGED settingsVars
  BY <1>2 DEF settingsVars, SettingsInv, SettingsTypeOK, DownIsQuiet, LastFollows, ToldLast, Told,
              LastWins, Named, Kept, WiringFollows, FileCurrent
<1>. QED
  BY <1>1, <1>2

(***************************************************************************)
(* Whatever edits, broadcasts, failed writes and restarts do, the queue    *)
(* and the timers run with the settings in force; the user's last values   *)
(* survive, restarts included, unless an edit was made on an outdated      *)
(* copy, its write failed or died, or the file could not be read; the      *)
(* window shows the settings in force, and the file holds them unless its  *)
(* last write failed, the first of a start included (store.ts, index.ts,   *)
(* SettingsTab.tsx).                                                       *)
(***************************************************************************)
THEOREM SettingsAreSound == SettingsSpec => []SettingsSound
<1>1. SettingsInv => SettingsSound
  <2>. SUFFICES ASSUME SettingsInv PROVE SettingsSound
    OBVIOUS
  <2>1. EditsSurvive
    BY AllInForce DEF EditsSurvive, SettingsInv
  <2>2. WindowCurrent
    BY DEF SettingsInv, ToldLast, Told, WindowCurrent
  <2>. QED
    BY <2>1, <2>2 DEF SettingsInv, SettingsSound
<1>. QED
  BY <1>1, SettingsInvInit, SettingsInvStep, PTL DEF SettingsSpec

(***************************************************************************)
(* Views.                                                                  *)
(***************************************************************************)
Read(c)     == requests[c] # NoRequest /\ requests[c].read # Unread
Answers     == [of : Selection \cup {SyncOff}, read : 0 .. MaxData]
Outstanding == [of : Selection \cup {SyncOff}, read : 0 .. MaxData + 1]

ViewTypeOK ==
  /\ view \in ViewKind /\ data \in 0 .. MaxData /\ want \in Selection \cup {SyncOff}
  /\ told \in BOOLEAN /\ timer \in BOOLEAN
  /\ unseen \in BOOLEAN /\ failed \in BOOLEAN /\ overtaken \in BOOLEAN
  /\ shown \in Answers \cup {Nothing}
  /\ requests \in [Call -> Outstanding \cup {NoRequest}]

\* Nobody has read a version that is not there yet.
Versions ==
  /\ shown # Nothing => shown.read <= data
  /\ \A c \in Call : Read(c) => requests[c].read <= data

Broadcasts == (told => view \in Announced) /\ (timer => view = "app")

\* An account row has one request at most, for what is selected, and what it read
\* is no older than what is shown.
OneRequest ==
  view \in Cancelled => \A c \in Call : requests[c] # NoRequest =>
    /\ requests[c].of = want /\ want # SyncOff
    /\ \A d \in Call : requests[d] # NoRequest => d = c
    /\ Read(c) /\ shown # Nothing => shown.read <= requests[c].read

\* Someone will bring the present data of what is selected, or it is shown.
Fresh(c) == requests[c] # NoRequest /\ requests[c].of = want /\ requests[c].read \in {Unread, data}
Covered ==
  want # SyncOff /\ ~unseen /\ ~failed =>
    \/ told \/ timer \/ overtaken
    \/ \E c \in Call : Fresh(c)
    \/ shown = [of |-> want, read |-> data]

ViewInv == ViewTypeOK /\ Versions /\ Broadcasts /\ OneRequest /\ Covered /\ SelectionKept

-----------------------------------------------------------------------------
LEMMA NotARecord ==
  /\ NoRequest \notin Outstanding /\ Nothing \notin Answers
  /\ MaxData \in Nat /\ Unread \notin 0 .. MaxData /\ Unread \in 0 .. MaxData + 1
  /\ \A a \in Outstanding : a.read # Unread => a \in Answers
BY ViewAssumption DEF NoRequest, Nothing, Outstanding, Answers, Unread

\* A request that begins is fresh, and the others are as they were.
LEMMA BeginMeans ==
  ASSUME NEW base \in [Call -> Outstanding \cup {NoRequest}], NEW s \in Selection \cup {SyncOff},
         Begin(base, s)
  PROVE  /\ failed' = FALSE /\ unseen' = FALSE
         /\ requests' \in [Call -> Outstanding \cup {NoRequest}]
         /\ \E c \in Call :
              /\ requests'[c] = [of |-> s, read |-> Unread] /\ requests'[c] # NoRequest
              /\ \A d \in Call : d # c => requests'[d] = base[d]
<1>1. PICK c \in Call : requests' = [base EXCEPT ![c] = [of |-> s, read |-> Unread]]
  BY DEF Begin
<1>2. [of |-> s, read |-> Unread] \in Outstanding
  BY NotARecord DEF Outstanding
<1>. QED
  BY <1>1, <1>2, NotARecord DEF Begin

LEMMA NoneLeft == Superseded \in [Call -> Outstanding \cup {NoRequest}]
BY DEF Superseded

\* The steps that ask again, for what is then selected.
LEMMA ReloadStep ==
  ASSUME ViewTypeOK, Versions, view \notin Cancelled,
         want' \in Selection \cup {SyncOff}, Begin(requests, want'),
         UNCHANGED <<view, shown, overtaken>>, data' \in data .. MaxData,
         told' \in BOOLEAN, timer' \in BOOLEAN, Broadcasts'
  PROVE  ViewInv'
<1>1. PICK c \in Call :
             /\ requests'[c] = [of |-> want', read |-> Unread] /\ requests'[c] # NoRequest
             /\ \A d \in Call : d # c => requests'[d] = requests[d]
  BY BeginMeans DEF ViewTypeOK
<1>2. ViewTypeOK'
  <2>1. data' \in 0 .. MaxData
    BY NotARecord DEF ViewTypeOK
  <2>2. requests' \in [Call -> Outstanding \cup {NoRequest}] /\ failed' = FALSE /\ unseen' = FALSE
    BY BeginMeans DEF ViewTypeOK
  <2>. QED
    BY <2>1, <2>2 DEF ViewTypeOK
<1>3. Versions'
  <2>0. data \in Int /\ data' \in Int /\ data <= data'
    BY NotARecord DEF ViewTypeOK
  <2>1. shown' # Nothing => shown'.read <= data'
    BY <2>0 DEF Versions, ViewTypeOK, Answers
  <2>2. ASSUME NEW d \in Call, Read(d)' PROVE requests'[d].read <= data'
    <3>1. requests'[d] = requests[d] /\ Read(d)
      BY <1>1, <2>2 DEF Read
    <3>2. requests[d].read \in Int
      BY <3>1 DEF Read, ViewTypeOK, Outstanding
    <3>. QED
      BY <2>0, <3>1, <3>2 DEF Versions
  <2>. QED
    BY <2>1, <2>2 DEF Versions
<1>4. Covered'
  BY <1>1 DEF Covered, Fresh
<1>. QED
  BY <1>2, <1>3, <1>4 DEF ViewInv, OneRequest, SelectionKept

\* The effects of the account rows drop what was under way before they ask.
LEMMA EffectStep ==
  ASSUME ViewTypeOK, Versions, Broadcasts, SelectionKept, view \in Cancelled,
         NEW base \in [Call -> {NoRequest}], NEW s \in Selection, Begin(base, s), want' = s,
         UNCHANGED <<view, data, told, timer, shown, overtaken>>
  PROVE  ViewInv'
<1>0. base \in [Call -> Outstanding \cup {NoRequest}] /\ s # SyncOff /\ s \in Selection \cup {SyncOff}
  BY ViewAssumption
<1>1. PICK c \in Call :
             /\ requests'[c] = [of |-> s, read |-> Unread] /\ requests'[c] # NoRequest
             /\ \A d \in Call : d # c => requests'[d] = NoRequest
  <2>1. PICK c \in Call :
               /\ requests'[c] = [of |-> s, read |-> Unread] /\ requests'[c] # NoRequest
               /\ \A d \in Call : d # c => requests'[d] = base[d]
    BY <1>0, BeginMeans
  <2>. QED
    BY <2>1
<1>2. ViewTypeOK'
  BY <1>0, BeginMeans DEF ViewTypeOK
<1>3. Versions' /\ OneRequest'
  BY <1>0, <1>1 DEF Versions, Read, OneRequest
<1>4. Covered'
  BY <1>1 DEF Covered, Fresh
<1>5. Broadcasts' /\ SelectionKept'
  BY <1>0 DEF Broadcasts, SelectionKept
<1>. QED
  BY <1>2, <1>3, <1>4, <1>5 DEF ViewInv

LEMMA ServeStep ==
  ASSUME ViewInv, NEW c \in Call, Serve(c)
  PROVE  ViewInv'
<1>. USE DEF ViewInv
<1>1. /\ requests[c] # NoRequest /\ requests[c].read = Unread /\ requests[c] \in Outstanding
      /\ UNCHANGED <<view, data, told, timer, want, shown, unseen, failed, overtaken>>
  BY DEF Serve, ViewTypeOK
<1>2. PICK s \in Selection \cup {SyncOff} :
             /\ s \in {want, requests[c].of}
             /\ requests' = [requests EXCEPT ![c] = [of |-> s, read |-> data]]
  BY <1>1 DEF Serve, ViewTypeOK, Outstanding
<1>3. /\ [of |-> s, read |-> data] \in Answers /\ [of |-> s, read |-> data] \in Outstanding
      /\ [of |-> s, read |-> data] # NoRequest
  BY NotARecord DEF ViewTypeOK, Answers, Outstanding
<1>4. /\ requests'[c] = [of |-> s, read |-> data]
      /\ \A d \in Call : d # c => requests'[d] = requests[d]
  BY <1>2 DEF ViewTypeOK
<1>5. ViewTypeOK'
  BY <1>1, <1>2, <1>3 DEF ViewTypeOK
<1>6. Versions'
  BY <1>1, <1>4 DEF Versions, Read, ViewTypeOK
<1>7. OneRequest'
  <2>. SUFFICES ASSUME view \in Cancelled, NEW d \in Call, requests'[d] # NoRequest
                PROVE  /\ requests'[d].of = want /\ want # SyncOff
                       /\ \A e \in Call : requests'[e] # NoRequest => e = d
                       /\ Read(d)' /\ shown # Nothing => shown.read <= requests'[d].read
    BY <1>1 DEF OneRequest
  <2>1. d = c /\ requests[c].of = want /\ want # SyncOff
    BY <1>1, <1>4 DEF OneRequest
  <2>2. requests'[d].of = want /\ requests'[d].read = data
    BY <1>2, <1>4, <2>1
  <2>3. \A e \in Call : requests'[e] # NoRequest => e = d
    BY <1>1, <1>4, <2>1 DEF OneRequest
  <2>. QED
    BY <2>1, <2>2, <2>3 DEF Versions
<1>8. Covered'
  <2>1. \A d \in Call : Fresh(d) => Fresh(d)'
    <3>1. Fresh(c) => Fresh(c)'
      BY <1>1, <1>2, <1>3, <1>4 DEF Fresh
    <3>. QED
      BY <1>1, <1>4, <3>1 DEF Fresh
  <2>. QED
    BY <1>1, <2>1 DEF Covered
<1>9. Broadcasts' /\ SelectionKept'
  BY <1>1 DEF Broadcasts, SelectionKept
<1>. QED
  BY <1>5, <1>6, <1>7, <1>8, <1>9

\* An answer of the present data is shown and ends what was overtaken; any other
\* is older than one before it, or another is under way.
LEMMA ShowStep ==
  ASSUME ViewInv, NEW c \in Call, ShowAnswer(c)
  PROVE  ViewInv'
<1>. USE DEF ViewInv
<1>1. /\ requests[c] # NoRequest /\ requests[c].read # Unread /\ shown' = requests[c]
      /\ UNCHANGED <<view, data, told, timer, want, unseen, failed>>
      /\ requests' = [requests EXCEPT ![c] = NoRequest]
  BY DEF ShowAnswer
<1>2. requests[c] \in Answers /\ requests[c].read \in Int /\ data \in Int
  BY <1>1, NotARecord DEF ViewTypeOK, Answers
<1>3. requests'[c] = NoRequest /\ \A d \in Call : d # c => requests'[d] = requests[d]
  BY <1>1 DEF ViewTypeOK
<1>4. overtaken' <=> \/ requests[c].of # want
                     \/ Older(requests[c], shown)
                     \/ overtaken /\ requests[c].read # data
  BY DEF ShowAnswer
<1>5. ViewTypeOK'
  <2>1. overtaken' \in BOOLEAN
    BY DEF ShowAnswer
  <2>2. requests' \in [Call -> Outstanding \cup {NoRequest}]
    BY <1>1 DEF ViewTypeOK
  <2>. QED
    BY <1>1, <1>2, <2>1, <2>2 DEF ViewTypeOK
<1>6. Versions'
  BY <1>1, <1>3 DEF Versions, Read
<1>7. OneRequest' /\ SelectionKept'
  <2>. SUFFICES ASSUME view \in Cancelled PROVE OneRequest' /\ SelectionKept'
    BY <1>1 DEF OneRequest, SelectionKept
  <2>1. \A d \in Call : requests'[d] = NoRequest
    BY <1>1, <1>3 DEF OneRequest
  <2>2. requests[c].of = want /\ want # SyncOff /\ ~overtaken
    BY <1>1 DEF OneRequest, SelectionKept
  <2>3. shown # Nothing => shown.read <= requests[c].read /\ shown.read \in Int
    BY <1>1 DEF OneRequest, Read, ViewTypeOK, Answers
  <2>4. ~Older(requests[c], shown)
    BY <1>2, <2>3 DEF Older
  <2>. QED
    BY <1>1, <1>4, <2>1, <2>2, <2>4 DEF OneRequest, SelectionKept
<1>8. Covered'
  <2>. SUFFICES ASSUME want # SyncOff, ~unseen, ~failed, ~told, ~timer, ~overtaken',
                       ~ \E d \in Call : Fresh(d)'
                PROVE  shown' = [of |-> want, read |-> data]
    BY <1>1 DEF Covered
  <2>1. \A d \in Call : Fresh(d) => d = c
    BY <1>1, <1>3 DEF Fresh
  <2>2. requests[c].of = want
    BY <1>4
  <2>3. CASE requests[c].read = data
    BY <1>1, <1>2, <2>2, <2>3 DEF Answers
  <2>4. CASE requests[c].read # data
    <3>1. ~overtaken /\ ~Fresh(c)
      BY <1>1, <1>4, <2>4 DEF Fresh
    <3>2. shown = [of |-> want, read |-> data]
      BY <2>1, <3>1 DEF Covered
    <3>3. requests[c].read < data
      BY <1>1, <1>2, <2>4 DEF Versions, Read
    <3>4. Older(requests[c], shown)
      BY <1>1, <3>2, <3>3 DEF Older, Nothing, NoRequest
    <3>. QED
      BY <1>4, <3>4
  <2>. QED
    BY <2>3, <2>4
<1>9. Broadcasts'
  BY <1>1 DEF Broadcasts
<1>. QED
  BY <1>5, <1>6, <1>7, <1>8, <1>9

LEMMA RequestFailsStep ==
  ASSUME ViewInv, NEW c \in Call, RequestFails(c)
  PROVE  ViewInv'
<1>. USE DEF ViewInv
<1>1. /\ shown' \in {shown, Nothing} /\ (view \in Cancelled => shown' = Nothing) /\ failed'
      /\ failed' \in BOOLEAN
      /\ UNCHANGED <<view, data, told, timer, want, unseen, overtaken>>
      /\ requests' = [requests EXCEPT ![c] = NoRequest]
  BY DEF RequestFails, Remote, Cancelled
<1>2. requests'[c] = NoRequest /\ \A d \in Call : d # c => requests'[d] = requests[d]
  BY <1>1 DEF ViewTypeOK
<1>3. ViewTypeOK'
  BY <1>1 DEF ViewTypeOK
<1>4. Versions' /\ OneRequest'
  BY <1>1, <1>2 DEF Versions, OneRequest, Read
<1>5. Covered' /\ Broadcasts' /\ SelectionKept'
  BY <1>1 DEF Covered, Broadcasts, SelectionKept
<1>. QED
  BY <1>3, <1>4, <1>5

\* A change is announced, or unseen: one of the data, and an action of the
\* administrator whose answer is lost.
LEMMA DataStep ==
  ASSUME ViewInv, data < MaxData, data' = data + 1, Broadcast \/ Unannounced,
         UNCHANGED <<view, timer, want, shown, requests, failed, overtaken>>
  PROVE  ViewInv'
<1>. USE DEF ViewInv
<1>1. /\ data \in Int /\ data' = data + 1 /\ data' \in 0 .. MaxData
      /\ \/ told' = TRUE /\ view \in Announced /\ unseen' = unseen
         \/ unseen' = TRUE /\ told' = told
  BY NotARecord DEF Broadcast, Unannounced, ViewTypeOK
<1>2. ViewTypeOK'
  BY <1>1 DEF ViewTypeOK
<1>3. Versions'
  <2>1. shown # Nothing => shown.read \in Int
    BY DEF ViewTypeOK, Answers
  <2>2. \A c \in Call : requests[c] # NoRequest => requests[c].read \in Int
    BY DEF ViewTypeOK, Outstanding
  <2>. QED
    BY <1>1, <2>1, <2>2 DEF Versions, Read
<1>4. OneRequest' /\ Covered' /\ Broadcasts' /\ SelectionKept'
  BY <1>1 DEF OneRequest, Read, Covered, Broadcasts, SelectionKept
<1>. QED
  BY <1>2, <1>3, <1>4

LEMMA ViewInvStep == ViewInv /\ [ViewNext]_viewVars => ViewInv'
<1>. SUFFICES ASSUME ViewInv, [ViewNext]_viewVars PROVE ViewInv'
  OBVIOUS
<1>. USE DEF ViewInv
<1>0. data \in data .. MaxData /\ Announced \cap Cancelled = {} /\ "app" \in Announced
  BY NotARecord DEF ViewTypeOK, Announced, Cancelled
<1>1. CASE DataChanges
  BY <1>1, DataStep DEF DataChanges
<1>2. CASE Hear
  <2>1. told /\ view \in Announced
    BY <1>2 DEF Hear, Broadcasts
  <2>2. CASE view = "app"
    <3>1. told' = FALSE /\ timer' = TRUE
          /\ UNCHANGED <<view, data, want, shown, requests, unseen, failed, overtaken>>
      BY <1>2, <2>2 DEF Hear
    <3>. QED
      BY <2>2, <3>1 DEF ViewTypeOK, Versions, Read, OneRequest, Covered, Broadcasts, SelectionKept
  <2>3. CASE view # "app"
    <3>1. /\ Begin(requests, want) /\ told' = FALSE
          /\ UNCHANGED <<view, data, timer, want, shown, overtaken>>
      BY <1>2, <2>3 DEF Hear, Reload
    <3>. QED
      BY <1>0, <2>1, <3>1, ReloadStep DEF ViewTypeOK, Broadcasts
  <2>. QED
    BY <2>2, <2>3
<1>3. CASE TimerFires
  <2>1. /\ view = "app" /\ Begin(requests, want) /\ timer' = FALSE
        /\ UNCHANGED <<view, data, told, want, shown, overtaken>>
    BY <1>3 DEF TimerFires, Reload, Broadcasts
  <2>. QED
    BY <1>0, <2>1, ReloadStep DEF ViewTypeOK, Broadcasts
<1>4. CASE Poll
  <2>1. requests \in [Call -> {NoRequest}] /\ want \in Selection
    BY <1>4 DEF Poll, ViewTypeOK
  <2>. QED
    BY <1>4, <2>1, EffectStep DEF Poll, Reload
<1>5. CASE Rerender
  <2>1. Superseded \in [Call -> {NoRequest}] /\ want \in Selection /\ view \in Cancelled
    BY <1>5 DEF Rerender, Superseded, ViewTypeOK, Cancelled
  <2>. QED
    BY <1>5, <2>1, EffectStep DEF Rerender
<1>6. CASE Select
  <2>1. PICK s \in Selection \cup {SyncOff} :
               /\ s # want /\ want' = s
               /\ view \in Cancelled /\ s = SyncOff =>
                    requests' = Superseded /\ shown' = Nothing /\ unseen' = FALSE /\ UNCHANGED failed
               /\ view \in Cancelled /\ s # SyncOff =>
                    Begin(Superseded, s) /\ UNCHANGED shown
               /\ view = "alerts" /\ s # SyncOff => Begin(requests, s) /\ UNCHANGED shown
               /\ view = "team" /\ s # SyncOff =>
                    unseen' = TRUE /\ UNCHANGED <<requests, shown, failed>>
               /\ view \in Cancelled \/ (view \in {"alerts", "team"} /\ s # SyncOff)
    BY <1>6 DEF Select, Cancelled
  <2>2. UNCHANGED <<view, data, told, timer, overtaken>>
    BY <1>6 DEF Select
  <2>3. CASE view \in Cancelled /\ s = SyncOff
    <3>1. requests' = Superseded /\ shown' = Nothing /\ unseen' = FALSE /\ UNCHANGED failed
      BY <2>1, <2>3
    <3>. QED
      BY <2>1, <2>2, <2>3, <3>1, NoneLeft
         DEF ViewTypeOK, Versions, Read, OneRequest, Covered, Broadcasts, SelectionKept, Superseded
  <2>4. CASE view \in Cancelled /\ s # SyncOff
    <3>0. s \in Selection
      BY <2>1, <2>4
    <3>1. Begin(Superseded, s) /\ UNCHANGED shown
      BY <2>1, <2>4
    <3>2. Superseded \in [Call -> {NoRequest}]
      BY DEF Superseded
    <3>. QED
      BY <2>1, <2>2, <2>4, <3>0, <3>1, <3>2, EffectStep
  <2>5. CASE view = "alerts" /\ s # SyncOff
    BY <1>0, <2>1, <2>2, <2>5, ReloadStep DEF ViewTypeOK, Broadcasts, Cancelled
  <2>6. CASE view = "team" /\ s # SyncOff
    BY <2>1, <2>2, <2>6
       DEF ViewTypeOK, Versions, Read, OneRequest, Covered, Broadcasts, SelectionKept, Cancelled
  <2>. QED
    BY <2>1, <2>3, <2>4, <2>5, <2>6
<1>7. CASE Manage
  <2>0. /\ view = "team" /\ data < MaxData /\ data' = data + 1
        /\ UNCHANGED <<view, told, timer, want, shown, overtaken>>
    BY <1>7 DEF Manage, CallManage
  <2>1. CASE Reload
    <3>1. data' \in data .. MaxData
      BY <2>0, NotARecord DEF ViewTypeOK
    <3>. QED
      BY <2>0, <2>1, <3>1, ReloadStep DEF Reload, ViewTypeOK, Broadcasts, Cancelled
  <2>2. CASE Unannounced /\ UNCHANGED <<requests, failed>>
    BY <2>0, <2>2, DataStep
  <2>. QED
    BY <1>7, <2>1, <2>2 DEF Manage
<1>8. CASE Retry
  BY <1>0, <1>8, ReloadStep DEF Retry, Reload, ViewTypeOK, Broadcasts, Cancelled
<1>9. ASSUME NEW c \in Call, Serve(c) \/ ShowAnswer(c) \/ RequestFails(c) PROVE ViewInv'
  BY <1>9, ServeStep, ShowStep, RequestFailsStep
<1>10. CASE UNCHANGED viewVars
  BY <1>10 DEF viewVars, ViewTypeOK, Versions, Read, OneRequest, Covered, Fresh, Broadcasts, SelectionKept
<1>. QED
  BY <1>1, <1>2, <1>3, <1>4, <1>5, <1>6, <1>7, <1>8, <1>9, <1>10 DEF ViewNext

LEMMA ViewInvInit == ViewInit => ViewInv
<1>. SUFFICES ASSUME ViewInit PROVE ViewInv
  OBVIOUS
<1>1. PICK c \in Call : c = CHOOSE d \in Call : TRUE
  BY ViewAssumption
<1>2. want \in Selection /\ want # SyncOff /\ 0 \in 0 .. MaxData
  BY ViewAssumption DEF ViewInit
<1>3. [of |-> want, read |-> Unread] \in Outstanding /\ [of |-> want, read |-> Unread] # NoRequest
  BY <1>2, NotARecord DEF Outstanding
<1>4. /\ requests[c] = [of |-> want, read |-> Unread]
      /\ \A d \in Call : d # c => requests[d] = NoRequest
  BY <1>1 DEF ViewInit
<1>5. ViewTypeOK
  BY <1>1, <1>2, <1>3 DEF ViewInit, ViewTypeOK
<1>6. Versions /\ OneRequest
  BY <1>2, <1>3, <1>4 DEF ViewInit, Versions, OneRequest, Read
<1>7. Covered
  BY <1>3, <1>4 DEF Covered, Fresh
<1>8. Broadcasts /\ SelectionKept
  BY DEF ViewInit, Broadcasts, SelectionKept
<1>. QED
  BY <1>5, <1>6, <1>7, <1>8 DEF ViewInv

(***************************************************************************)
(* However many requests are under way and in whatever order they are      *)
(* answered, a view at rest shows the present data of what is selected, or *)
(* one of the named reasons not to holds; an account row never shows what  *)
(* the user left (App.tsx, OverviewTab.tsx, WebDashboard.tsx, AlertsTab,   *)
(* TeamTab).                                                               *)
(***************************************************************************)
THEOREM ViewsAreSound == ViewSpec => []ViewsSound
<1>1. ViewInv => ViewsSound
  <2>. SUFFICES ASSUME ViewInv PROVE ViewCurrent
    BY DEF ViewInv, ViewsSound
  <2>. SUFFICES ASSUME AtRest, want # SyncOff, ~unseen, ~failed, ~(overtaken /\ view \notin Cancelled)
                PROVE  shown = [of |-> want, read |-> data]
    BY DEF ViewCurrent
  <2>1. ~told /\ ~timer /\ \A c \in Call : ~Fresh(c)
    BY DEF AtRest, Fresh
  <2>2. ~overtaken
    BY DEF ViewInv, SelectionKept
  <2>. QED
    BY <2>1, <2>2 DEF ViewInv, Covered
<1>. QED
  BY <1>1, ViewInvInit, ViewInvStep, PTL DEF ViewSpec

(***************************************************************************)
(* Plans.                                                                  *)
(***************************************************************************)
Tiers       == {"free", "pro", "team", "enterprise"}
GoogleSteps == {"google", "save", "write", "live", "load"}
Detections  ==
  {NotAsking} \cup [step : GoogleSteps \cup {"cursor"}, user : Payer]
  \cup [step : {"me", "tell"}, user : Payer, tier : Tiers \cup {NoPlan}, team : BOOLEAN, failed : BOOLEAN]
Saved       == [of : Payer, paid : BOOLEAN, age : Nat]
Chips       == [user : Payer \cup {NoPlan}, mode : {"unknown", "apiKey", "none", "subscription", "oauth"},
                source : {"none", "disk", "live", "saved", "identity"}, failed : BOOLEAN, steady : BOOLEAN]

PlansTypeOK ==
  /\ vendor \in Vendors /\ apiKey \in BOOLEAN /\ steady \in BOOLEAN
  /\ tier \in [Payer -> Tiers]
  /\ file \in Saved \cup {NoPlan}
  /\ call \in [Caller -> Detections]
  /\ chip \in Chips

\* A plan that was saved undisturbed is there and young enough to be loaded.
SteadyMeans == steady => file # NoPlan /\ file.age <= Ttl

\* What Cursor's two answers said of a paying account that is not a team's.
KnownTier ==
  \A c \in Caller : call[c].step = "tell" =>
    \/ call[c].failed \/ tier[call[c].user] = "team" \/ call[c].tier # NoPlan

\* Only Cursor's detections get that far.
CursorOnly == \A c \in Caller : call[c].step \in {"cursor", "me", "tell"} => vendor = "cursor"

PlansInv == PlansTypeOK /\ SteadyMeans /\ KnownTier /\ CursorOnly /\ PlansSound

-----------------------------------------------------------------------------
\* A step on the way of a detection.
LEMMA OnStep ==
  ASSUME PlansInv, NEW c \in Caller, NEW s \in Detections, On(c, s),
         s.step = "tell" => s.failed \/ tier[s.user] = "team" \/ s.tier # NoPlan,
         s.step \in {"cursor", "me", "tell"} => vendor = "cursor",
         file' \in Saved \cup {NoPlan}, steady' \in BOOLEAN, SteadyMeans'
  PROVE  PlansInv'
<1>. USE DEF PlansInv
<1>1. /\ UNCHANGED <<vendor, tier, creds, apiKey, chip>>
      /\ call' = [call EXCEPT ![c] = s]
  BY DEF On
<1>2. \A d \in Caller : call'[d] = IF d = c THEN s ELSE call[d]
  BY <1>1 DEF PlansTypeOK
<1>3. PlansTypeOK'
  BY <1>1 DEF PlansTypeOK
<1>4. KnownTier' /\ CursorOnly'
  BY <1>1, <1>2 DEF KnownTier, CursorOnly
<1>5. PlansSound'
  BY <1>1 DEF PlansSound, PaidIsShown, NoFlip, Paid
<1>. QED
  BY <1>3, <1>4, <1>5

\* A detection ends with an answer.
LEMMA AnswerStep ==
  ASSUME PlansInv, NEW c \in Caller, NEW u \in Payer \cup {NoPlan}, NEW f \in BOOLEAN,
         NEW mode \in {"unknown", "apiKey", "none", "subscription", "oauth"},
         NEW source \in {"disk", "live", "saved", "identity"},
         Answer(c, Plan(u, mode, source, f)),
         u = NoPlan \/ f \/ mode = "subscription" \/ ~Paid(u) \/ (vendor = "cursor" /\ tier[u] = "team"),
         source = "identity" => ~steady
  PROVE  PlansInv'
<1>. USE DEF PlansInv
<1>1. /\ UNCHANGED <<vendor, tier, creds, apiKey, file, steady>>
      /\ call' = [call EXCEPT ![c] = NotAsking]
      /\ chip' = [user |-> u, mode |-> mode, source |-> source, failed |-> f, steady |-> steady]
  BY DEF Answer, Plan
<1>2. \A d \in Caller : call'[d] = IF d = c THEN NotAsking ELSE call[d]
  BY <1>1 DEF PlansTypeOK
<1>3. PlansTypeOK'
  <2>1. chip' \in Chips
    BY <1>1 DEF PlansTypeOK, Chips
  <2>2. call' \in [Caller -> Detections]
    BY <1>1 DEF PlansTypeOK, Detections
  <2>. QED
    BY <1>1, <2>1, <2>2 DEF PlansTypeOK
<1>4. SteadyMeans' /\ KnownTier' /\ CursorOnly'
  BY <1>1, <1>2 DEF SteadyMeans, KnownTier, CursorOnly, NotAsking
<1>5. PlansSound'
  BY <1>1, PlansAssumption DEF PlansSound, PaidIsShown, NoFlip, Paid
<1>. QED
  BY <1>3, <1>4, <1>5

LEMMA DetectStep == ASSUME PlansInv, NEW c \in Caller, Detect(c) PROVE PlansInv'
<1>. USE DEF PlansInv
<1>1. CASE creds \notin Payer
  <2>1. Answer(c, Plan(NoPlan, Accountless, "disk", FALSE))
    BY <1>1 DEF Detect
  <2>2. Accountless \in {"unknown", "apiKey", "none", "subscription", "oauth"}
    BY DEF Accountless
  <2>. QED
    BY <2>1, <2>2, AnswerStep
<1>2. CASE creds \in Payer /\ vendor \in {"anthropic", "openai"}
  BY <1>2, AnswerStep DEF Detect, ModeOnDisk
<1>3. CASE creds \in Payer /\ vendor \notin {"anthropic", "openai"}
  <2>1. On(c, [step |-> vendor, user |-> creds]) /\ UNCHANGED <<file, steady>>
    BY <1>3 DEF Detect
  <2>2. vendor \in {"google", "cursor"}
    BY <1>3, PlansAssumption DEF PlansTypeOK
  <2>3. [step |-> vendor, user |-> creds] \in Detections
    BY <1>3, <2>2 DEF Detections, GoogleSteps
  <2>. QED
    BY <2>1, <2>2, <2>3, OnStep DEF PlansTypeOK, SteadyMeans
<1>. QED
  BY <1>1, <1>2, <1>3

\* Google: the steps of a detection before its answer.
LEMMA GoogleStep ==
  ASSUME PlansInv, NEW c \in Caller, NEW next \in GoogleSteps, call[c].step \in GoogleSteps,
         On(c, [call[c] EXCEPT !.step = next]),
         file' \in Saved \cup {NoPlan}, steady' \in BOOLEAN, SteadyMeans'
  PROVE  PlansInv'
<1>1. call[c] \in [step : GoogleSteps \cup {"cursor"}, user : Payer]
  BY DEF PlansInv, PlansTypeOK, Detections, NotAsking, GoogleSteps
<1>2. [call[c] EXCEPT !.step = next] \in Detections /\ [call[c] EXCEPT !.step = next].step = next
  BY <1>1 DEF Detections
<1>3. next \notin {"cursor", "me", "tell"}
  BY DEF GoogleSteps
<1>. QED
  BY <1>2, <1>3, OnStep

LEMMA SavingStep ==
  ASSUME PlansInv, NEW c \in Caller, CodeAssist(c) \/ Truncate(c) \/ Write(c) \/ SaveFails(c)
  PROVE  PlansInv'
<1>. USE DEF PlansInv, GoogleSteps
<1>1. CASE CodeAssist(c)
  <2>1. PICK next \in {"save", "load"} : On(c, [call[c] EXCEPT !.step = next])
    BY <1>1 DEF CodeAssist
  <2>. QED
    BY <1>1, <2>1, GoogleStep DEF CodeAssist, PlansTypeOK, SteadyMeans
<1>2. CASE Truncate(c)
  BY <1>2, GoogleStep DEF Truncate, SteadyMeans
<1>3. CASE Write(c)
  <2>. DEFINE mine == [of |-> call[c].user, paid |-> Paid(call[c].user), age |-> 0]
  <2>1. /\ call[c].step = "write" /\ On(c, [call[c] EXCEPT !.step = "live"])
        /\ file' \in {mine, NoPlan}
        /\ steady' = (file' # NoPlan /\ \A d \in Caller \ {c} : call[d].step # "write")
    BY <1>3 DEF Write
  <2>2. call[c].user \in Payer
    BY <2>1 DEF PlansTypeOK, Detections, NotAsking
  <2>3. mine \in Saved /\ mine.age <= Ttl
    BY <2>2, PlansAssumption DEF Saved, Paid
  <2>. HIDE DEF mine
  <2>4. file' \in Saved \cup {NoPlan} /\ steady' \in BOOLEAN /\ SteadyMeans'
    BY <2>1, <2>3 DEF SteadyMeans
  <2>. QED
    BY <2>1, <2>4, GoogleStep
<1>4. CASE SaveFails(c)
  BY <1>4, GoogleStep DEF SaveFails, PlansTypeOK, SteadyMeans
<1>. QED
  BY <1>1, <1>2, <1>3, <1>4

LEMMA GoogleTellStep ==
  ASSUME PlansInv, NEW c \in Caller, TellLive(c) \/ LoadPlan(c)
  PROVE  PlansInv'
<1>. USE DEF PlansInv
<1>1. call[c].user \in Payer
  <2>1. call[c].step \in {"live", "load"}
    BY DEF TellLive, LoadPlan
  <2>. QED
    BY <2>1 DEF PlansTypeOK, Detections, NotAsking
<1>2. CASE TellLive(c)
  BY <1>1, <1>2, AnswerStep DEF TellLive, ModeOf
<1>3. CASE LoadPlan(c)
  <2>1. CASE Loaded
    BY <1>1, <1>3, <2>1, AnswerStep DEF LoadPlan
  <2>2. CASE ~Loaded
    <3>1. ~steady
      BY <2>2 DEF SteadyMeans, Loaded
    <3>. QED
      BY <1>1, <1>3, <2>2, <3>1, AnswerStep DEF LoadPlan
  <2>. QED
    BY <2>1, <2>2
<1>. QED
  BY <1>2, <1>3

\* Cursor: whatever /auth/stripe says goes on to /auth/me, or tells the tier.
LEMMA StripeStep == ASSUME PlansInv, NEW c \in Caller, Stripe(c) PROVE PlansInv'
<1>. USE DEF PlansInv
<1>. DEFINE u == call[c].user
            Reply(known, team, miss) ==
              [step |-> IF known = NoPlan \/ team THEN "me" ELSE "tell", user |-> u,
               tier |-> known, team |-> team, failed |-> miss]
<1>1. /\ call[c].step = "cursor" /\ UNCHANGED <<file, steady>>
      /\ \/ tier[u] # "team" /\ On(c, Reply(tier[u], FALSE, FALSE))
         \/ tier[u] = "team" /\ \E known \in {NoPlan, "free"} : On(c, Reply(known, TRUE, FALSE))
         \/ On(c, Reply(NoPlan, FALSE, TRUE))
  BY DEF Stripe
<1>2. u \in Payer /\ vendor = "cursor" /\ tier[u] \in Tiers
  BY <1>1 DEF PlansTypeOK, Detections, NotAsking, CursorOnly
<1>3. NoPlan \notin Tiers
  BY PlansAssumption DEF Tiers
<1>4. ASSUME NEW known \in Tiers \cup {NoPlan}, NEW team \in BOOLEAN, NEW miss \in BOOLEAN,
             On(c, Reply(known, team, miss))
      PROVE  PlansInv'
  <2>1. Reply(known, team, miss) \in Detections
    BY <1>2 DEF Detections
  <2>2. Reply(known, team, miss).step = "tell" => Reply(known, team, miss).tier # NoPlan
    OBVIOUS
  <2>. HIDE DEF Reply
  <2>. QED
    BY <1>1, <1>2, <1>4, <2>1, <2>2, OnStep DEF PlansTypeOK, SteadyMeans
<1>. HIDE DEF Reply
<1>. QED
  BY <1>1, <1>2, <1>4 DEF Tiers

LEMMA MeStep == ASSUME PlansInv, NEW c \in Caller, Me(c) PROVE PlansInv'
<1>. USE DEF PlansInv
<1>. DEFINE s == call[c]
            Reply(known, team, miss) ==
              [s EXCEPT !.step = "tell", !.tier = known, !.team = team, !.failed = miss]
<1>1. /\ s.step = "me" /\ UNCHANGED <<file, steady>>
      /\ \/ tier[s.user] = "team" /\ \/ On(c, Reply("enterprise", s.team, s.failed))
                                     \/ On(c, Reply(s.tier, TRUE, s.failed))
         \/ tier[s.user] # "team" /\ On(c, Reply(IF s.tier = NoPlan THEN tier[s.user] ELSE s.tier,
                                                s.team, s.failed))
         \/ On(c, Reply(s.tier, s.team, TRUE))
  BY DEF Me
<1>2. /\ s \in [step : {"me", "tell"}, user : Payer, tier : Tiers \cup {NoPlan}, team : BOOLEAN,
                failed : BOOLEAN]
      /\ vendor = "cursor" /\ tier[s.user] \in Tiers
  BY <1>1 DEF PlansTypeOK, Detections, NotAsking, GoogleSteps, CursorOnly
<1>3. NoPlan \notin Tiers /\ "enterprise" \in Tiers
  BY PlansAssumption DEF Tiers
<1>4. ASSUME NEW known \in Tiers \cup {NoPlan}, NEW team \in BOOLEAN, NEW miss \in BOOLEAN,
             On(c, Reply(known, team, miss)),
             miss \/ tier[s.user] = "team" \/ known # NoPlan
      PROVE  PlansInv'
  <2>1. /\ Reply(known, team, miss) \in Detections
        /\ Reply(known, team, miss).user = s.user
        /\ Reply(known, team, miss).failed = miss /\ Reply(known, team, miss).tier = known
    BY <1>2 DEF Detections
  <2>. HIDE DEF Reply
  <2>. QED
    BY <1>1, <1>2, <1>4, <2>1, OnStep DEF PlansTypeOK, SteadyMeans
<1>. HIDE DEF Reply
<1>. QED
  BY <1>1, <1>2, <1>3, <1>4

LEMMA TellStep == ASSUME PlansInv, NEW c \in Caller, Tell(c) PROVE PlansInv'
<1>. USE DEF PlansInv
<1>1. /\ call[c].step = "tell"
      /\ Answer(c, Plan(call[c].user, IF call[c].tier # NoPlan THEN "subscription" ELSE "oauth", "live",
                        call[c].failed))
  BY DEF Tell
<1>2. /\ call[c] \in [step : {"me", "tell"}, user : Payer, tier : Tiers \cup {NoPlan}, team : BOOLEAN,
                      failed : BOOLEAN]
      /\ vendor = "cursor"
  BY <1>1 DEF PlansTypeOK, Detections, NotAsking, GoogleSteps, CursorOnly
<1>3. call[c].failed \/ tier[call[c].user] = "team" \/ call[c].tier # NoPlan
  BY <1>1 DEF KnownTier
<1>. QED
  BY <1>1, <1>2, <1>3, AnswerStep

LEMMA PlansInvStep == PlansInv /\ [PlansNext]_planVars => PlansInv'
<1>. SUFFICES ASSUME PlansInv, [PlansNext]_planVars PROVE PlansInv'
  OBVIOUS
<1>1. ASSUME NEW who, Sign(who) PROVE PlansInv'
  BY <1>1 DEF Sign, PlansInv, PlansTypeOK, SteadyMeans, KnownTier, CursorOnly, PlansSound, PaidIsShown,
              NoFlip, Paid
<1>2. CASE Ages
  <2>1. /\ file \in Saved /\ file.age <= Ttl /\ file' = [file EXCEPT !.age = @ + 1]
        /\ steady' = (steady /\ file.age < Ttl)
        /\ UNCHANGED <<vendor, tier, creds, apiKey, call, chip>>
    BY <1>2 DEF Ages, PlansInv, PlansTypeOK
  <2>2. file' \in Saved /\ file'.age = file.age + 1 /\ file.age \in Nat
    BY <2>1 DEF Saved
  <2>3. PlansTypeOK' /\ SteadyMeans'
    <3>1. steady' \in BOOLEAN
      BY <2>1, ZenonT(20)
    <3>2. file' # NoPlan
      BY <2>2, PlansAssumption DEF Saved
    <3>3. file.age < Ttl => file'.age <= Ttl
      BY <2>2, PlansAssumption, SMT
    <3>4. steady' => file'.age <= Ttl
      BY <2>1, <3>3, ZenonT(20)
    <3>. QED
      BY <2>1, <2>2, <3>1, <3>2, <3>4 DEF PlansInv, PlansTypeOK, SteadyMeans
  <2>. QED
    BY <2>1, <2>3 DEF PlansInv, KnownTier, CursorOnly, PlansSound, PaidIsShown, NoFlip, Paid
<1>3. CASE Leave
  <2>1. /\ \A c \in Caller : call'[c] = NotAsking /\ call' \in [Caller -> Detections]
        /\ chip' = NoAnswer
        /\ UNCHANGED <<vendor, tier, creds, apiKey, file, steady>>
    BY <1>3 DEF Leave, Detections
  <2>2. chip' \in Chips /\ chip'.user \notin Payer /\ chip'.source # "identity"
    BY <2>1, PlansAssumption DEF NoAnswer, Chips
  <2>3. PlansTypeOK' /\ SteadyMeans'
    BY <1>3, <2>1, <2>2 DEF Leave, Detections, PlansInv, PlansTypeOK, SteadyMeans
  <2>4. KnownTier' /\ CursorOnly'
    BY <2>1 DEF KnownTier, CursorOnly, NotAsking
  <2>5. PlansSound'
    BY <2>2 DEF PlansSound, PaidIsShown, NoFlip
  <2>. QED
    BY <2>3, <2>4, <2>5 DEF PlansInv
<1>4. ASSUME NEW c \in Caller, Detect(c) \/ CodeAssist(c) \/ Truncate(c) \/ Write(c) \/ SaveFails(c)
                               \/ TellLive(c) \/ LoadPlan(c) \/ Stripe(c) \/ Me(c) \/ Tell(c)
      PROVE  PlansInv'
  BY <1>4, DetectStep, SavingStep, GoogleTellStep, StripeStep, MeStep, TellStep
<1>5. CASE UNCHANGED planVars
  BY <1>5 DEF planVars, PlansInv, PlansTypeOK, SteadyMeans, KnownTier, CursorOnly, PlansSound, PaidIsShown,
              NoFlip, Paid
<1>. QED
  BY <1>1, <1>2, <1>3, <1>4, <1>5 DEF PlansNext

LEMMA PlansInvInit == PlansInit => PlansInv
<1>. SUFFICES ASSUME PlansInit PROVE PlansInv
  OBVIOUS
<1>1. NoAnswer \in Chips /\ NoAnswer.user \notin Payer /\ NoAnswer.source # "identity"
  BY PlansAssumption DEF NoAnswer, Chips
<1>2. tier \in [Payer -> Tiers]
  BY DEF PlansInit, Tiers
<1>3. call \in [Caller -> Detections] /\ \A c \in Caller : call[c].step = "asleep"
  BY DEF PlansInit, Detections, NotAsking
<1>4. PlansTypeOK /\ SteadyMeans
  BY <1>1, <1>2, <1>3 DEF PlansInit, PlansTypeOK, SteadyMeans
<1>5. KnownTier /\ CursorOnly
  BY <1>3 DEF KnownTier, CursorOnly
<1>6. PlansSound
  BY <1>1 DEF PlansInit, PlansSound, PaidIsShown, NoFlip
<1>. QED
  BY <1>4, <1>5, <1>6 DEF PlansInv

(***************************************************************************)
(* A paying account is shown as a subscription, whichever request tells    *)
(* it, and a saved plan keeps the answer from falling back to the bare     *)
(* identity while it is young and undisturbed (providers/*/plan.ts,        *)
(* google/plan-cache.ts), for any number of callers and accounts.          *)
(***************************************************************************)
THEOREM PlansAreSound == PlansSpec => []PlansSound
<1>1. PlansInv => PlansSound
  BY DEF PlansInv
<1>. QED
  BY <1>1, PlansInvInit, PlansInvStep, PTL DEF PlansSpec

(***************************************************************************)
(* Sign-in.                                                                *)
(***************************************************************************)
AnyUser  == Account \cup {NoUser}
AnyToken == Token \cup {NoToken}
Steps    == {"idle", "read", "find", "wipe", "refresh", "store", "unkey", "clear",
             "open", "wait", "exchange", "upsert"}
Calls    == [pc : Steps, user : AnyUser, token : AnyToken]

\* The steps of each call, and what it carries at them.
Fits(p, c) ==
  /\ p = "restore" =>
       /\ c.pc \in {"idle", "read", "find", "wipe", "refresh", "store", "unkey", "clear"}
       /\ c.pc \in {"find", "refresh", "store"} => c.token # NoToken
       /\ c.pc \in {"refresh", "store"} => c.user # NoUser
  /\ p = "signIn" =>
       /\ c.pc \in {"idle", "open", "wait", "exchange", "upsert", "store"}
       /\ c.pc \in {"upsert", "store"} => c.user # NoUser
       /\ c.pc = "store" => c.token # NoToken
  /\ p \in OutCall => c.pc \in {"idle", "clear", "unkey"}
  /\ p \in TokenCall => c.pc \in {"idle", "refresh", "store"} /\ (c.pc # "idle" => c.token # NoToken)

CallsTypeOK ==
  /\ authCall \in [AuthProc -> Calls]
  /\ \A p \in AuthProc : Fits(p, authCall[p])

AuthTypes ==
  /\ configured \in BOOLEAN /\ overlap \in BOOLEAN /\ unwritten \in BOOLEAN /\ left \in BOOLEAN
  /\ authState \in [kind : {"signed-out", "signing-in", "signed-in", "error"}, user : AnyUser]
  /\ (authState.kind = "signed-in") <=> (authState.user # NoUser)
  /\ session \in [user : AnyUser, refresh : AnyToken, bearer : AnyUser, fresh : BOOLEAN]
  /\ keychain \in AnyToken
  /\ active = {} \/ \E u \in Account : active = {u}
  /\ issued \in 1 .. MaxToken

\* Every token was issued.
TokensIssued ==
  /\ keychain[2] <= issued /\ session.refresh[2] <= issued
  /\ \A p \in AuthProc : authCall[p].token[2] <= issued

\* A call under way is alone, or is one of several refreshes for the uploads.
Alone ==
  ~overlap => \A p, q \in AuthProc :
    ~At(p, "idle") /\ ~At(q, "idle") /\ p # q => p \in TokenCall /\ q \in TokenCall

SignedIn     == authState.kind = "signed-in"
SessionOf(u) == session.user = u /\ session.bearer = u /\ Owner(session.refresh) \in {u, NoUser}

\* The account and the token on the disk are of one user, but while a sign-in is
\* between writing the one and the other.
DiskAgrees ==
  ~overlap /\ ~unwritten /\ ~At("signIn", "store") =>
    \A u \in active : Owner(keychain) \in {u, NoUser}

\* A call that is going to show somebody as signed in has what it takes.
RestoreKnows ==
  LET c == authCall["restore"] IN
    ~overlap /\ c.pc # "idle" =>
      /\ ~SignedIn
      /\ c.pc # "read" => ~left
      /\ ~unwritten => /\ c.pc \in {"find", "refresh"} => c.token = keychain
                       /\ c.pc \in {"refresh", "store"} => active = {c.user}
                       /\ c.pc = "store" => Owner(c.token) = c.user /\ SessionOf(c.user)
SignInKnows ==
  LET c == authCall["signIn"] IN
    ~overlap /\ c.pc # "idle" =>
      /\ ~SignedIn
      /\ c.pc \in {"upsert", "store"} => SessionOf(c.user) /\ Owner(c.token) \in {c.user, NoUser}
      /\ c.pc = "store" => active = {c.user}
TokenKnows ==
  \A p \in TokenCall : ~overlap /\ ~At(p, "idle") =>
    SignedIn /\ (~unwritten => Owner(authCall[p].token) = authState.user)

\* Who is shown as signed in is on the disk and in the session, until he leaves.
SignedInMeans ==
  ~overlap /\ ~unwritten /\ SignedIn /\ (\A p \in OutCall : At(p, "idle")) =>
    /\ active = {authState.user} /\ Owner(keychain) \in {authState.user, NoUser}
    /\ SessionOf(authState.user)

LeftMeans == ~overlap /\ left => keychain = NoToken /\ ~SignedIn

Unconfigured == ~configured => /\ ~SignedIn /\ At("signIn", "idle")
                               /\ authCall["restore"].pc \in {"idle", "read"}

AuthInv == /\ CallsTypeOK /\ AuthTypes /\ TokensIssued /\ Alone /\ DiskAgrees /\ RestoreKnows
           /\ SignInKnows /\ TokenKnows /\ SignedInMeans /\ LeftMeans /\ Unconfigured
-----------------------------------------------------------------------------
LEMMA Procs ==
  /\ "restore" \in AuthProc /\ "signIn" \in AuthProc
  /\ OutCall \subseteq AuthProc /\ TokenCall \subseteq AuthProc
  /\ OutCall \cap TokenCall = {}
  /\ "restore" \notin OutCall \cup TokenCall /\ "signIn" \notin OutCall \cup TokenCall
BY AuthAssumption DEF AuthProc

LEMMA Tokens ==
  /\ NoToken \in AnyToken /\ Owner(NoToken) = NoUser /\ NoToken[2] = 0 /\ NoUser \in AnyUser
  /\ \A t \in AnyToken : Owner(t) \in AnyUser /\ (t # NoToken <=> Owner(t) # NoUser)
                         /\ t[2] \in 0 .. MaxToken
  /\ Idle \in Calls /\ \A p \in AuthProc : Fits(p, Idle)
  /\ NoSession \in [user : AnyUser, refresh : AnyToken, bearer : AnyUser, fresh : BOOLEAN]
<1>1. NoToken \notin Token
  BY AuthAssumption DEF Token, NoToken
<1>2. /\ Owner(NoToken) = NoUser /\ NoToken[2] = 0
      /\ \A t \in Token : Owner(t) \in Account /\ t[2] \in 1 .. MaxToken
  BY DEF Token, Owner, NoToken
<1>3. \A t \in AnyToken : /\ Owner(t) \in AnyUser /\ (t # NoToken <=> Owner(t) # NoUser)
                          /\ t[2] \in 0 .. MaxToken
  BY <1>1, <1>2, AuthAssumption DEF AnyToken, AnyUser
<1>4. NoToken \in AnyToken /\ NoUser \in AnyUser
  BY DEF AnyToken, AnyUser
<1>. HIDE DEF Owner
<1>5. Idle \in Calls /\ \A p \in AuthProc : Fits(p, Idle)
  BY <1>4 DEF Idle, Calls, Steps, Fits
<1>6. NoSession \in [user : AnyUser, refresh : AnyToken, bearer : AnyUser, fresh : BOOLEAN]
  BY <1>4 DEF NoSession
<1>. QED
  BY <1>2, <1>3, <1>4, <1>5, <1>6

\* One call moves on, the others stay.
Moves(p, c) == authCall' = [authCall EXCEPT ![p] = c]

LEMMA Moved ==
  ASSUME CallsTypeOK, NEW p \in AuthProc, NEW c \in Calls, Fits(p, c), Moves(p, c)
  PROVE  /\ CallsTypeOK' /\ authCall'[p] = c
         /\ \A q \in AuthProc : q # p => authCall'[q] = authCall[q]
<1>1. /\ authCall' \in [AuthProc -> Calls] /\ authCall'[p] = c
      /\ \A q \in AuthProc : q # p => authCall'[q] = authCall[q]
  BY DEF CallsTypeOK, Moves
<1>2. \A q \in AuthProc : Fits(q, authCall'[q])
  BY <1>1 DEF CallsTypeOK
<1>3. CallsTypeOK'
  BY <1>1, <1>2 DEF CallsTypeOK, Fits
<1>. QED
  BY <1>1, <1>3

\* A call that is under way goes on, or ends.
LEMMA AloneMoves ==
  ASSUME CallsTypeOK, Alone, NEW p \in AuthProc, NEW c \in Calls, Fits(p, c), Moves(p, c),
         ~At(p, "idle"), UNCHANGED overlap
  PROVE  Alone'
BY Moved DEF Alone, At

LEMMA AloneStarts ==
  ASSUME CallsTypeOK, AuthTypes, Alone, NEW p \in AuthProc, NEW c \in Calls, Fits(p, c), Start(p, c)
  PROVE  /\ Moves(p, c) /\ At(p, "idle") /\ Alone' /\ overlap' \in BOOLEAN
         /\ ~overlap' => ~overlap /\ \A q \in AuthProc :
              ~At(q, "idle") => p \in TokenCall /\ q \in TokenCall
<1>1. /\ Moves(p, c) /\ At(p, "idle")
      /\ overlap' = (overlap \/ \E q \in InFlight : {p, q} \cap TokenCall # {p, q})
  BY DEF Start, Moves
<1>2. ~overlap' => ~overlap /\ \A q \in AuthProc : ~At(q, "idle") => p \in TokenCall /\ q \in TokenCall
  BY <1>1 DEF InFlight
<1>3. overlap' \in BOOLEAN
  BY <1>1, ZenonT(20) DEF AuthTypes
<1>4. Alone'
  BY <1>1, <1>2, Moved DEF Alone, At
<1>. QED
  BY <1>1, <1>2, <1>3, <1>4

LEMMA IssuedMoves ==
  ASSUME CallsTypeOK, AuthTypes, TokensIssued, NEW p \in AuthProc, NEW c \in Calls, Fits(p, c),
         Moves(p, c), issued' \in Nat, issued <= issued', c.token[2] <= issued',
         keychain'[2] <= issued', session'.refresh[2] <= issued'
  PROVE  TokensIssued'
<1>1. ASSUME NEW q \in AuthProc PROVE authCall'[q].token[2] <= issued'
  <2>1. CASE q = p
    BY <2>1, Moved
  <2>2. CASE q # p
    <3>1. authCall[q].token \in AnyToken /\ authCall'[q] = authCall[q]
      BY <2>2, Moved DEF CallsTypeOK, Calls
    <3>2. authCall[q].token[2] \in Nat /\ authCall[q].token[2] <= issued /\ issued \in Nat
      BY <3>1, Tokens, AuthAssumption DEF TokensIssued, AuthTypes
    <3>. QED
      BY <3>1, <3>2
  <2>. QED
    BY <2>1, <2>2
<1>. QED
  BY <1>1 DEF TokensIssued

LEMMA IssuedStay ==
  ASSUME CallsTypeOK, AuthTypes, TokensIssued, NEW p \in AuthProc, NEW c \in Calls, Fits(p, c),
         Moves(p, c), UNCHANGED issued, c.token[2] <= issued,
         keychain' \in {keychain, c.token, NoToken, authCall[p].token},
         session' \in {session, NoSession} \/ session'.refresh = session.refresh
  PROVE  TokensIssued'
<1>1. issued \in Nat /\ issued <= issued /\ NoSession.refresh[2] <= issued /\ NoToken[2] <= issued
  BY Tokens, AuthAssumption DEF AuthTypes, NoSession
<1>2. keychain'[2] <= issued
  BY <1>1 DEF TokensIssued
<1>3. session'.refresh[2] <= issued
  BY <1>1 DEF TokensIssued
<1>. QED
  BY <1>1, <1>2, <1>3, IssuedMoves

\* What the renderer is shown.
LEMMA Shown ==
  ASSUME AuthTypes, NEW u \in AnyUser, u # NoUser, ShowIn(u) \/ UNCHANGED <<authState, left>>
  PROVE  /\ authState' \in [kind : {"signed-out", "signing-in", "signed-in", "error"}, user : AnyUser]
         /\ (authState'.kind = "signed-in") <=> (authState'.user # NoUser)
         /\ left' \in BOOLEAN
         /\ ShowIn(u) => SignedIn' /\ authState'.user = u /\ left' = FALSE
<1>1. CASE ShowIn(u)
  BY <1>1 DEF ShowIn, SignedIn
<1>2. CASE UNCHANGED <<authState, left>> /\ ~ShowIn(u)
  BY <1>2 DEF AuthTypes
<1>. QED
  BY <1>1, <1>2

-----------------------------------------------------------------------------
LEMMA RestoreReadStep == ASSUME AuthInv, RestoreRead PROVE AuthInv'
<1>. USE DEF AuthInv
<1>. DEFINE found == [pc |-> "find", user |-> NoUser, token |-> keychain]
<1>1. /\ At("restore", "read")
      /\ UNCHANGED <<configured, authState, session, keychain, active, issued, overlap, unwritten, left>>
      /\ \/ Moves("restore", Idle)
         \/ configured /\ keychain # NoToken /\ Moves("restore", found)
  BY DEF RestoreRead, Done, Moves, AuthTypes
<1>2. PICK c \in {Idle, found} : Moves("restore", c) /\ (c # Idle => configured /\ keychain # NoToken)
  BY <1>1
<1>3. c \in Calls /\ Fits("restore", c)
  BY <1>2, Tokens, Procs DEF Calls, Steps, Fits, AuthTypes
<1>4. /\ CallsTypeOK' /\ Alone' /\ authCall'["restore"] = c
      /\ \A q \in AuthProc : q # "restore" => authCall'[q] = authCall[q]
  BY <1>1, <1>2, <1>3, Moved, AloneMoves, Procs DEF At
<1>5. AuthTypes' /\ TokensIssued'
  BY <1>1, <1>2, <1>4, Tokens, Procs DEF AuthTypes, TokensIssued, Idle
<1>6. DiskAgrees' /\ SignedInMeans' /\ LeftMeans' /\ Unconfigured'
  BY <1>1, <1>2, <1>4, Procs DEF DiskAgrees, SignedInMeans, LeftMeans, Unconfigured, SignedIn, SessionOf, At, Idle
<1>7. RestoreKnows'
  BY <1>1, <1>2, <1>4 DEF RestoreKnows, LeftMeans, SignedIn, At, Idle
<1>8. SignInKnows' /\ TokenKnows'
  BY <1>1, <1>4, Procs DEF SignInKnows, TokenKnows, SignedIn, SessionOf, At
<1>. QED
  BY <1>4, <1>5, <1>6, <1>7, <1>8

LEMMA RestoreFindStep == ASSUME AuthInv, RestoreFind PROVE AuthInv'
<1>. USE DEF AuthInv
<1>. DEFINE r == authCall["restore"]
            next(c) == \/ c = Idle
                       \/ active = {} /\ c = [r EXCEPT !.pc = "wipe"]
                       \/ \E u \in active : c = [r EXCEPT !.pc = "refresh", !.user = u]
<1>1. /\ At("restore", "find")
      /\ UNCHANGED <<configured, authState, session, keychain, active, issued, overlap, unwritten, left>>
      /\ \E c : next(c) /\ Moves("restore", c)
  <2>1. CASE authCall' = [authCall EXCEPT !["restore"] = Idle]
    BY <2>1 DEF RestoreFind, Moves
  <2>2. CASE active = {} /\ Go("restore", "wipe")
    <3>1. Moves("restore", [r EXCEPT !.pc = "wipe"])
      BY <2>2 DEF Go, Moves
    <3>. QED
      BY <2>2, <3>1 DEF RestoreFind
  <2>3. ASSUME NEW u \in active, authCall' = [authCall EXCEPT !["restore"].pc = "refresh", !["restore"].user = u]
        PROVE  \E c : next(c) /\ Moves("restore", c)
    <3>1. Moves("restore", [r EXCEPT !.pc = "refresh", !.user = u])
      BY <2>3 DEF Moves, CallsTypeOK
    <3>. QED
      BY <3>1
  <2>. QED
    BY <2>1, <2>2, <2>3 DEF RestoreFind, Done
<1>2. PICK c : next(c) /\ Moves("restore", c)
  BY <1>1
<1>3. r \in Calls /\ r.pc = "find" /\ r.token # NoToken
  BY <1>1, Procs DEF CallsTypeOK, Fits, At
<1>4. /\ c \in Calls /\ Fits("restore", c) /\ c.pc \in {"idle", "wipe", "refresh"}
      /\ c.pc = "refresh" => c.token = r.token /\ active = {c.user}
      /\ c.token \in {r.token, NoToken}
  <2>1. CASE c = Idle
    BY <2>1, Tokens, Procs DEF Idle
  <2>2. CASE c = [r EXCEPT !.pc = "wipe"]
    BY <2>2, <1>3, Procs DEF Calls, Steps, Fits
  <2>3. ASSUME NEW u \in active, c = [r EXCEPT !.pc = "refresh", !.user = u]
        PROVE  /\ c \in Calls /\ Fits("restore", c) /\ c.pc = "refresh" /\ c.token = r.token
               /\ active = {c.user}
    <3>1. u \in Account /\ u \in AnyUser /\ u # NoUser /\ active = {u}
      BY AuthAssumption DEF AuthTypes, AnyUser
    <3>. QED
      BY <2>3, <3>1, <1>3, Procs DEF Calls, Steps, Fits
  <2>. QED
    BY <1>2, <2>1, <2>2, <2>3
<1>5. /\ CallsTypeOK' /\ Alone' /\ authCall'["restore"] = c
      /\ \A q \in AuthProc : q # "restore" => authCall'[q] = authCall[q]
  BY <1>1, <1>2, <1>3, <1>4, Moved, AloneMoves, Procs DEF At
<1>6. AuthTypes' /\ TokensIssued'
  <2>1. c.token[2] <= issued
    BY <1>4, Tokens, Procs DEF AuthTypes, TokensIssued
  <2>2. TokensIssued'
    BY <1>1, <1>2, <1>4, <2>1, IssuedStay, Procs
  <2>. QED
    BY <1>1, <2>2 DEF AuthTypes
<1>7. DiskAgrees' /\ SignedInMeans' /\ LeftMeans' /\ Unconfigured'
  BY <1>1, <1>3, <1>4, <1>5, Procs
     DEF DiskAgrees, SignedInMeans, LeftMeans, Unconfigured, SignedIn, SessionOf, At
<1>8. RestoreKnows'
  BY <1>1, <1>3, <1>4, <1>5 DEF RestoreKnows, SignedIn, At
<1>9. SignInKnows' /\ TokenKnows'
  BY <1>1, <1>5, Procs DEF SignInKnows, TokenKnows, SignedIn, SessionOf, At
<1>. QED
  BY <1>5, <1>6, <1>7, <1>8, <1>9

LEMMA RestoreWipeStep == ASSUME AuthInv, RestoreWipe PROVE AuthInv'
<1>. USE DEF AuthInv
<1>1. /\ At("restore", "wipe") /\ keychain' = NoToken /\ Moves("restore", Idle)
      /\ UNCHANGED <<configured, authState, session, active, issued, overlap, unwritten, left>>
  BY DEF RestoreWipe, Done, Moves, Deleted
<1>2. Idle \in Calls /\ Fits("restore", Idle) /\ Idle.token[2] <= issued
  BY Tokens, Procs, AuthAssumption DEF Idle, AuthTypes
<1>3. /\ CallsTypeOK' /\ Alone' /\ authCall'["restore"] = Idle
      /\ \A q \in AuthProc : q # "restore" => authCall'[q] = authCall[q]
  BY <1>1, <1>2, Moved, AloneMoves, Procs DEF At
<1>4. AuthTypes' /\ TokensIssued'
  <2>1. TokensIssued'
    BY <1>1, <1>2, IssuedStay, Procs
  <2>. QED
    BY <1>1, <2>1, Tokens DEF AuthTypes
<1>5. DiskAgrees' /\ SignedInMeans' /\ LeftMeans' /\ Unconfigured'
  BY <1>1, <1>3, Tokens, Procs
     DEF DiskAgrees, SignedInMeans, LeftMeans, Unconfigured, RestoreKnows, SignedIn, SessionOf, At, Idle
<1>6. RestoreKnows' /\ SignInKnows' /\ TokenKnows'
  BY <1>1, <1>3, Procs DEF RestoreKnows, SignInKnows, TokenKnows, SignedIn, SessionOf, At, Idle
<1>. QED
  BY <1>3, <1>4, <1>5, <1>6

\* An answer of Google's to the refresh token t.
LEMMA RefreshedMeans ==
  ASSUME AuthTypes, NEW t \in AnyToken, t # NoToken, NEW f \in AnyUser, NEW g \in AnyToken,
         g[2] <= issued, NEW user \in Account \cup {NoUser}, NEW rotated \in Token \cup {NoToken},
         Refreshed(t, f, g, user, rotated)
  PROVE  /\ session' \in [user : AnyUser, refresh : AnyToken, bearer : AnyUser, fresh : BOOLEAN]
         /\ issued' \in 1 .. MaxToken /\ issued <= issued' /\ issued' \in Nat
         /\ rotated \in AnyToken /\ rotated[2] <= issued' /\ session'.refresh[2] <= issued'
         /\ rotated # NoToken => Owner(rotated) = Owner(t)
         /\ session'.user \in {f, Owner(t)} /\ session'.bearer = Owner(t)
         /\ session'.refresh \in {g, rotated} /\ (rotated = NoToken => session'.refresh = g)
<1>1. /\ user \in {NoUser, Owner(t)} /\ Issue(Owner(t), rotated)
      /\ session' = [user |-> IF user = NoUser THEN f ELSE user,
                     refresh |-> IF rotated = NoToken THEN g ELSE rotated,
                     bearer |-> Owner(t), fresh |-> TRUE]
  BY DEF Refreshed
<1>2. user \in AnyUser /\ rotated \in AnyToken /\ Owner(t) \in AnyUser
  BY Tokens DEF AnyUser, AnyToken
<1>3. /\ issued \in 1 .. MaxToken /\ issued \in Nat /\ MaxToken \in Nat /\ g[2] \in Nat
      /\ NoToken[2] = 0
  BY Tokens, AuthAssumption DEF AuthTypes
<1>4. /\ issued' \in 1 .. MaxToken /\ issued <= issued' /\ issued' \in Nat
      /\ rotated[2] <= issued' /\ (rotated # NoToken => Owner(rotated) = Owner(t))
  <2>1. CASE rotated = NoToken /\ issued' = issued
    BY <2>1, <1>3
  <2>2. CASE issued < MaxToken /\ issued' = issued + 1 /\ rotated = <<Owner(t), issued + 1>>
    BY <2>2, <1>3 DEF Owner
  <2>. QED
    BY <1>1, <2>1, <2>2 DEF Issue
<1>5. /\ session' \in [user : AnyUser, refresh : AnyToken, bearer : AnyUser, fresh : BOOLEAN]
      /\ session'.user \in {f, Owner(t)} /\ session'.bearer = Owner(t)
      /\ session'.refresh \in {g, rotated} /\ (rotated = NoToken => session'.refresh = g)
  BY <1>1, <1>2
<1>6. session'.refresh[2] <= issued'
  BY <1>3, <1>4, <1>5
<1>. QED
  BY <1>2, <1>4, <1>5, <1>6

LEMMA RestoreRefreshStep == ASSUME AuthInv, RestoreRefresh PROVE AuthInv'
<1>. USE DEF AuthInv
<1>. DEFINE r == authCall["restore"]
<1>1. /\ At("restore", "refresh") /\ UNCHANGED <<configured, keychain, active, overlap, unwritten>>
      /\ r \in Calls /\ r.token \in AnyToken /\ r.token # NoToken /\ r.token[2] <= issued
      /\ r.user \in Account /\ r.user # NoUser
  BY Procs DEF RestoreRefresh, CallsTypeOK, Fits, At, Calls, TokensIssued, AnyUser
<1>2. \/ \E user \in Account \cup {NoUser}, rotated \in Token \cup {NoToken} :
           /\ Refreshed(r.token, r.user, r.token, user, rotated)
           /\ IF rotated = NoToken
              THEN ShowIn(session'.user) /\ Moves("restore", Idle)
              ELSE /\ Moves("restore", [pc |-> "store", user |-> session'.user, token |-> rotated])
                   /\ UNCHANGED <<authState, left>>
      \/ Go("restore", "unkey") /\ UNCHANGED <<authState, session, issued, left>>
  BY DEF RestoreRefresh, Done, Moves
<1>3. ASSUME NEW user \in Account \cup {NoUser}, NEW rotated \in Token \cup {NoToken},
             Refreshed(r.token, r.user, r.token, user, rotated),
             IF rotated = NoToken
             THEN ShowIn(session'.user) /\ Moves("restore", Idle)
             ELSE /\ Moves("restore", [pc |-> "store", user |-> session'.user, token |-> rotated])
                  /\ UNCHANGED <<authState, left>>
      PROVE  AuthInv'
  <2>1. /\ session' \in [user : AnyUser, refresh : AnyToken, bearer : AnyUser, fresh : BOOLEAN]
        /\ issued' \in 1 .. MaxToken /\ issued <= issued' /\ issued' \in Nat
        /\ rotated \in AnyToken /\ rotated[2] <= issued' /\ session'.refresh[2] <= issued'
        /\ rotated # NoToken => Owner(rotated) = Owner(r.token)
        /\ session'.user \in {r.user, Owner(r.token)} /\ session'.bearer = Owner(r.token)
        /\ session'.refresh \in {r.token, rotated} /\ (rotated = NoToken => session'.refresh = r.token)
    BY <1>1, <1>3, RefreshedMeans DEF AnyUser
  <2>2. Owner(r.token) \in Account /\ session'.user \in Account /\ session'.user # NoUser
    BY <1>1, <2>1, Tokens, AuthAssumption DEF AnyUser
  <2>. DEFINE c == IF rotated = NoToken THEN Idle
                   ELSE [pc |-> "store", user |-> session'.user, token |-> rotated]
  <2>3. Moves("restore", c)
    BY <1>3
  <2>4. /\ c \in Calls /\ Fits("restore", c) /\ c.token[2] <= issued' /\ c.pc \in {"idle", "store"}
        /\ c.pc = "idle" <=> rotated = NoToken
        /\ c.pc = "store" => c.user = session'.user /\ c.token = rotated
    <3>1. CASE rotated = NoToken
      BY <3>1, <2>1, Tokens, Procs DEF Idle
    <3>2. CASE rotated # NoToken
      BY <3>2, <2>1, <2>2, Procs DEF Calls, Fits, Steps
    <3>. QED
      BY <3>1, <3>2
  <2>. HIDE DEF c
  <2>5. /\ CallsTypeOK' /\ Alone' /\ authCall'["restore"] = c
        /\ \A q \in AuthProc : q # "restore" => authCall'[q] = authCall[q]
    BY <1>1, <2>3, <2>4, Moved, AloneMoves, Procs DEF At
  <2>6. TokensIssued'
    <3>1. keychain'[2] <= issued'
      BY <1>1, <2>1, Tokens, AuthAssumption DEF AuthTypes, TokensIssued
    <3>. QED
      BY <2>1, <2>3, <2>4, <3>1, IssuedMoves, Procs
  <2>7. /\ authState' \in [kind : {"signed-out", "signing-in", "signed-in", "error"}, user : AnyUser]
        /\ (authState'.kind = "signed-in") <=> (authState'.user # NoUser)
        /\ c.pc = "idle" => SignedIn' /\ authState'.user = session'.user /\ left' = FALSE
        /\ c.pc = "store" => UNCHANGED <<authState, left>>
        /\ left' \in BOOLEAN
    <3>1. session'.user \in AnyUser /\ (ShowIn(session'.user) \/ UNCHANGED <<authState, left>>)
          /\ (c.pc = "idle" => ShowIn(session'.user))
          /\ (c.pc = "store" => UNCHANGED <<authState, left>>)
      BY <1>3, <2>1, <2>4
    <3>. DEFINE u == session'.user
    <3>2. u \in AnyUser /\ u # NoUser /\ (ShowIn(u) \/ UNCHANGED <<authState, left>>)
      BY <2>2, <3>1
    <3>. HIDE DEF u
    <3>3. /\ authState' \in [kind : {"signed-out", "signing-in", "signed-in", "error"}, user : AnyUser]
          /\ (authState'.kind = "signed-in") <=> (authState'.user # NoUser)
          /\ left' \in BOOLEAN
          /\ ShowIn(u) => SignedIn' /\ authState'.user = u /\ left' = FALSE
      BY <3>2, Shown
    <3>. QED
      BY <3>1, <3>3 DEF u
  <2>8. AuthTypes'
    BY <1>1, <2>1, <2>7 DEF AuthTypes
  <2>9. ~overlap => /\ ~SignedIn /\ ~left
                    /\ \A q \in AuthProc : q # "restore" => At(q, "idle")
    BY <1>1, Procs DEF RestoreKnows, Alone, At
  <2>10. ~overlap /\ ~unwritten => /\ r.token = keychain /\ active = {r.user}
                                   /\ Owner(keychain) = r.user /\ session'.user = r.user
                                   /\ session'.bearer = r.user /\ Owner(session'.refresh) = r.user
                                   /\ rotated # NoToken => Owner(rotated) = r.user
    BY <1>1, <2>1, <2>2, <2>9, Tokens, Procs, AuthAssumption DEF RestoreKnows, DiskAgrees, At
  <2>11. DiskAgrees' /\ LeftMeans' /\ SignedInMeans'
    BY <1>1, <2>5, <2>7, <2>9, <2>10, <2>4, Procs
       DEF DiskAgrees, LeftMeans, SignedInMeans, SignedIn, SessionOf, At
  <2>12. RestoreKnows' /\ SignInKnows' /\ TokenKnows'
    BY <1>1, <2>4, <2>5, <2>7, <2>9, <2>10, Procs
       DEF RestoreKnows, SignInKnows, TokenKnows, SignedIn, SessionOf, At
  <2>13. Unconfigured'
    BY <1>1 DEF Unconfigured, At
  <2>. QED
    BY <2>5, <2>6, <2>8, <2>11, <2>12, <2>13
<1>4. CASE Go("restore", "unkey") /\ UNCHANGED <<authState, session, issued, left>>
  <2>. DEFINE c == [r EXCEPT !.pc = "unkey"]
  <2>1. Moves("restore", c) /\ UNCHANGED <<authState, session, issued, left>>
    BY <1>4 DEF Go, Moves
  <2>2. c \in Calls /\ Fits("restore", c) /\ c.token[2] <= issued /\ c.pc = "unkey"
    BY <1>1, Procs DEF Calls, Steps, Fits
  <2>. HIDE DEF c
  <2>3. /\ CallsTypeOK' /\ Alone' /\ authCall'["restore"] = c
        /\ \A q \in AuthProc : q # "restore" => authCall'[q] = authCall[q]
    BY <1>1, <2>1, <2>2, Moved, AloneMoves, Procs DEF At
  <2>4. TokensIssued'
    BY <1>1, <2>1, <2>2, IssuedStay, Procs
  <2>5. AuthTypes'
    BY <1>1, <2>1 DEF AuthTypes
  <2>6. DiskAgrees' /\ SignedInMeans' /\ LeftMeans' /\ Unconfigured'
    BY <1>1, <2>1, <2>2, <2>3, Procs
       DEF DiskAgrees, SignedInMeans, LeftMeans, Unconfigured, SignedIn, SessionOf, At
  <2>7. RestoreKnows' /\ SignInKnows' /\ TokenKnows'
    BY <1>1, <2>1, <2>2, <2>3, Procs DEF RestoreKnows, SignInKnows, TokenKnows, SignedIn, SessionOf, At
  <2>. QED
    BY <2>3, <2>4, <2>5, <2>6, <2>7
<1>. QED
  BY <1>2, <1>3, <1>4

LEMMA RestoreStoreStep == ASSUME AuthInv, RestoreStore PROVE AuthInv'
<1>. USE DEF AuthInv
<1>. DEFINE r == authCall["restore"]
<1>1. /\ At("restore", "store") /\ UNCHANGED <<configured, session, active, issued, overlap, unwritten>>
      /\ r \in Calls /\ r.token \in AnyToken /\ r.token # NoToken /\ r.token[2] <= issued
      /\ r.user \in AnyUser /\ r.user # NoUser
  BY Procs DEF RestoreStore, CallsTypeOK, Fits, At, Calls, TokensIssued
<1>. DEFINE kept == [r EXCEPT !.pc = "unkey"]
<1>2. \/ keychain' = r.token /\ ShowIn(r.user) /\ Moves("restore", Idle)
      \/ UNCHANGED <<keychain, authState, left>> /\ Moves("restore", kept)
  BY DEF RestoreStore, Done, Go, Moves
<1>3. PICK c \in {Idle, kept} : /\ Moves("restore", c)
                                /\ c = Idle => keychain' = r.token /\ ShowIn(r.user)
                                /\ c # Idle => UNCHANGED <<keychain, authState, left>>
  <2>1. kept # Idle
    BY <1>1 DEF Idle, Calls
  <2>. QED
    BY <1>2, <2>1
<1>4. /\ c \in Calls /\ Fits("restore", c) /\ c.token[2] <= issued /\ c.pc \in {"idle", "unkey"}
      /\ c.pc = "idle" <=> c = Idle
  <2>1. CASE c = Idle
    BY <2>1, Tokens, Procs, AuthAssumption DEF Idle, AuthTypes
  <2>2. CASE c = kept
    BY <2>2, <1>1, Procs DEF Calls, Steps, Fits, Idle
  <2>. QED
    BY <2>1, <2>2
<1>5. /\ CallsTypeOK' /\ Alone' /\ authCall'["restore"] = c
      /\ \A q \in AuthProc : q # "restore" => authCall'[q] = authCall[q]
  BY <1>1, <1>3, <1>4, Moved, AloneMoves, Procs DEF At
<1>6. TokensIssued'
  BY <1>1, <1>3, <1>4, IssuedStay, Procs
<1>7. /\ authState' \in [kind : {"signed-out", "signing-in", "signed-in", "error"}, user : AnyUser]
      /\ (authState'.kind = "signed-in") <=> (authState'.user # NoUser)
      /\ c.pc = "idle" => SignedIn' /\ authState'.user = r.user /\ left' = FALSE /\ keychain' = r.token
      /\ c.pc # "idle" => UNCHANGED <<authState, left, keychain>>
      /\ left' \in BOOLEAN /\ keychain' \in AnyToken
  <2>1. ShowIn(r.user) \/ UNCHANGED <<authState, left>>
    BY <1>3
  <2>2. keychain' \in AnyToken
    BY <1>1, <1>3 DEF AuthTypes
  <2>. QED
    BY <1>1, <1>3, <1>4, <2>1, <2>2, Shown
<1>8. AuthTypes'
  BY <1>1, <1>7 DEF AuthTypes
<1>9. ~overlap => /\ ~SignedIn /\ ~left
                  /\ \A q \in AuthProc : q # "restore" => At(q, "idle")
                  /\ ~unwritten => active = {r.user} /\ Owner(r.token) = r.user /\ SessionOf(r.user)
  BY <1>1, Procs DEF RestoreKnows, Alone, At
<1>10. DiskAgrees' /\ LeftMeans' /\ SignedInMeans'
  BY <1>1, <1>4, <1>5, <1>7, <1>9, Procs
     DEF DiskAgrees, LeftMeans, SignedInMeans, SignedIn, SessionOf, At
<1>11. RestoreKnows' /\ SignInKnows' /\ TokenKnows'
  BY <1>1, <1>4, <1>5, <1>7, <1>9, Procs
     DEF RestoreKnows, SignInKnows, TokenKnows, SignedIn, SessionOf, At
<1>12. Unconfigured'
  BY <1>1 DEF Unconfigured, At
<1>. QED
  BY <1>5, <1>6, <1>8, <1>10, <1>11, <1>12

LEMMA RestoreUnkeyStep == ASSUME AuthInv, RestoreUnkey \/ RestoreClear PROVE AuthInv'
<1>. USE DEF AuthInv
<1>. DEFINE r == authCall["restore"]
            on == [r EXCEPT !.pc = "clear"]
<1>1. /\ UNCHANGED <<configured, authState, session, issued, overlap, unwritten, left>>
      /\ r \in Calls /\ r.token[2] <= issued /\ r.pc \in {"unkey", "clear"}
      /\ keychain' \in {keychain, NoToken} /\ active' \in {{}, active}
  BY Procs DEF RestoreUnkey, RestoreClear, Deleted, CallsTypeOK, TokensIssued, At
<1>2. PICK c \in {Idle, on} : Moves("restore", c)
  <2>1. CASE RestoreUnkey
    BY <2>1 DEF RestoreUnkey, Go, Moves
  <2>2. CASE RestoreClear
    BY <2>2 DEF RestoreClear, Done, Moves
  <2>. QED
    BY <2>1, <2>2
<1>3. c \in Calls /\ Fits("restore", c) /\ c.token[2] <= issued /\ c.pc \in {"idle", "clear"}
  <2>1. CASE c = Idle
    BY <2>1, Tokens, Procs, AuthAssumption DEF Idle, AuthTypes
  <2>2. CASE c = on
    BY <2>2, <1>1, Procs DEF Calls, Steps, Fits
  <2>. QED
    BY <2>1, <2>2
<1>4. /\ CallsTypeOK' /\ Alone' /\ authCall'["restore"] = c
      /\ \A q \in AuthProc : q # "restore" => authCall'[q] = authCall[q]
  BY <1>1, <1>2, <1>3, Moved, AloneMoves, Procs DEF At
<1>5. TokensIssued'
  BY <1>1, <1>2, <1>3, IssuedStay, Procs
<1>6. AuthTypes'
  BY <1>1, Tokens DEF AuthTypes
<1>7. ~overlap => ~SignedIn /\ ~left /\ \A q \in AuthProc : q # "restore" => At(q, "idle")
  BY <1>1, Procs DEF RestoreKnows, Alone, At
<1>8. DiskAgrees' /\ SignedInMeans' /\ LeftMeans' /\ Unconfigured'
  BY <1>1, <1>3, <1>4, <1>7, Tokens, Procs
     DEF DiskAgrees, SignedInMeans, LeftMeans, Unconfigured, SignedIn, At
<1>9. RestoreKnows' /\ SignInKnows' /\ TokenKnows'
  BY <1>1, <1>3, <1>4, <1>7, Procs DEF RestoreKnows, SignInKnows, TokenKnows, SignedIn, At
<1>. QED
  BY <1>4, <1>5, <1>6, <1>8, <1>9

-----------------------------------------------------------------------------
LEMMA SignInRefusedStep == ASSUME AuthInv, SignInRefused PROVE AuthInv'
<1>. USE DEF AuthInv
<1>1. /\ ~configured /\ authState' = [kind |-> "error", user |-> NoUser]
      /\ UNCHANGED <<configured, session, keychain, active, authCall, issued, overlap, unwritten, left>>
  BY DEF SignInRefused, Show
<1>2. ~SignedIn /\ ~SignedIn'
  BY <1>1 DEF Unconfigured, SignedIn
<1>3. CallsTypeOK' /\ AuthTypes' /\ TokensIssued' /\ Alone'
  BY <1>1, Tokens DEF CallsTypeOK, Fits, AuthTypes, TokensIssued, Alone, At
<1>4. DiskAgrees' /\ LeftMeans' /\ Unconfigured' /\ SignedInMeans'
  BY <1>1, <1>2 DEF DiskAgrees, LeftMeans, Unconfigured, SignedInMeans, At
<1>5. RestoreKnows' /\ SignInKnows'
  BY <1>1, <1>2 DEF RestoreKnows, SignInKnows, SessionOf
<1>6. TokenKnows'
  BY <1>1, <1>2 DEF TokenKnows, At
<1>. QED
  BY <1>3, <1>4, <1>5, <1>6

LEMMA SignInStartStep == ASSUME AuthInv, SignInStart PROVE AuthInv'
<1>. USE DEF AuthInv
<1>. DEFINE c == [Idle EXCEPT !.pc = "open"]
<1>1. /\ configured /\ Start("signIn", c) /\ authState' = [kind |-> "signing-in", user |-> NoUser]
      /\ UNCHANGED <<configured, session, keychain, active, issued, unwritten, left>>
  BY DEF SignInStart, Show
<1>2. /\ c \in Calls /\ Fits("signIn", c) /\ c.pc = "open" /\ c.token[2] <= issued
  BY Tokens, Procs, AuthAssumption DEF Calls, Steps, Fits, Idle, AuthTypes
<1>. HIDE DEF c
<1>3. /\ Moves("signIn", c) /\ At("signIn", "idle") /\ Alone' /\ overlap' \in BOOLEAN
      /\ ~overlap' => ~overlap /\ \A q \in AuthProc : At(q, "idle")
  BY <1>1, <1>2, AloneStarts, Procs
<1>4. /\ CallsTypeOK' /\ authCall'["signIn"] = c
      /\ \A q \in AuthProc : q # "signIn" => authCall'[q] = authCall[q]
  BY <1>2, <1>3, Moved, Procs
<1>5. TokensIssued'
  BY <1>1, <1>2, <1>3, IssuedStay, Procs
<1>6. AuthTypes'
  BY <1>1, <1>3, Tokens DEF AuthTypes
<1>7. DiskAgrees' /\ SignedInMeans' /\ LeftMeans' /\ Unconfigured'
  BY <1>1, <1>2, <1>3, <1>4, Procs DEF DiskAgrees, SignedInMeans, LeftMeans, Unconfigured, SignedIn, At
<1>8. RestoreKnows' /\ SignInKnows' /\ TokenKnows'
  BY <1>1, <1>2, <1>3, <1>4, Procs DEF RestoreKnows, SignInKnows, TokenKnows, SignedIn, At
<1>. QED
  BY <1>3, <1>4, <1>5, <1>6, <1>7, <1>8

\* The browser; no callback; what ends the sign-in with an error.
LEMMA SignInWaitStep ==
  ASSUME AuthInv, SignInOpen \/ SignInCallback \/ SignInTimeout \/ SignInFails
  PROVE  AuthInv'
<1>. USE DEF AuthInv
<1>. DEFINE r == authCall["signIn"]
            on(pc) == [r EXCEPT !.pc = pc]
<1>1. /\ UNCHANGED <<configured, session, keychain, active, issued, overlap, unwritten, left>>
      /\ authState' \in {authState, [kind |-> "error", user |-> NoUser]}
      /\ r \in Calls /\ r.token[2] <= issued /\ r.pc \in {"open", "wait", "exchange", "upsert"}
  BY Procs DEF SignInOpen, SignInCallback, SignInTimeout, SignInFails, Show, CallsTypeOK, TokensIssued, At
<1>2. PICK c \in {Idle, on("wait"), on("exchange")} : Moves("signIn", c)
  <2>1. CASE SignInOpen
    BY <2>1 DEF SignInOpen, Go, Moves
  <2>2. CASE SignInCallback
    BY <2>2 DEF SignInCallback, Go, Moves
  <2>3. CASE SignInTimeout \/ SignInFails
    BY <2>3 DEF SignInTimeout, SignInFails, Done, Moves
  <2>. QED
    BY <2>1, <2>2, <2>3
<1>3. c \in Calls /\ Fits("signIn", c) /\ c.token[2] <= issued /\ c.pc \in {"idle", "wait", "exchange"}
  <2>1. CASE c = Idle
    BY <2>1, Tokens, Procs, AuthAssumption DEF Idle, AuthTypes
  <2>2. CASE c \in {on("wait"), on("exchange")}
    BY <2>2, <1>1, Procs DEF Calls, Steps, Fits
  <2>. QED
    BY <2>1, <2>2
<1>4. /\ CallsTypeOK' /\ Alone' /\ authCall'["signIn"] = c
      /\ \A q \in AuthProc : q # "signIn" => authCall'[q] = authCall[q]
  BY <1>1, <1>2, <1>3, Moved, AloneMoves, Procs DEF At
<1>5. TokensIssued'
  BY <1>1, <1>2, <1>3, IssuedStay, Procs
<1>6. AuthTypes'
  BY <1>1, Tokens DEF AuthTypes
<1>7. ~overlap => ~SignedIn /\ ~SignedIn' /\ \A q \in AuthProc : q # "signIn" => At(q, "idle")
  BY <1>1, Procs DEF SignInKnows, Alone, At, SignedIn
<1>8. DiskAgrees' /\ SignedInMeans' /\ LeftMeans'
  BY <1>1, <1>3, <1>4, <1>7, Procs DEF DiskAgrees, SignedInMeans, LeftMeans, At
<1>9. Unconfigured'
  BY <1>1 DEF Unconfigured, At
<1>10. RestoreKnows' /\ SignInKnows' /\ TokenKnows'
  BY <1>1, <1>3, <1>4, <1>7, Procs DEF RestoreKnows, SignInKnows, TokenKnows, At
<1>. QED
  BY <1>4, <1>5, <1>6, <1>8, <1>9, <1>10

LEMMA SignInExchangeStep == ASSUME AuthInv, SignInExchange PROVE AuthInv'
<1>. USE DEF AuthInv
<1>1. /\ At("signIn", "exchange")
      /\ UNCHANGED <<configured, authState, keychain, active, overlap, unwritten, left>>
  BY DEF SignInExchange
<1>2. PICK u \in Account, t \in Token \cup {NoToken} :
        /\ Issue(u, t) /\ session' = NewSession(u, t)
        /\ Moves("signIn", [pc |-> "upsert", user |-> u, token |-> t])
  BY DEF SignInExchange, Moves
<1>3. /\ u \in AnyUser /\ u # NoUser /\ t \in AnyToken /\ Owner(t) \in {u, NoUser}
      /\ issued' \in 1 .. MaxToken /\ issued' \in Nat /\ issued <= issued' /\ t[2] <= issued'
      /\ keychain'[2] <= issued'
  <2>1. issued \in Nat /\ MaxToken \in Nat /\ keychain[2] \in Nat /\ keychain[2] <= issued
    BY Tokens, AuthAssumption DEF AuthTypes, TokensIssued
  <2>2. u \in AnyUser /\ u # NoUser /\ t \in AnyToken
    BY AuthAssumption DEF AnyUser, AnyToken
  <2>3. CASE t = NoToken /\ issued' = issued
    BY <1>1, <2>1, <2>2, <2>3, Tokens DEF AuthTypes
  <2>4. CASE issued < MaxToken /\ issued' = issued + 1 /\ t = <<u, issued + 1>>
    BY <1>1, <2>1, <2>2, <2>4 DEF AuthTypes, Owner
  <2>. QED
    BY <1>2, <2>3, <2>4 DEF Issue
<1>. DEFINE c == [pc |-> "upsert", user |-> u, token |-> t]
<1>4. c \in Calls /\ Fits("signIn", c) /\ c.pc = "upsert" /\ c.user = u /\ c.token = t
  BY <1>3, Procs DEF Calls, Steps, Fits
<1>5. /\ session' \in [user : AnyUser, refresh : AnyToken, bearer : AnyUser, fresh : BOOLEAN]
      /\ session'.user = u /\ session'.bearer = u /\ session'.refresh = t
  BY <1>2, <1>3 DEF NewSession
<1>6. Moves("signIn", c)
  BY <1>2
<1>. HIDE DEF c
<1>7. /\ CallsTypeOK' /\ Alone' /\ authCall'["signIn"] = c
      /\ \A q \in AuthProc : q # "signIn" => authCall'[q] = authCall[q]
  BY <1>1, <1>4, <1>6, Moved, AloneMoves, Procs DEF At
<1>8. TokensIssued'
  BY <1>3, <1>4, <1>5, <1>6, IssuedMoves, Procs
<1>9. AuthTypes'
  BY <1>1, <1>3, <1>5 DEF AuthTypes
<1>10. ~overlap => ~SignedIn /\ \A q \in AuthProc : q # "signIn" => At(q, "idle")
  BY <1>1, Procs DEF SignInKnows, Alone, At
<1>11. DiskAgrees' /\ SignedInMeans' /\ LeftMeans'
  BY <1>1, <1>4, <1>7, <1>10, Procs DEF DiskAgrees, SignedInMeans, LeftMeans, At, SignedIn
<1>12. Unconfigured'
  BY <1>1 DEF Unconfigured, At
<1>13. RestoreKnows' /\ SignInKnows' /\ TokenKnows'
  BY <1>1, <1>3, <1>4, <1>5, <1>7, <1>10, Procs
     DEF RestoreKnows, SignInKnows, TokenKnows, At, SignedIn, SessionOf
<1>. QED
  BY <1>7, <1>8, <1>9, <1>11, <1>12, <1>13

LEMMA SignInUpsertStep == ASSUME AuthInv, SignInUpsert PROVE AuthInv'
<1>. USE DEF AuthInv
<1>. DEFINE r == authCall["signIn"]
            on == [r EXCEPT !.pc = "store"]
            c == IF r.token = NoToken THEN Idle ELSE on
<1>1. /\ At("signIn", "upsert") /\ UNCHANGED <<configured, session, keychain, issued, overlap>>
      /\ active' = {r.user}
      /\ r \in Calls /\ r.token[2] <= issued /\ r.user \in Account /\ r.user # NoUser
      /\ r.user \in AnyUser /\ r.token \in AnyToken
  BY Procs DEF SignInUpsert, UpsertActive, CallsTypeOK, Fits, At, Calls, TokensIssued, AnyUser
<1>2. /\ r.token = NoToken => ShowIn(r.user) /\ unwritten' = (unwritten \/ Mismatch)
      /\ r.token # NoToken => UNCHANGED <<authState, unwritten, left>>
      /\ Moves("signIn", c)
  BY DEF SignInUpsert, Done, Go, Moves
<1>3. /\ c \in Calls /\ Fits("signIn", c) /\ c.token[2] <= issued
      /\ r.token = NoToken => c.pc = "idle"
      /\ r.token # NoToken => c.pc = "store" /\ c.user = r.user /\ c.token = r.token
  <2>1. CASE r.token = NoToken
    BY <2>1, Tokens, Procs, AuthAssumption DEF Idle, AuthTypes
  <2>2. CASE r.token # NoToken
    BY <2>2, <1>1, Procs DEF Calls, Steps, Fits
  <2>. QED
    BY <2>1, <2>2
<1>. HIDE DEF c
<1>4. /\ CallsTypeOK' /\ Alone' /\ authCall'["signIn"] = c
      /\ \A q \in AuthProc : q # "signIn" => authCall'[q] = authCall[q]
  BY <1>1, <1>2, <1>3, Moved, AloneMoves, Procs DEF At
<1>5. TokensIssued'
  BY <1>1, <1>2, <1>3, IssuedStay, Procs
<1>6. /\ authState' \in [kind : {"signed-out", "signing-in", "signed-in", "error"}, user : AnyUser]
      /\ (authState'.kind = "signed-in") <=> (authState'.user # NoUser)
      /\ left' \in BOOLEAN
      /\ r.token = NoToken => SignedIn' /\ authState'.user = r.user /\ left' = FALSE
  BY <1>1, <1>2, Shown
<1>7. unwritten' \in BOOLEAN /\ (~unwritten' => ~unwritten)
  <2>1. CASE r.token = NoToken
    BY <1>2, <2>1, ZenonT(20)
  <2>2. CASE r.token # NoToken
    BY <1>2, <2>2 DEF AuthTypes
  <2>. QED
    BY <2>1, <2>2
<1>8. AuthTypes'
  BY <1>1, <1>6, <1>7 DEF AuthTypes
<1>9. ~overlap => /\ ~SignedIn /\ \A q \in AuthProc : q # "signIn" => At(q, "idle")
                  /\ SessionOf(r.user) /\ Owner(r.token) \in {r.user, NoUser}
  BY <1>1, Procs DEF SignInKnows, Alone, At
<1>10. r.token = NoToken /\ ~unwritten' => Owner(keychain) \in {NoUser, r.user}
  <2>1. r.token = NoToken /\ ~unwritten' => ~Mismatch
    BY <1>2, ZenonT(20)
  <2>. QED
    BY <2>1 DEF Mismatch
<1>11. DiskAgrees' /\ SignedInMeans' /\ LeftMeans'
  BY <1>1, <1>2, <1>3, <1>4, <1>6, <1>9, <1>10, Procs
     DEF DiskAgrees, SignedInMeans, LeftMeans, At, SignedIn, SessionOf
<1>12. Unconfigured'
  BY <1>1 DEF Unconfigured, At
<1>13. RestoreKnows' /\ SignInKnows' /\ TokenKnows'
  BY <1>1, <1>2, <1>3, <1>4, <1>9, Procs
     DEF RestoreKnows, SignInKnows, TokenKnows, At, SignedIn, SessionOf
<1>. QED
  BY <1>4, <1>5, <1>8, <1>11, <1>12, <1>13

LEMMA SignInStoreStep == ASSUME AuthInv, SignInStore PROVE AuthInv'
<1>. USE DEF AuthInv
<1>. DEFINE r == authCall["signIn"]
<1>1. /\ At("signIn", "store") /\ UNCHANGED <<configured, session, active, issued, overlap>>
      /\ r \in Calls /\ r.token[2] <= issued /\ r.user \in Account /\ r.user # NoUser
      /\ r.user \in AnyUser /\ r.token \in AnyToken
      /\ ShowIn(r.user) /\ Moves("signIn", Idle)
      /\ \/ keychain' = r.token /\ unwritten' = FALSE
         \/ UNCHANGED keychain /\ unwritten' = (unwritten \/ Mismatch)
  BY Procs DEF SignInStore, Done, Moves, CallsTypeOK, Fits, At, Calls, TokensIssued, AnyUser
<1>2. Idle \in Calls /\ Fits("signIn", Idle) /\ Idle.pc = "idle" /\ Idle.token[2] <= issued
  BY Tokens, Procs, AuthAssumption DEF Idle, AuthTypes
<1>3. /\ CallsTypeOK' /\ Alone' /\ authCall'["signIn"] = Idle
      /\ \A q \in AuthProc : q # "signIn" => authCall'[q] = authCall[q]
  BY <1>1, <1>2, Moved, AloneMoves, Procs DEF At
<1>4. TokensIssued'
  BY <1>1, <1>2, IssuedStay, Procs
<1>5. /\ authState' \in [kind : {"signed-out", "signing-in", "signed-in", "error"}, user : AnyUser]
      /\ (authState'.kind = "signed-in") <=> (authState'.user # NoUser)
      /\ left' \in BOOLEAN /\ SignedIn' /\ authState'.user = r.user /\ left' = FALSE
  BY <1>1, Shown
<1>6. unwritten' \in BOOLEAN
  <2>1. CASE unwritten' = FALSE
    BY <2>1
  <2>2. CASE unwritten' = (unwritten \/ Mismatch)
    BY <2>2, ZenonT(20)
  <2>. QED
    BY <1>1, <2>1, <2>2
<1>7. keychain' \in AnyToken
  BY <1>1 DEF AuthTypes
<1>8. AuthTypes'
  BY <1>1, <1>5, <1>6, <1>7 DEF AuthTypes
<1>9. ~overlap => /\ \A q \in AuthProc : q # "signIn" => At(q, "idle")
                  /\ SessionOf(r.user) /\ Owner(r.token) \in {r.user, NoUser} /\ active = {r.user}
  BY <1>1, Procs DEF SignInKnows, Alone, At
<1>10. ~overlap /\ ~unwritten' => Owner(keychain') \in {NoUser, r.user}
  <2>1. CASE keychain' = r.token
    BY <2>1, <1>9
  <2>2. CASE UNCHANGED keychain /\ unwritten' = (unwritten \/ Mismatch)
    <3>1. ~unwritten' => ~Mismatch
      BY <2>2, ZenonT(20)
    <3>. QED
      BY <2>2, <3>1 DEF Mismatch
  <2>. QED
    BY <1>1, <2>1, <2>2
<1>11. DiskAgrees' /\ SignedInMeans' /\ LeftMeans'
  BY <1>1, <1>2, <1>3, <1>5, <1>9, <1>10, Procs
     DEF DiskAgrees, SignedInMeans, LeftMeans, At, SignedIn, SessionOf
<1>12. Unconfigured'
  BY <1>1 DEF Unconfigured, At
<1>13. RestoreKnows' /\ SignInKnows' /\ TokenKnows'
  BY <1>1, <1>2, <1>3, <1>9, Procs DEF RestoreKnows, SignInKnows, TokenKnows, At
<1>. QED
  BY <1>3, <1>4, <1>8, <1>11, <1>12, <1>13

-----------------------------------------------------------------------------
LEMMA SignOutStartStep == ASSUME AuthInv, NEW p \in OutCall, SignOutStart(p) PROVE AuthInv'
<1>. USE DEF AuthInv
<1>. DEFINE c == [Idle EXCEPT !.pc = "clear"]
<1>1. /\ Start(p, c) /\ session' = NoSession
      /\ UNCHANGED <<configured, authState, keychain, active, issued, unwritten, left>>
  BY DEF SignOutStart
<1>2. /\ p \in AuthProc /\ p \notin TokenCall /\ p # "restore" /\ p # "signIn"
      /\ c \in Calls /\ Fits(p, c) /\ c.pc = "clear" /\ c.token[2] <= issued
  BY Tokens, Procs, AuthAssumption DEF Calls, Steps, Fits, Idle, AuthTypes
<1>. HIDE DEF c
<1>3. /\ Moves(p, c) /\ At(p, "idle") /\ Alone' /\ overlap' \in BOOLEAN
      /\ ~overlap' => ~overlap /\ \A q \in AuthProc : At(q, "idle")
  BY <1>1, <1>2, AloneStarts
<1>4. /\ CallsTypeOK' /\ authCall'[p] = c
      /\ \A q \in AuthProc : q # p => authCall'[q] = authCall[q]
  BY <1>2, <1>3, Moved
<1>5. TokensIssued'
  BY <1>1, <1>2, <1>3, IssuedStay
<1>6. AuthTypes'
  BY <1>1, <1>3, Tokens DEF AuthTypes
<1>7. DiskAgrees' /\ SignedInMeans' /\ LeftMeans' /\ Unconfigured'
  BY <1>1, <1>2, <1>3, <1>4, Procs DEF DiskAgrees, SignedInMeans, LeftMeans, Unconfigured, SignedIn, At
<1>8. RestoreKnows' /\ SignInKnows' /\ TokenKnows'
  BY <1>1, <1>2, <1>3, <1>4, Procs DEF RestoreKnows, SignInKnows, TokenKnows, SignedIn, At
<1>. QED
  BY <1>3, <1>4, <1>5, <1>6, <1>7, <1>8

LEMMA SignOutClearStep == ASSUME AuthInv, NEW p \in OutCall, SignOutClear(p) PROVE AuthInv'
<1>. USE DEF AuthInv
<1>. DEFINE c == [authCall[p] EXCEPT !.pc = "unkey"]
<1>1. /\ At(p, "clear") /\ active' \in {{}, active} /\ Moves(p, c)
      /\ UNCHANGED <<configured, authState, session, keychain, issued, overlap, unwritten, left>>
  BY DEF SignOutClear, Go, Moves
<1>2. /\ p \in AuthProc /\ p \notin TokenCall /\ p # "restore" /\ p # "signIn"
      /\ c \in Calls /\ Fits(p, c) /\ c.pc = "unkey" /\ c.token[2] <= issued
  BY Procs DEF CallsTypeOK, Calls, Steps, Fits, TokensIssued
<1>. HIDE DEF c
<1>3. /\ CallsTypeOK' /\ Alone' /\ authCall'[p] = c
      /\ \A q \in AuthProc : q # p => authCall'[q] = authCall[q]
  BY <1>1, <1>2, Moved, AloneMoves DEF At
<1>4. TokensIssued'
  BY <1>1, <1>2, IssuedStay
<1>5. AuthTypes'
  BY <1>1 DEF AuthTypes
<1>6. ~overlap => \A q \in AuthProc : q # p => At(q, "idle")
  BY <1>1, <1>2 DEF Alone, At
<1>7. DiskAgrees' /\ SignedInMeans' /\ LeftMeans' /\ Unconfigured'
  BY <1>1, <1>2, <1>3, <1>6, Procs DEF DiskAgrees, SignedInMeans, LeftMeans, Unconfigured, SignedIn, At
<1>8. RestoreKnows' /\ SignInKnows' /\ TokenKnows'
  BY <1>1, <1>2, <1>3, <1>6, Procs DEF RestoreKnows, SignInKnows, TokenKnows, SignedIn, At
<1>. QED
  BY <1>3, <1>4, <1>5, <1>7, <1>8

LEMMA SignOutEndStep == ASSUME AuthInv, NEW p \in OutCall, SignOutEnd(p) PROVE AuthInv'
<1>. USE DEF AuthInv
<1>1. /\ At(p, "unkey") /\ keychain' = NoToken /\ unwritten' = FALSE
      /\ authState' = [kind |-> "signed-out", user |-> NoUser] /\ left' = TRUE /\ Moves(p, Idle)
      /\ UNCHANGED <<configured, session, active, issued, overlap>>
  BY DEF SignOutEnd, Done, Moves, Show, Deleted
<1>2. /\ p \in AuthProc /\ p \notin TokenCall /\ p # "restore" /\ p # "signIn"
      /\ Idle \in Calls /\ Fits(p, Idle) /\ Idle.pc = "idle" /\ Idle.token[2] <= issued
  BY Tokens, Procs, AuthAssumption DEF Idle, AuthTypes
<1>3. /\ CallsTypeOK' /\ Alone' /\ authCall'[p] = Idle
      /\ \A q \in AuthProc : q # p => authCall'[q] = authCall[q]
  BY <1>1, <1>2, Moved, AloneMoves DEF At
<1>4. TokensIssued'
  BY <1>1, <1>2, IssuedStay
<1>5. AuthTypes'
  BY <1>1, Tokens DEF AuthTypes
<1>6. ~overlap => \A q \in AuthProc : q # p => At(q, "idle")
  BY <1>1, <1>2 DEF Alone, At
<1>7. DiskAgrees' /\ SignedInMeans' /\ LeftMeans' /\ Unconfigured'
  BY <1>1, <1>2, <1>3, <1>6, Tokens, Procs
     DEF DiskAgrees, SignedInMeans, LeftMeans, Unconfigured, SignedIn, At
<1>8. RestoreKnows' /\ SignInKnows' /\ TokenKnows'
  BY <1>1, <1>2, <1>3, <1>6, Procs DEF RestoreKnows, SignInKnows, TokenKnows, SignedIn, At
<1>. QED
  BY <1>3, <1>4, <1>5, <1>7, <1>8

-----------------------------------------------------------------------------
LEMMA TokenStartStep == ASSUME AuthInv, NEW p \in TokenCall, TokenStart(p) PROVE AuthInv'
<1>. USE DEF AuthInv
<1>. DEFINE c == [Idle EXCEPT !.pc = "refresh", !.token = session.refresh]
<1>1. /\ SignedIn /\ session.refresh # NoToken /\ Start(p, c)
      /\ UNCHANGED <<configured, authState, session, keychain, active, issued, unwritten, left>>
  BY DEF TokenStart, SignedIn
<1>2. /\ p \in AuthProc /\ p \notin OutCall /\ p # "restore" /\ p # "signIn"
      /\ c \in Calls /\ Fits(p, c) /\ c.pc = "refresh" /\ c.token = session.refresh
      /\ c.token[2] <= issued
  BY <1>1, Tokens, Procs DEF Calls, Steps, Fits, Idle, AuthTypes, TokensIssued
<1>. HIDE DEF c
<1>3. /\ Moves(p, c) /\ At(p, "idle") /\ Alone' /\ overlap' \in BOOLEAN
      /\ ~overlap' => ~overlap /\ \A q \in AuthProc : ~At(q, "idle") => q \in TokenCall
  BY <1>1, <1>2, AloneStarts
<1>4. /\ CallsTypeOK' /\ authCall'[p] = c
      /\ \A q \in AuthProc : q # p => authCall'[q] = authCall[q]
  BY <1>2, <1>3, Moved
<1>5. TokensIssued'
  BY <1>1, <1>2, <1>3, IssuedStay
<1>6. AuthTypes'
  BY <1>1, <1>3 DEF AuthTypes
<1>7. ~overlap' => \A q \in OutCall \cup {"restore", "signIn"} : At(q, "idle") /\ At(q, "idle")'
  BY <1>2, <1>3, <1>4, Procs DEF At
<1>8. ~overlap' /\ ~unwritten => Owner(c.token) = authState.user
  <2>1. ~overlap' /\ ~unwritten => SessionOf(authState.user)
    BY <1>1, <1>3, <1>7 DEF SignedInMeans
  <2>. QED
    BY <2>1, <1>1, <1>2, Tokens DEF SessionOf, AuthTypes
<1>9. DiskAgrees' /\ SignedInMeans' /\ LeftMeans' /\ Unconfigured'
  BY <1>1, <1>2, <1>3, <1>4, <1>7, Procs
     DEF DiskAgrees, SignedInMeans, LeftMeans, Unconfigured, SignedIn, SessionOf, At
<1>10. RestoreKnows' /\ SignInKnows'
  BY <1>7 DEF RestoreKnows, SignInKnows, At
<1>11. TokenKnows'
  BY <1>1, <1>2, <1>3, <1>4, <1>8, Procs DEF TokenKnows, SignedIn, At
<1>. QED
  BY <1>3, <1>4, <1>5, <1>6, <1>9, <1>10, <1>11

LEMMA TokenRefreshStep == ASSUME AuthInv, NEW p \in TokenCall, TokenRefresh(p) PROVE AuthInv'
<1>. USE DEF AuthInv
<1>. DEFINE t == authCall[p].token
            stored(rotated) == [Idle EXCEPT !.pc = "store", !.token = rotated]
<1>1. /\ At(p, "refresh") /\ UNCHANGED <<configured, authState, keychain, active, overlap, unwritten, left>>
      /\ p \in AuthProc /\ p \notin OutCall /\ p # "restore" /\ p # "signIn"
      /\ t \in AnyToken /\ t # NoToken
      /\ session.user \in AnyUser /\ session.refresh \in AnyToken /\ session.refresh[2] <= issued
  BY Procs DEF TokenRefresh, CallsTypeOK, Fits, At, Calls, AuthTypes, TokensIssued
<1>2. PICK c \in Calls :
        /\ Moves(p, c) /\ Fits(p, c) /\ c.token[2] <= issued' /\ c.pc \in {"idle", "store"}
        /\ session' \in [user : AnyUser, refresh : AnyToken, bearer : AnyUser, fresh : BOOLEAN]
        /\ issued' \in 1 .. MaxToken /\ issued <= issued' /\ issued' \in Nat
        /\ session'.refresh[2] <= issued'
        /\ c.pc = "store" => Owner(c.token) = Owner(t)
        /\ session' = session \/ /\ session'.user \in {session.user, Owner(t)}
                                 /\ session'.bearer = Owner(t)
                                 /\ Owner(session'.refresh) \in {Owner(session.refresh), Owner(t)}
  <2>1. ASSUME NEW user \in Account \cup {NoUser}, NEW rotated \in Token \cup {NoToken},
               Refreshed(t, session.user, session.refresh, user, rotated),
               IF rotated = NoToken THEN Moves(p, Idle) ELSE Moves(p, stored(rotated))
        PROVE  \E c \in {Idle, stored(rotated)} :
                 /\ c \in Calls /\ Moves(p, c) /\ Fits(p, c) /\ c.token[2] <= issued'
                 /\ c.pc \in {"idle", "store"}
                 /\ session' \in [user : AnyUser, refresh : AnyToken, bearer : AnyUser, fresh : BOOLEAN]
                 /\ issued' \in 1 .. MaxToken /\ issued <= issued' /\ issued' \in Nat
                 /\ session'.refresh[2] <= issued'
                 /\ c.pc = "store" => Owner(c.token) = Owner(t)
                 /\ session'.user \in {session.user, Owner(t)} /\ session'.bearer = Owner(t)
                 /\ Owner(session'.refresh) \in {Owner(session.refresh), Owner(t)}
    <3>1. /\ session' \in [user : AnyUser, refresh : AnyToken, bearer : AnyUser, fresh : BOOLEAN]
          /\ issued' \in 1 .. MaxToken /\ issued <= issued' /\ issued' \in Nat
          /\ rotated \in AnyToken /\ rotated[2] <= issued' /\ session'.refresh[2] <= issued'
          /\ rotated # NoToken => Owner(rotated) = Owner(t)
          /\ session'.user \in {session.user, Owner(t)} /\ session'.bearer = Owner(t)
          /\ session'.refresh \in {session.refresh, rotated}
          /\ rotated = NoToken => session'.refresh = session.refresh
      BY <1>1, <2>1, RefreshedMeans
    <3>2. Owner(session'.refresh) \in {Owner(session.refresh), Owner(t)}
      BY <3>1
    <3>3. CASE rotated = NoToken
      BY <2>1, <3>1, <3>2, <3>3, <1>1, Tokens DEF Idle
    <3>4. CASE rotated # NoToken
      <4>1. /\ stored(rotated) \in Calls /\ stored(rotated).pc = "store"
            /\ stored(rotated).token = rotated /\ Fits(p, stored(rotated))
        BY <1>1, <3>1, <3>4, Tokens DEF Idle, Calls, Steps, Fits
      <4>. QED
        BY <2>1, <3>1, <3>2, <3>4, <4>1
    <3>. QED
      BY <3>3, <3>4
  <2>2. CASE Moves(p, Idle) /\ UNCHANGED <<session, issued>>
    <3>1. /\ issued \in 1 .. MaxToken /\ issued <= issued /\ issued \in Nat /\ Idle.token[2] <= issued
      BY Tokens, AuthAssumption DEF Idle, AuthTypes
    <3>. QED
      BY <2>2, <3>1, <1>1, Tokens DEF Idle, AuthTypes
  <2>3. \/ \E user \in Account \cup {NoUser}, rotated \in Token \cup {NoToken} :
             /\ Refreshed(t, session.user, session.refresh, user, rotated)
             /\ IF rotated = NoToken THEN Moves(p, Idle) ELSE Moves(p, stored(rotated))
        \/ Moves(p, Idle) /\ UNCHANGED <<session, issued>>
    BY DEF TokenRefresh, Done, Moves
  <2>. QED
    BY <2>1, <2>2, <2>3
<1>3. /\ CallsTypeOK' /\ Alone' /\ authCall'[p] = c
      /\ \A q \in AuthProc : q # p => authCall'[q] = authCall[q]
  BY <1>1, <1>2, Moved, AloneMoves DEF At
<1>4. TokensIssued'
  <2>1. keychain'[2] <= issued'
    BY <1>1, <1>2, Tokens, AuthAssumption DEF AuthTypes, TokensIssued
  <2>. QED
    BY <1>1, <1>2, <2>1, IssuedMoves
<1>5. AuthTypes'
  BY <1>1, <1>2 DEF AuthTypes
<1>6. ~overlap => /\ SignedIn /\ (~unwritten => Owner(t) = authState.user)
                  /\ \A q \in OutCall \cup {"restore", "signIn"} : At(q, "idle") /\ At(q, "idle")'
  BY <1>1, <1>3, Procs DEF TokenKnows, Alone, At
<1>7. ~overlap /\ ~unwritten => SessionOf(authState.user) /\ SessionOf(authState.user)'
  <2>1. ~overlap /\ ~unwritten => SessionOf(authState.user)
    BY <1>6 DEF SignedInMeans
  <2>. QED
    BY <2>1, <1>1, <1>2, <1>6 DEF SessionOf
<1>8. DiskAgrees' /\ SignedInMeans' /\ LeftMeans' /\ Unconfigured'
  BY <1>1, <1>3, <1>6, <1>7, Procs
     DEF DiskAgrees, SignedInMeans, LeftMeans, Unconfigured, SignedIn, At
<1>9. RestoreKnows' /\ SignInKnows'
  BY <1>1, <1>6 DEF RestoreKnows, SignInKnows, At
<1>10. TokenKnows'
  BY <1>1, <1>2, <1>3, <1>6, Procs DEF TokenKnows, SignedIn, At
<1>. QED
  BY <1>3, <1>4, <1>5, <1>8, <1>9, <1>10

LEMMA TokenStoreStep == ASSUME AuthInv, NEW p \in TokenCall, TokenStore(p) PROVE AuthInv'
<1>. USE DEF AuthInv
<1>. DEFINE t == authCall[p].token
<1>1. /\ At(p, "store") /\ keychain' \in {t, keychain} /\ Moves(p, Idle)
      /\ UNCHANGED <<configured, authState, session, active, issued, overlap, unwritten, left>>
      /\ t \in AnyToken
  BY Procs DEF TokenStore, Done, Moves, CallsTypeOK, Calls
<1>2. /\ p \in AuthProc /\ p \notin OutCall /\ p # "restore" /\ p # "signIn"
      /\ Idle \in Calls /\ Fits(p, Idle) /\ Idle.pc = "idle" /\ Idle.token[2] <= issued
  BY Tokens, Procs, AuthAssumption DEF Idle, AuthTypes
<1>3. /\ CallsTypeOK' /\ Alone' /\ authCall'[p] = Idle
      /\ \A q \in AuthProc : q # p => authCall'[q] = authCall[q]
  BY <1>1, <1>2, Moved, AloneMoves DEF At
<1>4. TokensIssued'
  BY <1>1, <1>2, IssuedStay
<1>5. AuthTypes'
  BY <1>1 DEF AuthTypes
<1>6. ~overlap => /\ SignedIn /\ (~unwritten => Owner(t) = authState.user)
                  /\ \A q \in OutCall \cup {"restore", "signIn"} : At(q, "idle") /\ At(q, "idle")'
  BY <1>1, <1>2, <1>3, Procs DEF TokenKnows, Alone, At
<1>7. ~overlap /\ ~unwritten => /\ active = {authState.user} /\ SessionOf(authState.user)
                                /\ Owner(keychain') \in {authState.user, NoUser}
  BY <1>1, <1>6 DEF SignedInMeans
<1>8. DiskAgrees' /\ SignedInMeans' /\ LeftMeans' /\ Unconfigured'
  BY <1>1, <1>3, <1>6, <1>7, Procs
     DEF DiskAgrees, SignedInMeans, LeftMeans, Unconfigured, SignedIn, SessionOf, At
<1>9. RestoreKnows' /\ SignInKnows'
  BY <1>1, <1>6 DEF RestoreKnows, SignInKnows, At
<1>10. TokenKnows'
  BY <1>1, <1>2, <1>3, <1>6, Procs DEF TokenKnows, SignedIn, At
<1>. QED
  BY <1>3, <1>4, <1>5, <1>8, <1>9, <1>10

-----------------------------------------------------------------------------
LEMMA TokenExpiresStep == ASSUME AuthInv, TokenExpires PROVE AuthInv'
<1>. USE DEF AuthInv
<1>1. /\ UNCHANGED <<configured, authState, keychain, active, authCall, issued, overlap, unwritten, left>>
      /\ session' = [session EXCEPT !.fresh = FALSE]
  BY DEF TokenExpires
<1>2. /\ session' \in [user : AnyUser, refresh : AnyToken, bearer : AnyUser, fresh : BOOLEAN]
      /\ session'.user = session.user /\ session'.bearer = session.bearer
      /\ session'.refresh = session.refresh
  BY <1>1 DEF AuthTypes
<1>3. CallsTypeOK' /\ AuthTypes' /\ TokensIssued' /\ Alone'
  BY <1>1, <1>2 DEF CallsTypeOK, Fits, AuthTypes, TokensIssued, Alone, At
<1>4. DiskAgrees' /\ SignedInMeans' /\ LeftMeans' /\ Unconfigured'
  BY <1>1, <1>2 DEF DiskAgrees, SignedInMeans, LeftMeans, Unconfigured, SignedIn, SessionOf, At
<1>5. RestoreKnows' /\ SignInKnows'
  BY <1>1, <1>2 DEF RestoreKnows, SignInKnows, SignedIn, SessionOf
<1>6. TokenKnows'
  BY <1>1 DEF TokenKnows, SignedIn, At
<1>. QED
  BY <1>3, <1>4, <1>5, <1>6

\* The calls of an app that was just started.
LEMMA Started ==
  LET fresh == [p \in AuthProc |-> IF p = "restore" THEN [Idle EXCEPT !.pc = "read"] ELSE Idle] IN
    /\ fresh \in [AuthProc -> Calls] /\ \A p \in AuthProc : Fits(p, fresh[p]) /\ fresh[p].token = NoToken
    /\ fresh["restore"].pc = "read"
    /\ \A p \in AuthProc : p # "restore" => fresh[p].pc = "idle"
BY Tokens, Procs DEF Idle, Calls, Steps, Fits

LEMMA AppRestartStep == ASSUME AuthInv, AppRestart PROVE AuthInv'
<1>. USE DEF AuthInv
<1>1. /\ authState' = [kind |-> "signed-out", user |-> NoUser] /\ session' = NoSession
      /\ authCall' \in [AuthProc -> Calls]
      /\ \A p \in AuthProc : Fits(p, authCall'[p]) /\ authCall'[p].token = NoToken
      /\ authCall'["restore"].pc = "read"
      /\ \A p \in AuthProc : p # "restore" => authCall'[p].pc = "idle"
      /\ unwritten' = (unwritten \/ (At("signIn", "store") /\ Mismatch))
      /\ UNCHANGED <<configured, keychain, active, issued, overlap, left>>
  BY Started DEF AppRestart
<1>2. CallsTypeOK'
  BY <1>1 DEF CallsTypeOK, Fits
<1>3. unwritten' \in BOOLEAN /\ (~unwritten' => ~unwritten /\ (At("signIn", "store") => ~Mismatch))
  BY <1>1, ZenonT(20)
<1>4. AuthTypes'
  BY <1>1, <1>3, Tokens DEF AuthTypes
<1>5. TokensIssued'
  <2>1. NoToken[2] <= issued /\ NoSession.refresh[2] <= issued
    BY Tokens, AuthAssumption DEF AuthTypes, NoSession
  <2>. QED
    BY <1>1, <2>1 DEF TokensIssued
<1>6. Alone'
  BY <1>1 DEF Alone, At
<1>7. DiskAgrees'
  <2>. SUFFICES ASSUME ~overlap, ~unwritten', NEW u \in active
                PROVE  Owner(keychain) \in {u, NoUser}
    BY <1>1 DEF DiskAgrees
  <2>1. CASE ~At("signIn", "store")
    BY <2>1, <1>3 DEF DiskAgrees
  <2>2. CASE At("signIn", "store")
    BY <2>2, <1>3 DEF SignInKnows, Mismatch, At
  <2>. QED
    BY <2>1, <2>2
<1>8. SignedInMeans' /\ LeftMeans' /\ Unconfigured'
  BY <1>1, Procs DEF SignedInMeans, LeftMeans, Unconfigured, SignedIn, At
<1>9. RestoreKnows' /\ SignInKnows' /\ TokenKnows'
  BY <1>1, Procs DEF RestoreKnows, SignInKnows, TokenKnows, SignedIn, At
<1>. QED
  BY <1>2, <1>4, <1>5, <1>6, <1>7, <1>8, <1>9

LEMMA AuthInvInit == AuthInit => AuthInv
<1>. SUFFICES ASSUME AuthInit PROVE AuthInv
  OBVIOUS
<1>1. /\ authState = [kind |-> "signed-out", user |-> NoUser] /\ session = NoSession
      /\ authCall \in [AuthProc -> Calls]
      /\ \A p \in AuthProc : Fits(p, authCall[p]) /\ authCall[p].token = NoToken
      /\ authCall["restore"].pc = "read"
      /\ \A p \in AuthProc : p # "restore" => authCall[p].pc = "idle"
      /\ issued = 1 /\ overlap = FALSE /\ unwritten = FALSE /\ left = FALSE
  BY Started DEF AuthInit
<1>2. configured \in BOOLEAN
  BY DEF AuthInit, HasSecrets
<1>3. PICK u \in Account : keychain \in {NoToken, <<u, 1>>} /\ active \in {{}, {u}}
  BY DEF AuthInit
<1>4. /\ keychain \in AnyToken /\ keychain[2] <= 1 /\ Owner(keychain) \in {u, NoUser}
      /\ issued \in 1 .. MaxToken
  BY <1>1, <1>3, Tokens, AuthAssumption DEF AnyToken, Token, Owner
<1>5. CallsTypeOK /\ AuthTypes
  BY <1>1, <1>2, <1>3, <1>4, Tokens DEF CallsTypeOK, AuthTypes
<1>6. TokensIssued
  BY <1>1, <1>4, Tokens DEF TokensIssued, NoSession
<1>7. Alone /\ DiskAgrees
  BY <1>1, <1>3, <1>4 DEF Alone, DiskAgrees, At
<1>8. SignedInMeans /\ LeftMeans /\ Unconfigured
  BY <1>1, Procs DEF SignedInMeans, LeftMeans, Unconfigured, SignedIn, At
<1>9. RestoreKnows /\ SignInKnows /\ TokenKnows
  BY <1>1, Procs DEF RestoreKnows, SignInKnows, TokenKnows, SignedIn, At
<1>. QED
  BY <1>5, <1>6, <1>7, <1>8, <1>9 DEF AuthInv

LEMMA AuthInvStep == AuthInv /\ [AuthNext]_authVars => AuthInv'
<1>. SUFFICES ASSUME AuthInv, [AuthNext]_authVars PROVE AuthInv'
  OBVIOUS
<1>1. CASE RestoreStep
  BY <1>1, RestoreReadStep, RestoreFindStep, RestoreWipeStep, RestoreRefreshStep, RestoreStoreStep,
     RestoreUnkeyStep DEF RestoreStep
<1>2. CASE SignInRefused \/ SignInStart \/ SignInCallback \/ SignInStep
  BY <1>2, SignInRefusedStep, SignInStartStep, SignInWaitStep, SignInExchangeStep, SignInUpsertStep,
     SignInStoreStep DEF SignInStep
<1>3. ASSUME NEW p \in OutCall, SignOutStart(p) \/ SignOutStep(p) PROVE AuthInv'
  BY <1>3, SignOutStartStep, SignOutClearStep, SignOutEndStep DEF SignOutStep
<1>4. ASSUME NEW p \in TokenCall, TokenStart(p) \/ TokenStep(p) PROVE AuthInv'
  BY <1>4, TokenStartStep, TokenRefreshStep, TokenStoreStep DEF TokenStep
<1>5. CASE UNCHANGED authVars
  <2>1. UNCHANGED <<configured, authState, session, keychain, active, authCall, issued, overlap,
                    unwritten, left>>
    BY <1>5 DEF authVars
  <2>2. CallsTypeOK' /\ AuthTypes' /\ TokensIssued' /\ Alone' /\ DiskAgrees'
    BY <2>1 DEF AuthInv, CallsTypeOK, Fits, AuthTypes, TokensIssued, Alone, DiskAgrees, At
  <2>3. RestoreKnows' /\ SignInKnows' /\ TokenKnows' /\ SignedInMeans' /\ LeftMeans' /\ Unconfigured'
    BY <2>1 DEF AuthInv, RestoreKnows, SignInKnows, TokenKnows, SignedInMeans, LeftMeans, Unconfigured,
                SignedIn, SessionOf, At
  <2>. QED
    BY <2>2, <2>3 DEF AuthInv
<1>. QED
  BY <1>1, <1>2, <1>3, <1>4, <1>5, TokenExpiresStep, AppRestartStep DEF AuthNext

LEMMA AuthInvMeans == AuthInv => AuthSound
<1>. SUFFICES ASSUME AuthInv PROVE AuthSound
  OBVIOUS
<1>. USE DEF AuthInv
<1>1. AuthTypeOK
  <2>1. active \subseteq Account /\ Cardinality(active) <= 1
    BY FS_EmptySet, FS_Singleton DEF AuthTypes
  <2>. QED
    BY <2>1 DEF AuthTypeOK, AuthTypes, TokensIssued, AnyUser, AnyToken
<1>2. (\A p \in AuthProc : p \notin InFlight) => \A p \in OutCall \cup {"signIn"} : At(p, "idle")
  BY Procs DEF InFlight
<1>3. SessionOfUser
  BY <1>2 DEF SessionOfUser, SignedInMeans, SignedIn, SessionOf
<1>4. SignedInIsPersisted
  BY <1>2 DEF SignedInIsPersisted, SignedInMeans, SignedIn
<1>5. SignOutIsFinal
  BY DEF SignOutIsFinal, LeftMeans, SignedIn
<1>. QED
  BY <1>1, <1>3, <1>4, <1>5 DEF AuthSound

(* For any number of accounts, of overlapping sign-outs and refreshes: while    *)
(* calls of AuthService do not overlap, who is shown as signed in is who is in  *)
(* the table, on the disk and in the session, and a sign-out is final.          *)
THEOREM AuthIsSound == AuthSpec => []AuthSound
<1>1. AuthInit => AuthInv
  BY AuthInvInit
<1>2. AuthInv /\ [AuthNext]_authVars => AuthInv'
  BY AuthInvStep
<1>3. AuthInv => AuthSound
  BY AuthInvMeans
<1>. QED
  BY <1>1, <1>2, <1>3, PTL DEF AuthSpec
=============================================================================
