------------------------------- MODULE Views -------------------------------
(***************************************************************************)
(* What the windows show: each view of the renderer keeps a copy of data of  *)
(* main or of the team server, asks for it again when it is told of a change,*)
(* when the user selects something else or by the clock, and shows what is   *)
(* answered, in the order of the answers.                                    *)
(*                                                                         *)
(* The views do not depend on each other: a behaviour follows one of them.   *)
(* The data is its version; a selection is the period, the filter or the     *)
(* team that decides what is asked.                                          *)
(***************************************************************************)
EXTENDS Naturals

CONSTANTS Selection,  \* periods, filters or teams
          SyncOff,    \* team sync is off
          Call,       \* requests that may be under way at a time
          MaxData     \* bound on the changes of the data

ASSUME ViewAssumption == SyncOff \notin Selection /\ Call # {} /\ MaxData \in Nat

VARIABLES view,      \* the view that is followed
          data,      \* the version of the data
          told,      \* a broadcast of a change is on its way to the window
          timer,     \* reloadTimer is set
          want,      \* the selection
          shown,     \* what the view shows: a selection and a version, or Nothing
          requests,  \* per request: NoRequest, or its selection and the version read
          unseen,    \* history: a change that nothing announced, since the last request
          failed,    \* history: a request failed since the last one began
          overtaken  \* history: an answer was older than what it replaced, none of the
                     \* present data since

viewVars == <<view, data, told, timer, want, shown, requests, unseen, failed, overtaken>>

ViewKind  == {"app",        \* App.reload
              "browser",    \* WebDashboard.reload in a browser
              "alerts",     \* AlertsTab
              "account",    \* the account row of OverviewTab
              "dashboard",  \* the account row of WebDashboard
              "team"}       \* TeamTab
Announced == {"app", "alerts"}          \* main broadcasts the changes
Remote    == {"account", "dashboard", "team"}
Cancelled == {"account", "dashboard"}   \* effects with a cancelled flag

Nothing   == [none |-> TRUE]
NoRequest == [none |-> TRUE]
Unread    == MaxData + 1

Begin(base, s) ==
  /\ failed' = FALSE /\ unseen' = FALSE
  /\ \E c \in {x \in Call : base[x] = NoRequest} :
       requests' = [base EXCEPT ![c] = [of |-> s, read |-> Unread]]

Reload == Begin(requests, want)

-----------------------------------------------------------------------------
\* main broadcasts a change when nothing failed after it: not when rows are stored
\* and the count of the events or the tray's title then fails, nor when a tick of the
\* sampler fails behind an alert it raised.
Broadcast   == view \in Announced /\ told' = TRUE /\ UNCHANGED unseen
Unannounced == unseen' = TRUE /\ UNCHANGED told

DataChanges ==
  /\ data < MaxData /\ data' = data + 1
  /\ Broadcast \/ Unannounced
  /\ UNCHANGED <<view, timer, want, shown, requests, failed, overtaken>>

\* scheduleReload sets the timer again; AlertsTab asks at once.
Hear ==
  /\ told /\ told' = FALSE
  /\ IF view = "app" THEN timer' = TRUE /\ UNCHANGED <<requests, failed, unseen>>
     ELSE Reload /\ UNCHANGED timer
  /\ UNCHANGED <<view, data, want, shown, overtaken>>

TimerFires ==
  /\ timer /\ timer' = FALSE /\ Reload
  /\ UNCHANGED <<view, data, told, want, shown, overtaken>>

\* Every five minutes: the request before has ended, by its limit of 8 s.
Poll ==
  /\ view \in Cancelled /\ want # SyncOff /\ \A c \in Call : requests[c] = NoRequest
  /\ Reload
  /\ UNCHANGED <<view, data, told, timer, want, shown, overtaken>>

\* The requests an effect left when its selection changed: their answers are
\* dropped.
AllKept    == requests
Superseded == [c \in Call |-> NoRequest]

\* OverviewTab's effect also depends on the length of the window, which for today
\* is another at each rendering, and App renders every second.
Rerender ==
  /\ view = "account" /\ want # SyncOff
  /\ Begin(Superseded, want)
  /\ UNCHANGED <<view, data, told, timer, want, shown, overtaken>>

Select ==
  /\ \E s \in Selection \cup {SyncOff} :
       /\ s # want /\ want' = s
       /\ CASE view \in Cancelled /\ s = SyncOff ->
                 requests' = Superseded /\ shown' = Nothing /\ unseen' = FALSE /\ UNCHANGED failed
            [] view \in Cancelled /\ s # SyncOff ->
                 Begin(Superseded, s) /\ UNCHANGED shown
            [] view = "alerts" /\ s # SyncOff -> Begin(requests, s) /\ UNCHANGED shown
            [] view = "team" /\ s # SyncOff ->   \* nothing is asked
                 unseen' = TRUE /\ UNCHANGED <<requests, shown, failed>>
            [] OTHER -> FALSE
  /\ UNCHANGED <<view, data, told, timer, overtaken>>

\* An action of the administrator that the server carries out: it is answered, or
\* given up after eight seconds although it is done.  One that is refused changes
\* nothing.
CallManage == data < MaxData /\ data' = data + 1

\* TeamTab asks again after an action that went well, and by its retry button.
Manage ==
  /\ view = "team" /\ shown # Nothing
  /\ CallManage
  /\ Reload \/ (Unannounced /\ UNCHANGED <<requests, failed>>)
  /\ UNCHANGED <<view, told, timer, want, shown, overtaken>>

Retry ==
  /\ view = "team" /\ shown = Nothing /\ Reload
  /\ UNCHANGED <<view, data, told, timer, want, shown, overtaken>>

-----------------------------------------------------------------------------
(* Main, or the team server                                                  *)

\* The team is the one main's settings name when it handles the request.
Serve(c) ==
  /\ requests[c] # NoRequest /\ requests[c].read = Unread
  /\ requests' = [requests EXCEPT ![c] = [of |-> IF view = "team" THEN want ELSE @.of, read |-> data]]
  /\ UNCHANGED <<view, data, told, timer, want, shown, unseen, failed, overtaken>>

Older(a, b) == a # Nothing /\ b # Nothing /\ a.read < b.read

ShowAnswer(c) ==
  /\ requests[c] # NoRequest /\ requests[c].read # Unread
  /\ shown' = requests[c]
  /\ overtaken' = (\/ requests[c].of # want
                   \/ Older(requests[c], shown)
                   \/ overtaken /\ requests[c].read # data)
  /\ requests' = [requests EXCEPT ![c] = NoRequest]
  /\ UNCHANGED <<view, data, told, timer, want, unseen, failed>>

\* fetchTeamOverview answers null for any error; an error of main leaves the view.
RequestFails(c) ==
  /\ requests[c] # NoRequest
  /\ shown' = (IF view \in Remote THEN Nothing ELSE shown)
  /\ failed' = TRUE
  /\ requests' = [requests EXCEPT ![c] = NoRequest]
  /\ UNCHANGED <<view, data, told, timer, want, unseen, overtaken>>

ViewInit ==
  /\ view \in ViewKind
  /\ data = 0 /\ told = FALSE /\ timer = FALSE /\ want \in Selection /\ shown = Nothing
  /\ requests = [x \in Call |-> IF x = CHOOSE c \in Call : TRUE THEN [of |-> want, read |-> Unread] ELSE NoRequest]
  /\ unseen = FALSE /\ failed = FALSE /\ overtaken = FALSE

ViewNext ==
  \/ DataChanges \/ Hear \/ TimerFires \/ Poll \/ Rerender \/ Select \/ Manage \/ Retry
  \/ \E c \in Call : Serve(c) \/ ShowAnswer(c) \/ RequestFails(c)

ViewSpec == ViewInit /\ [][ViewNext]_viewVars

-----------------------------------------------------------------------------
(* Once every request is answered a view shows the present data of what is     *)
(* selected, unless a change was not announced since the last request began (no *)
(* one tells a browser or a team view, and main stays silent when something     *)
(* fails between a change and its broadcast: the view is then stale until the   *)
(* next announced change), a request failed since the last one began, or an     *)
(* answer was older than the one it replaced and none of the present data came  *)
(* after it (where such answers are not dropped).                               *)
AtRest == ~told /\ ~timer /\ \A c \in Call : requests[c] = NoRequest
ViewCurrent ==
  AtRest /\ want # SyncOff /\ ~unseen /\ ~failed /\ ~(overtaken /\ view \notin Cancelled)
    => shown = [of |-> want, read |-> data]

(* The account rows never fall back to the figures of a period or a team the   *)
(* user left, and show none while team sync is off.                            *)
SelectionKept ==
  view \in Cancelled => ~overtaken /\ (want = SyncOff => shown = Nothing)

ViewsSound == ViewCurrent /\ SelectionKept
=============================================================================
