------------------------------ MODULE GoDaemon ------------------------------
(***************************************************************************)
(* Starting and stopping the Go daemon: go-desktop/internal/daemon and the  *)
(* daemon commands of the CLI.  Daemons share a lock file (flock), a pid    *)
(* file and a socket path in ~/.lcmbar; the CLI finds a daemon through the  *)
(* socket, or else through the pid file.                                    *)
(***************************************************************************)
EXTENDS Naturals, FiniteSets

CONSTANTS Daemon, NoDaemon,   \* processes, each run any number of times
          Cli                 \* command lines

ASSUME DaemonAssumption == NoDaemon \notin Daemon

VARIABLES flock,      \* who holds the lock on lcmbar.lock
          pidFile,    \* the pid in lcmbar.pid
          socket,     \* whose socket file is at the path
          daemon,     \* per process, where RunForeground stands
          cliCall,    \* per command line: what it does, the pid it has read
          swept       \* history: another daemon's clean-up ran during its life

daemonVars == <<flock, pidFile, socket, daemon, cliCall, swept>>

Alive(d)     == daemon[d] # "off"
Serving(d)   == daemon[d] = "serve"
Goes(d, pc)  == daemon' = [daemon EXCEPT ![d] = pc]
NoCmd        == [pc |-> "idle", pid |-> NoDaemon]
Cmd(c, pc)   == cliCall' = [cliCall EXCEPT ![c] = [pc |-> pc, pid |-> NoDaemon]]
SweptBy(d)   == swept' = [e \in Daemon |-> swept[e] \/ (e # d /\ Alive(e))]

DaemonInit ==
  /\ flock = NoDaemon /\ pidFile = NoDaemon /\ socket = NoDaemon
  /\ daemon = [d \in Daemon |-> "off"]
  /\ cliCall = [c \in Cli |-> NoCmd]
  /\ swept = [d \in Daemon |-> FALSE]

-----------------------------------------------------------------------------
(* RunForeground                                                            *)

LockShared == TRUE
LockFree   == flock = NoDaemon

AcquireLock(d) ==
  /\ daemon[d] = "lock"
  /\ IF LockFree THEN flock' = d /\ Goes(d, "pid")
     ELSE UNCHANGED flock /\ Goes(d, "off")        \* "daemon already running"
  /\ UNCHANGED <<pidFile, socket, cliCall, swept>>

OwnPid(d)  == d
WritePid(d) ==
  /\ daemon[d] = "pid"
  /\ \/ pidFile' = OwnPid(d) /\ UNCHANGED flock /\ Goes(d, "stale")
     \/ UNCHANGED pidFile /\ flock' = NoDaemon /\ Goes(d, "off")
  /\ UNCHANGED <<socket, cliCall, swept>>

\* Listen: the stale socket is removed, then the path is bound.  That fails if
\* the path is there again, and may fail otherwise; when chmod fails the listener
\* is closed, which unlinks the path.
RemoveStale(d) ==
  /\ daemon[d] = "stale"
  /\ socket' = NoDaemon /\ Goes(d, "bind")
  /\ UNCHANGED <<flock, pidFile, cliCall, swept>>

Bind(d) ==
  /\ daemon[d] = "bind"
  /\ \/ socket = NoDaemon /\ socket' = d /\ Goes(d, "serve")
     \/ UNCHANGED socket /\ Goes(d, "unlock")
  /\ UNCHANGED <<flock, pidFile, cliCall, swept>>

\* A cancelled daemon closes its listener, which unlinks the path, and runs the
\* shutdown hooks.
CloseListener(d) ==
  /\ daemon[d] = "closing"
  /\ socket' = NoDaemon /\ Goes(d, "unlock")
  /\ UNCHANGED <<flock, pidFile, cliCall, swept>>

\* The deferred clean-up: the lock first, then the socket, then the pid file.
Released(d) == IF flock = d THEN NoDaemon ELSE flock
Unlock(d) ==
  /\ daemon[d] = "unlock" /\ flock' = Released(d) /\ Goes(d, "rmSocket")
  /\ UNCHANGED <<pidFile, socket, cliCall, swept>>

CleanSocket(d) ==
  /\ daemon[d] = "rmSocket" /\ socket' = NoDaemon /\ Goes(d, "rmPid") /\ SweptBy(d)
  /\ UNCHANGED <<flock, pidFile, cliCall>>

CleanPid(d) ==
  /\ daemon[d] = "rmPid" /\ pidFile' = NoDaemon /\ Goes(d, "off") /\ SweptBy(d)
  /\ UNCHANGED <<flock, socket, cliCall>>

\* Killed: the system releases the lock, the files stay.
Crash(d) ==
  /\ Alive(d) /\ Goes(d, "off")
  /\ flock' = IF flock = d THEN NoDaemon ELSE flock
  /\ UNCHANGED <<pidFile, socket, cliCall, swept>>

-----------------------------------------------------------------------------
(* The CLI                                                                  *)

\* EnsureRunning: an answer on the socket, or a new process.
Ensure(c) ==
  /\ cliCall[c].pc = "idle" /\ ~\E d \in Daemon : socket = d /\ Serving(d)
  /\ \E d \in Daemon :
       /\ daemon[d] = "off" /\ Goes(d, "lock")
       /\ swept' = [swept EXCEPT ![d] = FALSE]
  /\ Cmd(c, "wait")
  /\ UNCHANGED <<flock, pidFile, socket>>

\* WaitForReady: until some daemon answers, or ten seconds.
WaitEnds(c) ==
  /\ cliCall[c].pc = "wait" /\ Cmd(c, "idle")
  /\ UNCHANGED <<flock, pidFile, socket, daemon, swept>>

\* stop: "quit" over the socket; without an answer the pid file is read ...
Quit(c) ==
  /\ cliCall[c].pc = "idle"
  /\ \E d \in Daemon : socket = d /\ Serving(d) /\ Goes(d, "closing")
  /\ UNCHANGED <<flock, pidFile, socket, cliCall, swept>>

ReadPid(c) ==
  /\ cliCall[c].pc = "idle" /\ pidFile # NoDaemon
  /\ ~\E d \in Daemon : socket = d /\ Serving(d)
  /\ cliCall' = [cliCall EXCEPT ![c] = [pc |-> "kill", pid |-> pidFile]]
  /\ UNCHANGED <<flock, pidFile, socket, daemon, swept>>

\* ... and that process gets a SIGTERM, if it is there.  The signal is trapped
\* once RunForeground has installed its handler, after the lock and the pid
\* file.  A process here may have the pid of one that died before.
Kill(c) ==
  LET d == cliCall[c].pid
  IN /\ cliCall[c].pc = "kill" /\ Cmd(c, "idle")
     /\ \/ /\ daemon[d] \in {"stale", "bind", "serve"}
           /\ Goes(d, "closing") /\ UNCHANGED flock
        \/ /\ daemon[d] \in {"lock", "pid", "stale"}
           /\ Goes(d, "off")
           /\ flock' = IF flock = d THEN NoDaemon ELSE flock
        \/ /\ daemon[d] \notin {"lock", "pid", "stale", "bind", "serve"}
           /\ UNCHANGED <<daemon, flock>>
     /\ UNCHANGED <<pidFile, socket, swept>>

Shutdown(d) == CloseListener(d) \/ Unlock(d) \/ CleanSocket(d) \/ CleanPid(d)
Startup(d)  == AcquireLock(d) \/ WritePid(d) \/ RemoveStale(d) \/ Bind(d)

DaemonNext ==
  \/ \E d \in Daemon : Startup(d) \/ Shutdown(d) \/ Crash(d)
  \/ \E c \in Cli : Ensure(c) \/ WaitEnds(c) \/ Quit(c) \/ ReadPid(c) \/ Kill(c)

\* A process runs.
DaemonFairness ==
  \A d \in Daemon : WF_daemonVars(Startup(d) \/ Shutdown(d))

DaemonSpec == DaemonInit /\ [][DaemonNext]_daemonVars

-----------------------------------------------------------------------------
(* One daemon at a time is between the lock and its release.                 *)
OneDaemon ==
  \A d, e \in Daemon :
    {daemon[d], daemon[e]} \subseteq {"pid", "stale", "bind", "serve", "closing", "unlock"}
      => d = e

(* A serving daemon can be reached at the socket and its pid is on file,      *)
(* after crashes and stale files too: only the clean-up of a daemon that has  *)
(* already released the lock takes them away from it.                         *)
ServingIsReachable ==
  \A d \in Daemon : Serving(d) /\ ~swept[d] => socket = d /\ pidFile = d

(* A daemon that was told to stop ends, and the lock is free for the next.    *)
StopCompletes ==
  \A d \in Daemon : (daemon[d] = "closing") ~> (daemon[d] = "off" /\ flock # d)

(* Daemons that start, stop and die over the same files, in both respects.    *)
DaemonSound == OneDaemon /\ ServingIsReachable
=============================================================================
