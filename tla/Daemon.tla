------------------------------- MODULE Daemon -------------------------------
(***************************************************************************)
(* The daemon as a process of the machine: lock.rs, the connect, up and     *)
(* service commands of main.rs, and service.rs.                             *)
(*                                                                         *)
(* Processes run `webmcp connect` by hand or under the supervisor (launchd, *)
(* systemd), and `webmcp up` probes the lock. The supervisor is external:   *)
(* it does what the definition written by service.rs tells it to. A path    *)
(* and the file it names are told apart, for the lock is on the file.       *)
(*                                                                         *)
(* Abstracted: an I/O error of the lock file is a crash of the process that *)
(* meets it; dropping the lock and exiting are one step; RestartSec and      *)
(* ThrottleInterval are any time. What connect::run does is Connection's.    *)
(***************************************************************************)
EXTENDS Naturals

CONSTANTS
    Pid, None,
    Inode,
    MaxPolls,       \* times the job is printed before bootstrap (250)
    MaxTries,       \* bootstraps tried (5)
    KillAfter,      \* polls until the supervisor kills (ExitTimeOut, TimeoutStopSec)
    Linger,         \* bootstraps refused after the job is gone
    MaxEvents       \* bounds what users do and what fails

ASSUME DaemonAssumption ==
    /\ None \notin Pid
    /\ Inode # {} /\ 0 \notin Inode
    /\ {MaxPolls, MaxTries, KillAfter, Linger, MaxEvents} \subseteq Nat
    /\ KillAfter < MaxPolls
    /\ Linger < MaxTries

VARIABLES
    pc, kind,       \* where a process is, and what it is
    fd,             \* the file it has open as the lock, 0 for none
    path,           \* the file daemon.lock names, 0 for none
    holder, text,   \* of a file: who holds its lock, the pid written in it
    paired,         \* files of the pairing that exist
    os,
    file, loaded, runs,  \* version of the definition on disk, loaded, and of the unit's process
    job, main,      \* what the supervisor does, and its process
    cmd, n,         \* the install or uninstall under way, its polls or tries
    why,            \* account: how the unit's process ended, if nobody asked it to
    events

lockVars == <<fd, path, holder, text>>
jobVars == <<job, main, loaded, runs, why>>
cmdVars == <<cmd, n, file>>
vars == <<pc, kind, lockVars, jobVars, cmdVars, paired, os, events>>

Kind == {"hand", "unit", "probe"}
Job == {"off", "idle", "due", "up", "leaving", "cycling", "going"}
Cmd == {"none", "written", "poll", "boot", "restart", "stop", "remove", "ok", "failed"}
Place == {"gone", "config", "key", "open", "try", "read", "clear", "write", "serve"}

TypeOK ==
    /\ pc \in [Pid -> Place] /\ kind \in [Pid -> Kind]
    /\ fd \in [Pid -> Inode \cup {0}] /\ path \in Inode \cup {0}
    /\ holder \in [Inode -> Pid \cup {None}] /\ text \in [Inode -> Pid \cup {None}]
    /\ paired \in SUBSET {"config", "key"}
    /\ os \in {"macos", "linux"}
    /\ file \in Nat /\ loaded \in Nat /\ runs \in Nat
    /\ job \in Job /\ main \in Pid \cup {None}
    /\ cmd \in Cmd /\ n \in Nat
    /\ why \in {"none", "failed", "signal", "fatal"}
    /\ events \in Nat

Init ==
    /\ pc = [p \in Pid |-> "gone"] /\ kind = [p \in Pid |-> "hand"]
    /\ fd = [p \in Pid |-> 0] /\ path = 0
    /\ holder = [i \in Inode |-> None] /\ text = [i \in Inode |-> None]
    /\ paired \in {{}, {"config", "key"}}
    /\ os \in {"macos", "linux"}
    /\ file = 0 /\ loaded = 0 /\ runs = 0
    /\ job = "off" /\ main = None
    /\ cmd = "none" /\ n = 0
    /\ why = "none" /\ events = 0

Event == events < MaxEvents /\ events' = events + 1

-----------------------------------------------------------------------------
\* A process ends: the kernel drops its lock, and the supervisor does what
\* its definition says of the exit of its own process.

\* SuccessfulExit=false, Restart=on-failure.
AfterExit(clean) ==
    CASE job = "leaving" -> IF os = "macos" THEN "going" ELSE "off"
      [] job = "cycling" -> "due"
      [] OTHER -> IF clean THEN "idle" ELSE "due"

Drop_Unlinks(p) ==      \* mutant
    /\ holder' = [i \in Inode |-> IF holder[i] = p THEN None ELSE holder[i]]
    /\ fd' = [fd EXCEPT ![p] = 0]
    /\ path' = IF path # 0 /\ holder[path] = p THEN 0 ELSE path
    /\ UNCHANGED text

Drop_Stale(p) ==        \* mutant: a lock that a file's existence means
    /\ fd' = [fd EXCEPT ![p] = 0]
    /\ UNCHANGED <<holder, path, text>>

\* The lock file stays when the lock goes.
Drop(p) ==
    /\ holder' = [i \in Inode |-> IF holder[i] = p THEN None ELSE holder[i]]
    /\ fd' = [fd EXCEPT ![p] = 0]
    /\ UNCHANGED <<path, text>>

Exits(p, clean, reason) ==
    /\ pc' = [pc EXCEPT ![p] = "gone"]
    /\ Drop(p)
    /\ IF p = main
       THEN main' = None /\ job' = AfterExit(clean) /\ why' = IF job = "up" THEN reason ELSE "none"
       ELSE UNCHANGED <<main, job, why>>
    /\ UNCHANGED <<kind, loaded, runs>>

-----------------------------------------------------------------------------
\* connect_cmd, and daemon_running, which takes the lock for a moment.

Goto(p, place) == pc' = [pc EXCEPT ![p] = place] /\ UNCHANGED <<kind, jobVars>>

Run(p, k) ==
    /\ pc[p] = "gone"
    /\ pc' = [pc EXCEPT ![p] = IF k = "probe" THEN "open" ELSE "config"]
    /\ kind' = [kind EXCEPT ![p] = k]

Start(p) ==
    /\ Event
    /\ \E k \in {"hand", "probe"} : Run(p, k)
    /\ UNCHANGED <<lockVars, jobVars, cmdVars, paired, os>>

Load(p, part, next) ==
    /\ pc[p] = part
    /\ \/ part \in paired /\ Goto(p, next) /\ UNCHANGED lockVars
       \/ part \notin paired /\ Exits(p, FALSE, "failed")

LoadConfig(p) == Load(p, "config", "key")
LoadKey(p) == Load(p, "key", "open")

\* A new file is one nobody has open.
Fresh == CHOOSE i \in Inode : \A q \in Pid : fd[q] # i

Open(p) ==
    /\ pc[p] = "open" /\ Goto(p, "try")
    /\ LET i == IF path = 0 THEN Fresh ELSE path IN
       /\ path' = i /\ fd' = [fd EXCEPT ![p] = i]
       /\ text' = IF path = 0 THEN [text EXCEPT ![i] = None] ELSE text
    /\ UNCHANGED holder

TryLock(p) ==
    /\ pc[p] = "try"
    /\ \/ /\ holder[fd[p]] = None
          /\ holder' = [holder EXCEPT ![fd[p]] = p]
          /\ Goto(p, "clear")
       \/ holder[fd[p]] # None /\ Goto(p, "read") /\ UNCHANGED holder
    /\ UNCHANGED <<fd, path, text>>

ReadPid_Clean(p) == pc[p] = "read" /\ Exits(p, TRUE, "failed")   \* mutant

\* The loser reads the pid for its message; connect fails, a probe has its answer.
ReadPid(p) == pc[p] = "read" /\ Exits(p, FALSE, "failed")

Clear(p) ==
    /\ pc[p] = "clear" /\ Goto(p, "write")
    /\ text' = [text EXCEPT ![fd[p]] = None]
    /\ UNCHANGED <<fd, path, holder>>

WritePid(p) ==
    /\ pc[p] = "write"
    /\ pc' = [pc EXCEPT ![p] = IF kind[p] = "probe" THEN "gone" ELSE "serve"]
    /\ text' = [text EXCEPT ![fd[p]] = p]
    /\ IF kind[p] = "probe"
       THEN /\ holder' = [holder EXCEPT ![fd[p]] = None]
            /\ fd' = [fd EXCEPT ![p] = 0]
       ELSE UNCHANGED <<holder, fd>>
    /\ UNCHANGED <<path, kind, jobVars>>

\* A fatal end is clean under the supervisor, an error in a terminal.
Fatal(p) == pc[p] = "serve" /\ Exits(p, kind[p] = "unit", "fatal")

\* Ctrl-C or SIGTERM.  Before the daemon serves nothing catches it, which systemd
\* takes for a clean end and launchd for a failure.
Signal(p) ==
    /\ pc[p] # "gone"
    /\ \/ Event
       \/ p = main /\ job \in {"leaving", "cycling"} /\ UNCHANGED events
    /\ LET clean == pc[p] = "serve" \/ os = "linux"
       IN  Exits(p, clean, IF clean THEN "signal" ELSE "failed")

\* A crash, an I/O error, or the supervisor's SIGKILL.
Crash(p) ==
    /\ pc[p] # "gone"
    /\ Event
    /\ Exits(p, FALSE, "failed")

Step(p) ==
    /\ LoadConfig(p) \/ LoadKey(p) \/ Open(p) \/ TryLock(p) \/ ReadPid(p) \/ Clear(p) \/ WritePid(p)
    /\ UNCHANGED <<cmdVars, paired, os, events>>

Ending(p) ==
    /\ (Fatal(p) /\ UNCHANGED events) \/ Signal(p) \/ Crash(p)
    /\ UNCHANGED <<cmdVars, paired, os>>

-----------------------------------------------------------------------------
\* The supervisor (external).

Supervise(p) ==
    /\ job = "due"
    /\ Run(p, "unit")
    /\ job' = "up" /\ main' = p /\ runs' = loaded
    /\ UNCHANGED <<lockVars, loaded, why, cmdVars, paired, os, events>>

\* The job is told to go: at once, or when its process has gone.
Stop(busy, idle) == job' = IF main # None THEN busy ELSE IF job = "going" THEN job ELSE idle

Gone ==
    /\ job = "going" /\ job' = "off"
    /\ UNCHANGED <<pc, kind, lockVars, main, loaded, runs, why, cmdVars, paired, os, events>>

\* Logging in again, after a reboot or a logout that ended every process.
Login ==
    /\ Event
    /\ pc' = [p \in Pid |-> "gone"] /\ fd' = [p \in Pid |-> 0]
    /\ holder' = [i \in Inode |-> None]
    /\ main' = None /\ loaded' = file /\ job' = IF file > 0 THEN "due" ELSE "off"
    /\ why' = "none"
    /\ cmd' = "none" /\ n' = 0
    /\ UNCHANGED <<kind, path, text, runs, file, paired, os>>

-----------------------------------------------------------------------------
\* install_service and service::install, uninstall. One command at a time.

Free == cmd \in {"none", "ok", "failed"}
Ask(next) == cmd' = next /\ n' = 0
Aside == UNCHANGED <<pc, kind, lockVars, paired, os>>

\* Nothing is written while the machine is not paired.
Install ==
    /\ Free /\ Event /\ "config" \in paired
    /\ file' = file + 1 /\ Ask("written")
    /\ Aside /\ UNCHANGED jobVars

\* bootout, and the wait until the job is no longer printed.
Bootout ==
    /\ os = "macos" /\ cmd = "written"
    /\ Stop("leaving", "off") /\ Ask("poll")
    /\ Aside /\ UNCHANGED <<main, loaded, runs, why, file, events>>

Printed == job \notin {"off", "going"}

Poll ==
    /\ cmd = "poll" /\ Printed /\ n < MaxPolls
    /\ n < KillAfter            \* by then the supervisor has killed it
    /\ n' = n + 1
    /\ Aside /\ UNCHANGED <<jobVars, cmd, file, events>>

Polled ==
    /\ cmd = "poll" /\ (Printed => n = MaxPolls)
    /\ Ask("boot")
    /\ Aside /\ UNCHANGED <<jobVars, file, events>>

\* A job still going answers with an I/O error, which alone is tried again.
Bootstrap ==
    /\ cmd = "boot"
    /\ \/ /\ job = "off"
          /\ job' = "due" /\ loaded' = file /\ why' = "none" /\ Ask("ok")
       \/ /\ job # "off"
          /\ job = "going" => n < Linger
          /\ n' = n + 1
          /\ cmd' = IF n + 1 < MaxTries /\ job \in {"going", "leaving"} THEN "boot" ELSE "failed"
          /\ UNCHANGED <<job, loaded, why>>
    /\ Aside /\ UNCHANGED <<main, runs, file, events>>

Reload_Starts ==        \* mutant: enable --now
    /\ os = "linux" /\ cmd = "written"
    /\ loaded' = file /\ why' = "none"
    /\ Stop(job, "due")
    /\ Ask("restart")
    /\ Aside /\ UNCHANGED <<main, runs, file, events>>

\* daemon-reload, enable and restart, which waits for the old process.
Reload ==
    /\ os = "linux" /\ cmd = "written"
    /\ loaded' = file /\ why' = "none"
    /\ Stop("cycling", "due")
    /\ Ask("restart")
    /\ Aside /\ UNCHANGED <<main, runs, file, events>>

Restarted ==
    /\ cmd = "restart" /\ job # "cycling"
    /\ Ask("ok")
    /\ Aside /\ UNCHANGED <<jobVars, file, events>>

\* bootout, which does not wait, or disable --now, which does.
Uninstall ==
    /\ Free /\ Event
    /\ Stop("leaving", "off") /\ Ask("stop")
    /\ Aside /\ UNCHANGED <<main, loaded, runs, why, file>>

Remove ==
    /\ cmd = "stop" /\ (os = "linux" => job = "off")
    /\ file' = 0 /\ Ask("none")
    /\ Aside /\ UNCHANGED <<jobVars, events>>

\* Pairing for the first time: the key, then the config (see Pairing).
Pair ==
    /\ "config" \notin paired
    /\ paired' = IF "key" \in paired THEN {"key", "config"} ELSE {"key"}
    /\ UNCHANGED <<pc, kind, lockVars, jobVars, cmdVars, os, events>>

-----------------------------------------------------------------------------
Command == Install \/ Bootout \/ Poll \/ Polled \/ Bootstrap \/ Reload \/ Restarted
           \/ Uninstall \/ Remove

Next ==
    \/ \E p \in Pid : Start(p) \/ Step(p) \/ Ending(p) \/ Supervise(p)
    \/ Gone \/ Login \/ Pair
    \/ Command

Spec == Init /\ [][Next]_vars

\* Processes run, the supervisor restarts what is due.
FairSpec ==
    /\ Spec
    /\ \A p \in Pid : WF_vars(Step(p))
    /\ WF_vars(\E p \in Pid : Supervise(p))

-----------------------------------------------------------------------------
\* Two daemons of one device trade the gateway's socket for ever. However
\* processes start, crash and probe, at most one serves, and the lock file
\* names it to whoever is refused.
OneDaemon ==
    \A p \in Pid : pc[p] = "serve" =>
        /\ \A q \in Pid : pc[q] = "serve" => q = p
        /\ path # 0 /\ text[path] = p

\* The supervisor gives the daemon up for a verdict of the gateway or a
\* signal alone, never for a lock that is held or files not there yet; and
\* what the gateway refused is not tried again unasked.
DownForAReason ==
    /\ job = "idle" => why \in {"fatal", "signal"}
    /\ why = "fatal" => job \notin {"due", "up"}

\* An install that reports success leaves no process of an older definition,
\* and none fails because the old process takes its time to go.
InstallApplies ==
    /\ cmd # "failed"
    /\ cmd = "ok" => loaded = file /\ (main # None => runs = file)

\* Once nobody holds the lock by hand, a service that is loaded and paired
\* comes up, whoever made it fail before.
Wanted ==
    /\ job \in {"due", "up"} /\ paired = {"config", "key"}
    /\ \A p \in Pid : pc[p] # "gone" => p = main
Serving == main # None /\ pc[main] = "serve"
ServiceComesUp == Wanted ~> (Serving \/ ~Wanted)

=============================================================================
