----------------------------- MODULE DaemonProofs -----------------------------
(***************************************************************************)
(* What lock.rs and service.rs guarantee, for any number of processes,     *)
(* crashes, signals and installs: one daemon serves, the supervisor gives  *)
(* it up only for a reason, and an install replaces the old process.       *)
(***************************************************************************)
EXTENDS Daemon, TLAPS

Holding == {"clear", "write", "serve"}

\* The file that daemon.lock names is the only one anybody opens or locks; it is
\* locked by whoever is past try_lock, and has the pid of the one that serves.
Locked ==
    /\ \A p \in Pid : fd[p] \in {0, path}
    /\ \A p \in Pid : pc[p] \in {"try", "read"} \cup Holding => fd[p] # 0
    /\ \A i \in Inode, p \in Pid : holder[i] = p => i = path /\ pc[p] \in Holding
    /\ \A p \in Pid : pc[p] \in Holding => holder[path] = p
    /\ \A p \in Pid : pc[p] = "serve" => text[path] = p

\* The supervisor's process is one that it started and that has not ended.
Owned ==
    main # None => kind[main] = "unit" /\ pc[main] # "gone" /\ job \in {"up", "leaving", "cycling"}

\* How far an install is, and what it has achieved by then.
Installing ==
    /\ cmd \in {"poll", "boot"} => os = "macos" /\ job \in {"leaving", "going", "off"}
    /\ cmd = "poll" => n <= KillAfter
    /\ cmd = "boot" => job # "leaving"
    /\ cmd = "restart" => loaded = file /\ (main # None => runs = loaded \/ job = "cycling")

Inv == TypeOK /\ Locked /\ Owned /\ DownForAReason /\ InstallApplies /\ Installing

-----------------------------------------------------------------------------
(* Steps that have something in common.                                    *)

\* A process ends in every step that may end one, clean only as its place allows.
LEMMA EndingExits ==
    ASSUME NEW p \in Pid, Ending(p) \/ ReadPid(p)
    PROVE  \E clean \in BOOLEAN, reason \in {"failed", "signal", "fatal"} :
              /\ Exits(p, clean, reason) /\ pc[p] # "gone"
              /\ clean => reason \in {"signal", "fatal"}
              /\ reason = "fatal" => clean = (kind[p] = "unit")
BY DEF Ending, Fatal, Signal, Crash, ReadPid

\* Reading the pairing goes on to the next place, or ends the process.
LEMMA LoadGoesOn ==
    ASSUME NEW p \in Pid, LoadConfig(p) \/ LoadKey(p)
    PROVE  /\ pc[p] \in {"config", "key"}
           /\ \/ Exits(p, FALSE, "failed")
              \/ (Goto(p, "key") \/ Goto(p, "open")) /\ UNCHANGED lockVars
BY DEF LoadConfig, LoadKey, Load

\* The supervisor's and the user's own steps leave the processes alone.
LEMMA ProcessesStay ==
    ASSUME Gone \/ Pair \/ Command
    PROVE  UNCHANGED <<pc, kind, lockVars>>
BY DEF Gone, Pair, Command, Install, Bootout, Poll, Polled, Bootstrap, Reload, Restarted,
       Uninstall, Remove, Aside, Stop

-----------------------------------------------------------------------------
(* Types.                                                                  *)

\* Exits keeps the types.
LEMMA ExitsTyped ==
    ASSUME TypeOK, NEW p \in Pid, NEW clean \in BOOLEAN,
           NEW reason \in {"failed", "signal", "fatal"}, Exits(p, clean, reason),
           UNCHANGED <<cmdVars, paired, os>>, events' \in Nat
    PROVE  TypeOK'
<1> USE DEF TypeOK, Exits, Drop, cmdVars
<1>1. pc' \in [Pid -> Place] /\ kind' \in [Pid -> Kind]
  BY DEF Place
<1>2. fd' \in [Pid -> Inode \cup {0}] /\ path' \in Inode \cup {0}
  OBVIOUS
<1>3. holder' \in [Inode -> Pid \cup {None}] /\ text' \in [Inode -> Pid \cup {None}]
  OBVIOUS
<1>4. job' \in Job /\ main' \in Pid \cup {None} /\ why' \in {"none", "failed", "signal", "fatal"}
  BY DEF Job, AfterExit
<1> QED
  BY <1>1, <1>2, <1>3, <1>4

\* Any file is new while nobody has one open.
LEMMA FreshIsFile ==
    ASSUME TypeOK, Locked, path = 0
    PROVE  Fresh \in Inode
<1>1. \A q \in Pid : fd[q] = 0
  BY DEF Locked
<1>2. \E i \in Inode : \A q \in Pid : fd[q] # i
  BY <1>1, DaemonAssumption
<1> QED
  BY <1>2 DEF Fresh

\* The steps of one process keep the types.
LEMMA StepTyped ==
    ASSUME TypeOK, Locked, NEW p \in Pid, Step(p)
    PROVE  TypeOK'
<1>0. UNCHANGED <<cmdVars, paired, os, events>> /\ events' \in Nat
  BY DEF Step, TypeOK
<1>1. CASE LoadConfig(p) \/ LoadKey(p)
  <2>1. CASE Exits(p, FALSE, "failed")
    BY <2>1, <1>0, ExitsTyped
  <2>2. CASE (Goto(p, "key") \/ Goto(p, "open")) /\ UNCHANGED lockVars
    BY <2>2, <1>0 DEF TypeOK, Goto, Place, lockVars, jobVars, cmdVars
  <2> QED
    BY <1>1, <2>1, <2>2, LoadGoesOn
<1>2. CASE Open(p)
  <2>1. Fresh \in Inode \/ path \in Inode
    BY FreshIsFile DEF TypeOK
  <2>2. path' \in Inode /\ fd' = [fd EXCEPT ![p] = path']
        /\ text' \in [Inode -> Pid \cup {None}] /\ UNCHANGED holder
    BY <1>2, <2>1, FreshIsFile DEF Open, TypeOK
  <2>3. pc' = [pc EXCEPT ![p] = "try"] /\ UNCHANGED <<kind, jobVars>>
    BY <1>2 DEF Open, Goto
  <2> QED
    BY <1>0, <2>2, <2>3 DEF TypeOK, Place, jobVars, cmdVars
<1>3. CASE TryLock(p)
  <2>1. pc' \in [Pid -> Place] /\ UNCHANGED <<kind, jobVars, fd, path, text>>
    BY <1>3 DEF TryLock, Goto, TypeOK, Place
  <2>2. holder' \in [Inode -> Pid \cup {None}]
    BY <1>3 DEF TryLock, TypeOK
  <2> QED
    BY <1>0, <2>1, <2>2 DEF TypeOK, jobVars, cmdVars
<1>4. CASE ReadPid(p)
  BY <1>4, <1>0, ExitsTyped DEF ReadPid
<1>5. CASE Clear(p)
  <2>1. pc' \in [Pid -> Place] /\ UNCHANGED <<kind, jobVars, fd, path, holder>>
    BY <1>5 DEF Clear, Goto, TypeOK, Place
  <2>2. text' \in [Inode -> Pid \cup {None}]
    BY <1>5 DEF Clear, TypeOK
  <2> QED
    BY <1>0, <2>1, <2>2 DEF TypeOK, jobVars, cmdVars
<1>6. CASE WritePid(p)
  <2>1. pc' \in [Pid -> Place] /\ UNCHANGED <<kind, jobVars, path>>
    BY <1>6 DEF WritePid, TypeOK, Place
  <2>2. text' \in [Inode -> Pid \cup {None}] /\ holder' \in [Inode -> Pid \cup {None}]
        /\ fd' \in [Pid -> Inode \cup {0}]
    BY <1>6 DEF WritePid, TypeOK
  <2> QED
    BY <1>0, <2>1, <2>2 DEF TypeOK, jobVars, cmdVars
<1> QED
  BY <1>1, <1>2, <1>3, <1>4, <1>5, <1>6 DEF Step

\* The commands keep the types.
LEMMA CommandTyped ==
    ASSUME TypeOK, Command
    PROVE  TypeOK'
<1>1. UNCHANGED <<pc, kind, lockVars, paired, os>>
  BY DEF Command, Install, Bootout, Poll, Polled, Bootstrap, Reload, Restarted,
         Uninstall, Remove, Aside
<1> DEFINE Rest == /\ file' \in Nat /\ loaded' \in Nat /\ runs' \in Nat
                   /\ job' \in Job /\ main' \in Pid \cup {None}
                   /\ cmd' \in Cmd /\ n' \in Nat
                   /\ why' \in {"none", "failed", "signal", "fatal"} /\ events' \in Nat
<1> SUFFICES Rest
  BY <1>1 DEF TypeOK, lockVars
<1> USE DEF TypeOK, Job, Cmd, Ask, Event, Stop, jobVars
<1>2. CASE Install  BY <1>2 DEF Install
<1>3. CASE Bootout  BY <1>3 DEF Bootout
<1>4. CASE Poll  BY <1>4 DEF Poll
<1>5. CASE Polled  BY <1>5 DEF Polled
<1>6. CASE Bootstrap  BY <1>6 DEF Bootstrap
<1>7. CASE Reload  BY <1>7 DEF Reload
<1>8. CASE Restarted  BY <1>8 DEF Restarted
<1>9. CASE Uninstall  BY <1>9 DEF Uninstall
<1>10. CASE Remove  BY <1>10 DEF Remove
<1> QED
  BY <1>2, <1>3, <1>4, <1>5, <1>6, <1>7, <1>8, <1>9, <1>10 DEF Command

LEMMA TypesStay ==
    ASSUME TypeOK, Locked, [Next]_vars
    PROVE  TypeOK'
<1>1. ASSUME NEW p \in Pid, Start(p) PROVE TypeOK'
  BY <1>1 DEF TypeOK, Start, Run, Event, Place, Kind, lockVars, jobVars, cmdVars
<1>2. ASSUME NEW p \in Pid, Step(p) PROVE TypeOK'
  BY <1>2, StepTyped
<1>3. ASSUME NEW p \in Pid, Ending(p) PROVE TypeOK'
  <2>1. UNCHANGED <<cmdVars, paired, os>>
    BY <1>3 DEF Ending
  <2>2. events' \in {events, events + 1}
    BY <1>3 DEF Ending, Signal, Crash, Event
  <2>3. events' \in Nat
    BY <2>2 DEF TypeOK
  <2> QED
    BY <1>3, <2>1, <2>3, EndingExits, ExitsTyped
<1>4. ASSUME NEW p \in Pid, Supervise(p) PROVE TypeOK'
  BY <1>4 DEF TypeOK, Supervise, Run, Place, Kind, Job, lockVars, cmdVars
<1>5. CASE Gone
  BY <1>5 DEF TypeOK, Gone, Job, lockVars, cmdVars
<1>6. CASE Login
  BY <1>6 DEF TypeOK, Login, Event, Place, Job, Cmd
<1>7. CASE Pair
  BY <1>7 DEF TypeOK, Pair, lockVars, jobVars, cmdVars
<1>8. CASE Command
  BY <1>8, CommandTyped
<1>9. CASE UNCHANGED vars
  BY <1>9 DEF TypeOK, vars, lockVars, jobVars, cmdVars
<1> QED
  BY <1>1, <1>2, <1>3, <1>4, <1>5, <1>6, <1>7, <1>8, <1>9 DEF Next

-----------------------------------------------------------------------------
(* The lock.                                                               *)

\* A process that ends lets go of its lock and of the file.
LEMMA ExitUnlocks ==
    ASSUME TypeOK, Locked, NEW p \in Pid, NEW clean, NEW reason, Exits(p, clean, reason)
    PROVE  Locked'
<1> USE DEF TypeOK
<1>1. /\ pc' = [pc EXCEPT ![p] = "gone"] /\ fd' = [fd EXCEPT ![p] = 0]
      /\ holder' = [i \in Inode |-> IF holder[i] = p THEN None ELSE holder[i]]
      /\ path' = path /\ text' = text
  BY DEF Exits, Drop
<1>2. \A q \in Pid : q # p => pc'[q] = pc[q] /\ fd'[q] = fd[q]
  BY <1>1
<1>3. pc'[p] = "gone" /\ fd'[p] = 0
  BY <1>1
<1>4. \A i \in Inode, q \in Pid : holder'[i] = q <=> q # p /\ holder[i] = q
  BY <1>1, DaemonAssumption
<1>5. \A q \in Pid : pc[q] \in Holding => path \in Inode
  BY DEF Locked, Holding
<1> QED
  BY <1>1, <1>2, <1>3, <1>4, <1>5 DEF Locked, Holding

\* Nothing about the lock changes with a step between two places that hold none.
LEMMA AsideUnlocked ==
    ASSUME TypeOK, Locked, NEW p \in Pid, NEW place \in {"config", "key", "open"},
           pc[p] \notin Holding, pc' = [pc EXCEPT ![p] = place], UNCHANGED lockVars
    PROVE  Locked'
BY DEF TypeOK, Locked, Holding, lockVars

\* acquire, step by step.
LEMMA StepLocked ==
    ASSUME TypeOK, Locked, NEW p \in Pid, Step(p)
    PROVE  Locked'
<1> USE DEF TypeOK, Holding
<1>1. CASE LoadConfig(p) \/ LoadKey(p)
  BY <1>1, LoadGoesOn, ExitUnlocks, AsideUnlocked DEF Goto
<1>2. CASE Open(p)
  <2>1. path' \in Inode /\ path' # 0 /\ fd' = [fd EXCEPT ![p] = path'] /\ holder' = holder
    BY <1>2, FreshIsFile, DaemonAssumption DEF Open
  <2>2. (path # 0 => path' = path /\ text' = text) /\ pc[p] = "open"
    BY <1>2 DEF Open
  <2>3. pc' = [pc EXCEPT ![p] = "try"]
    BY <1>2 DEF Open, Goto
  <2>4. CASE path # 0
    BY <2>1, <2>2, <2>3, <2>4 DEF Locked
  <2>5. CASE path = 0
    <3>1. \A q \in Pid : fd[q] = 0 /\ pc[q] \notin {"try", "read"} \cup Holding
      BY <2>5 DEF Locked
    <3>2. \A i \in Inode, q \in Pid : holder[i] # q
      BY <3>1 DEF Locked
    <3> QED
      BY <2>1, <2>3, <3>1, <3>2 DEF Locked
  <2> QED
    BY <2>4, <2>5
<1>3. CASE TryLock(p)
  <2>1. pc[p] = "try" /\ fd[p] = path /\ path \in Inode /\ UNCHANGED <<fd, path, text>>
    BY <1>3 DEF TryLock, Locked
  <2>2. CASE holder[path] = None
    <3>1. holder' = [holder EXCEPT ![path] = p] /\ pc' = [pc EXCEPT ![p] = "clear"]
      BY <1>3, <2>1, <2>2 DEF TryLock, Goto
    <3>2. \A q \in Pid : pc[q] \notin Holding
      BY <2>2, DaemonAssumption DEF Locked
    <3> QED
      BY <2>1, <3>1, <3>2, DaemonAssumption DEF Locked
  <2>3. CASE holder[path] # None
    <3>1. holder' = holder /\ pc' = [pc EXCEPT ![p] = "read"]
      BY <1>3, <2>1, <2>3 DEF TryLock, Goto
    <3> QED
      BY <2>1, <3>1 DEF Locked
  <2> QED
    BY <2>2, <2>3
<1>4. CASE ReadPid(p)
  BY <1>4, EndingExits, ExitUnlocks
<1>5. CASE Clear(p)
  <2>1. pc[p] = "clear" /\ fd[p] = path /\ path \in Inode /\ holder[path] = p
    BY <1>5 DEF Clear, Locked
  <2>2. pc' = [pc EXCEPT ![p] = "write"] /\ UNCHANGED <<fd, path, holder>>
        /\ text' = [text EXCEPT ![path] = None]
    BY <1>5, <2>1 DEF Clear, Goto
  <2>3. \A q \in Pid : pc[q] \in Holding => q = p
    BY <2>1 DEF Locked
  <2> QED
    BY <2>1, <2>2, <2>3 DEF Locked
<1>6. CASE WritePid(p)
  <2>1. pc[p] = "write" /\ fd[p] = path /\ path \in Inode /\ holder[path] = p /\ path' = path
    BY <1>6 DEF WritePid, Locked
  <2>2. \A q \in Pid : pc[q] \in Holding => q = p
    BY <2>1 DEF Locked
  <2>3. text' = [text EXCEPT ![path] = p]
    BY <1>6, <2>1 DEF WritePid
  <2>4. CASE kind[p] = "probe"
    <3>1. pc' = [pc EXCEPT ![p] = "gone"] /\ fd' = [fd EXCEPT ![p] = 0]
          /\ holder' = [holder EXCEPT ![path] = None]
      BY <1>6, <2>1, <2>4 DEF WritePid
    <3> QED
      BY <2>1, <2>2, <2>3, <3>1, DaemonAssumption DEF Locked
  <2>5. CASE kind[p] # "probe"
    <3>1. pc' = [pc EXCEPT ![p] = "serve"] /\ UNCHANGED <<holder, fd>>
      BY <1>6, <2>5 DEF WritePid
    <3> QED
      BY <2>1, <2>2, <2>3, <3>1 DEF Locked
  <2> QED
    BY <2>4, <2>5
<1> QED
  BY <1>1, <1>2, <1>3, <1>4, <1>5, <1>6 DEF Step

LEMMA LockStays ==
    ASSUME TypeOK, Locked, [Next]_vars
    PROVE  Locked'
<1>1. ASSUME NEW p \in Pid, Start(p) \/ Supervise(p) PROVE Locked'
  <2>1. UNCHANGED lockVars /\ pc[p] = "gone"
        /\ (pc' = [pc EXCEPT ![p] = "open"] \/ pc' = [pc EXCEPT ![p] = "config"])
    BY <1>1 DEF Start, Supervise, Run
  <2> QED
    BY <2>1, AsideUnlocked DEF Holding
<1>2. ASSUME NEW p \in Pid, Step(p) PROVE Locked'
  BY <1>2, StepLocked
<1>3. ASSUME NEW p \in Pid, Ending(p) PROVE Locked'
  BY <1>3, EndingExits, ExitUnlocks
<1>4. CASE Login
  BY <1>4, DaemonAssumption DEF Login, Locked, TypeOK, Holding
<1>5. CASE Gone \/ Pair \/ Command
  BY <1>5, ProcessesStay DEF Locked, lockVars
<1>6. CASE UNCHANGED vars
  BY <1>6 DEF Locked, vars, lockVars
<1> QED
  BY <1>1, <1>2, <1>3, <1>4, <1>5, <1>6 DEF Next

-----------------------------------------------------------------------------
(* The supervisor.                                                         *)

Jobs == Owned /\ DownForAReason

\* What the supervisor makes of a process that ends.
LEMMA ExitIsJudged ==
    ASSUME TypeOK, Jobs, NEW p \in Pid, NEW clean \in BOOLEAN,
           NEW reason \in {"failed", "signal", "fatal"}, Exits(p, clean, reason),
           clean => reason \in {"signal", "fatal"},
           reason = "fatal" => clean = (kind[p] = "unit")
    PROVE  Jobs'
<1> USE DEF TypeOK, Jobs, Owned, DownForAReason
<1>1. kind' = kind /\ pc' = [pc EXCEPT ![p] = "gone"]
  BY DEF Exits
<1>2. CASE p = main
  <2>1. main' = None /\ job' = AfterExit(clean) /\ why' = IF job = "up" THEN reason ELSE "none"
    BY <1>2 DEF Exits
  <2>2. kind[p] = "unit" /\ job \in {"up", "leaving", "cycling"}
    BY <1>2, DaemonAssumption
  <2>3. job # "up" => job' \in {"going", "off", "due"} /\ why' = "none"
    BY <2>1, <2>2 DEF AfterExit
  <2>4. job = "up" => job' = (IF clean THEN "idle" ELSE "due") /\ why' = reason
    BY <2>1 DEF AfterExit
  <2> QED
    BY <2>1, <2>2, <2>3, <2>4
<1>3. CASE p # main
  <2>1. UNCHANGED <<main, job, why>>
    BY <1>3 DEF Exits
  <2> QED
    BY <1>1, <1>3, <2>1
<1> QED
  BY <1>2, <1>3

\* A step of a process that stays alive, or that is no service, is not the
\* supervisor's business.
LEMMA UnnoticedStep ==
    ASSUME TypeOK, Jobs, NEW p \in Pid, NEW place \in Place,
           pc' = [pc EXCEPT ![p] = place], place # "gone" \/ p # main,
           p # main => \A q \in Pid \ {p} : kind'[q] = kind[q],
           p = main => kind' = kind, UNCHANGED jobVars
    PROVE  Jobs'
<1>1. UNCHANGED <<job, main, why>>
  BY DEF jobVars
<1>2. main # None => kind'[main] = "unit" /\ pc'[main] # "gone"
  BY DEF TypeOK, Jobs, Owned
<1> QED
  BY <1>1, <1>2 DEF Jobs, Owned, DownForAReason

LEMMA StepUnnoticed ==
    ASSUME TypeOK, Jobs, NEW p \in Pid, Step(p)
    PROVE  Jobs'
<1>1. CASE LoadConfig(p) \/ LoadKey(p)
  BY <1>1, LoadGoesOn, ExitIsJudged, UnnoticedStep DEF Goto, Place
<1>2. CASE Open(p) \/ TryLock(p) \/ Clear(p)
  BY <1>2, UnnoticedStep DEF Open, TryLock, Clear, Goto, Place
<1>3. CASE ReadPid(p)
  BY <1>3, EndingExits, ExitIsJudged
<1>4. CASE WritePid(p)
  <2>1. UNCHANGED <<kind, jobVars>>
    BY <1>4 DEF WritePid
  <2>2. kind[p] = "probe" => p # main
    BY DaemonAssumption DEF Jobs, Owned
  <2>3. PICK place \in Place : pc' = [pc EXCEPT ![p] = place] /\ (place = "gone" => kind[p] = "probe")
    BY <1>4 DEF WritePid, Place
  <2> QED
    BY <2>1, <2>2, <2>3, UnnoticedStep
<1> QED
  BY <1>1, <1>2, <1>3, <1>4 DEF Step

LEMMA JobsStay ==
    ASSUME TypeOK, Jobs, [Next]_vars
    PROVE  Jobs'
<1>1. ASSUME NEW p \in Pid, Start(p) PROVE Jobs'
  <2>1. PICK k \in {"hand", "probe"} : Run(p, k)
    BY <1>1 DEF Start
  <2>2. p # main
    BY <2>1, DaemonAssumption DEF Run, Jobs, Owned
  <2>3. UNCHANGED jobVars /\ \A q \in Pid \ {p} : kind'[q] = kind[q]
    BY <1>1, <2>1 DEF Start, Run, TypeOK
  <2> QED
    BY <2>1, <2>2, <2>3, UnnoticedStep DEF Run, Place
<1>2. ASSUME NEW p \in Pid, Step(p) PROVE Jobs'
  BY <1>2, StepUnnoticed
<1>3. ASSUME NEW p \in Pid, Ending(p) PROVE Jobs'
  BY <1>3, EndingExits, ExitIsJudged
<1>4. ASSUME NEW p \in Pid, Supervise(p) PROVE Jobs'
  BY <1>4 DEF Supervise, Run, Jobs, Owned, DownForAReason, TypeOK
<1>5. CASE Gone \/ Pair \/ Login
  BY <1>5 DEF Gone, Pair, Login, Jobs, Owned, DownForAReason, jobVars
<1>6. CASE Command
  <2>1. UNCHANGED <<pc, kind, main>>
    BY <1>6 DEF Command, Install, Bootout, Poll, Polled, Bootstrap, Reload, Restarted,
                Uninstall, Remove, Aside, jobVars
  <2>2. CASE UNCHANGED <<job, why>>
    BY <2>1, <2>2 DEF Jobs, Owned, DownForAReason
  <2>3. CASE Bootout \/ Uninstall \/ Reload \/ Bootstrap
    <3>1. UNCHANGED why \/ why' = "none"
      BY <2>3 DEF Bootout, Uninstall, Reload, Bootstrap
    <3>2. CASE main # None
      BY <2>1, <2>3, <3>1, <3>2 DEF Bootout, Uninstall, Reload, Bootstrap, Stop, Jobs, Owned, DownForAReason
    <3>3. CASE main = None
      BY <2>1, <2>3, <3>1, <3>3 DEF Bootout, Uninstall, Reload, Bootstrap, Stop, Jobs, Owned, DownForAReason
    <3> QED
      BY <3>2, <3>3
  <2> QED
    BY <1>6, <2>2, <2>3 DEF Command, Install, Poll, Polled, Restarted, Remove, jobVars
<1>7. CASE UNCHANGED vars
  BY <1>7 DEF vars, jobVars, Jobs, Owned, DownForAReason
<1> QED
  BY <1>1, <1>2, <1>3, <1>4, <1>5, <1>6, <1>7 DEF Next

-----------------------------------------------------------------------------
(* An install.                                                             *)

Deployed == InstallApplies /\ Installing

\* A process that ends brings a job nearer to being off or due, never back.
LEMMA ExitServesInstall ==
    ASSUME TypeOK, Owned, Deployed, NEW p \in Pid, NEW clean, NEW reason,
           Exits(p, clean, reason), UNCHANGED <<cmdVars, os>>
    PROVE  Deployed'
<1> USE DEF Deployed, InstallApplies, Installing, cmdVars
<1>1. UNCHANGED <<loaded, runs>>
  BY DEF Exits
<1>2. CASE p = main
  <2>1. main' = None /\ job' = AfterExit(clean)
    BY <1>2 DEF Exits
  <2>2. job \in {"up", "leaving", "cycling"}
    BY <1>2, DaemonAssumption DEF Owned
  <2>3. job = "leaving" /\ os = "macos" => job' = "going"
    BY <2>1 DEF AfterExit
  <2> QED
    BY <1>1, <2>1, <2>2, <2>3
<1>3. CASE p # main
  BY <1>1, <1>3 DEF Exits
<1> QED
  BY <1>2, <1>3

\* A step of a process that ends nothing leaves the supervisor alone.
LEMMA StepServesInstall ==
    ASSUME TypeOK, Owned, Deployed, NEW p \in Pid, Step(p) \/ Ending(p)
    PROVE  Deployed'
<1>1. UNCHANGED <<cmdVars, os>>
  BY DEF Step, Ending
<1>2. CASE UNCHANGED jobVars
  BY <1>1, <1>2 DEF Deployed, InstallApplies, Installing, cmdVars, jobVars
<1>3. CASE ReadPid(p) \/ Ending(p)
  BY <1>1, <1>3, EndingExits, ExitServesInstall
<1>4. CASE LoadConfig(p) \/ LoadKey(p)
  BY <1>1, <1>2, <1>4, LoadGoesOn, ExitServesInstall DEF Goto
<1>5. CASE Open(p) \/ TryLock(p) \/ Clear(p) \/ WritePid(p)
  BY <1>2, <1>5 DEF Open, TryLock, Clear, WritePid, Goto
<1> QED
  BY <1>3, <1>4, <1>5 DEF Step

\* The install itself: it waits longer than launchd lets a process live, and
\* tries more often than launchd refuses.
LEMMA CommandInstalls ==
    ASSUME TypeOK, Owned, Deployed, Command
    PROVE  Deployed'
<1> USE DEF Deployed, InstallApplies, Installing, Ask
<1>0. KillAfter < MaxPolls /\ KillAfter \in Nat /\ MaxPolls \in Nat
      /\ Linger < MaxTries /\ Linger \in Nat /\ MaxTries \in Nat /\ n \in Nat
  BY DaemonAssumption DEF TypeOK
<1>1. CASE Install
  BY <1>1 DEF Install
<1>2. CASE Bootout
  BY <1>0, <1>2 DEF Bootout, Stop, Owned, Aside
<1>3. CASE Poll
  BY <1>0, <1>3 DEF Poll, Aside, jobVars
<1>4. CASE Polled
  <2>1. ~Printed
    BY <1>0, <1>4 DEF Polled
  <2> QED
    BY <1>4, <2>1 DEF Polled, Printed, Aside, jobVars
<1>5. CASE Bootstrap
  <2>1. cmd = "boot" /\ job \in {"going", "off"} /\ main = None
    BY <1>5 DEF Bootstrap, Owned
  <2>2. UNCHANGED <<main, runs, file, os>>
    BY <1>5 DEF Bootstrap, Aside
  <2>3. CASE job = "off"
    <3>1. cmd' = "ok" /\ loaded' = file
      BY <1>5, <2>3 DEF Bootstrap
    <3> QED
      BY <2>1, <2>2, <3>1
  <2>4. CASE job = "going"
    <3>1. n < Linger
      BY <1>5, <2>4 DEF Bootstrap
    <3>2. n + 1 < MaxTries
      BY <1>0, <3>1
    <3>3. cmd' = "boot" /\ UNCHANGED job
      BY <1>5, <2>4, <3>2 DEF Bootstrap
    <3> QED
      BY <2>1, <2>2, <3>3
  <2> QED
    BY <2>1, <2>3, <2>4
<1>6. CASE Reload
  BY <1>6 DEF Reload, Stop, Owned, Aside
<1>7. CASE Restarted
  BY <1>7 DEF Restarted, Aside, jobVars
<1>8. CASE Uninstall
  BY <1>8 DEF Uninstall
<1>9. CASE Remove
  BY <1>9 DEF Remove
<1> QED
  BY <1>1, <1>2, <1>3, <1>4, <1>5, <1>6, <1>7, <1>8, <1>9 DEF Command

LEMMA InstallStays ==
    ASSUME TypeOK, Owned, Deployed, [Next]_vars
    PROVE  Deployed'
<1> USE DEF Deployed, InstallApplies, Installing
<1>1. ASSUME NEW p \in Pid, Start(p) PROVE Deployed'
  BY <1>1 DEF Start, jobVars, cmdVars
<1>2. ASSUME NEW p \in Pid, Step(p) \/ Ending(p) PROVE Deployed'
  BY <1>2, StepServesInstall
<1>3. ASSUME NEW p \in Pid, Supervise(p) PROVE Deployed'
  BY <1>3 DEF Supervise, cmdVars
<1>4. CASE Gone
  BY <1>4 DEF Gone, cmdVars
<1>5. CASE Login
  BY <1>5 DEF Login
<1>6. CASE Pair
  BY <1>6 DEF Pair, jobVars, cmdVars
<1>7. CASE Command
  BY <1>7, CommandInstalls
<1>8. CASE UNCHANGED vars
  BY <1>8 DEF vars, jobVars, cmdVars
<1> QED
  BY <1>1, <1>2, <1>3, <1>4, <1>5, <1>6, <1>7, <1>8 DEF Next

-----------------------------------------------------------------------------
LEMMA InitInv == Init => Inv
<1> SUFFICES ASSUME Init PROVE Inv
  OBVIOUS
<1> USE DEF Init
<1>1. TypeOK
  BY DEF TypeOK, Place, Kind, Job, Cmd
<1>2. Locked
  BY DaemonAssumption DEF Locked, Holding
<1>3. Owned /\ DownForAReason /\ InstallApplies /\ Installing
  BY DEF Owned, DownForAReason, InstallApplies, Installing
<1> QED
  BY <1>1, <1>2, <1>3 DEF Inv

LEMMA NextInv == Inv /\ [Next]_vars => Inv'
BY TypesStay, LockStays, JobsStay, InstallStays DEF Inv, Jobs, Deployed

LEMMA Invariance == Spec => []Inv
BY InitInv, NextInv, PTL DEF Spec

\* The state of the lock, of the supervisor and of an install keeps its types.
THEOREM TypeCorrect == Spec => []TypeOK
<1>1. Inv => TypeOK
  BY DEF Inv
<1> QED
  BY <1>1, Invariance, PTL

\* However processes start, crash and probe the lock, at most one daemon of a
\* directory serves, and the lock file has its pid (lock.rs, acquire).
THEOREM AlwaysOneDaemon == Spec => []OneDaemon
<1>1. Inv => OneDaemon
  <2> SUFFICES ASSUME TypeOK, Locked, NEW p \in Pid, pc[p] = "serve"
               PROVE  /\ \A q \in Pid : pc[q] = "serve" => q = p
                      /\ path # 0 /\ text[path] = p
    BY DEF Inv, OneDaemon
  <2>1. path # 0 /\ text[path] = p /\ holder[path] = p
    BY DEF Locked, Holding
  <2>2. \A q \in Pid : pc[q] = "serve" => holder[path] = q
    BY DEF Locked, Holding
  <2> QED
    BY <2>1, <2>2
<1> QED
  BY <1>1, Invariance, PTL

\* The supervisor gives the daemon up for a verdict or a signal alone, and does
\* not start again what the gateway refused (main.rs, connect_cmd).
THEOREM AlwaysDownForAReason == Spec => []DownForAReason
<1>1. Inv => DownForAReason
  BY DEF Inv
<1> QED
  BY <1>1, Invariance, PTL

\* An install never fails for a process that takes its time to go, and one that
\* reports success leaves none of an older definition (service.rs).
THEOREM InstallAlwaysApplies == Spec => []InstallApplies
<1>1. Inv => InstallApplies
  BY DEF Inv
<1> QED
  BY <1>1, Invariance, PTL

=============================================================================
