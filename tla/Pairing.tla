------------------------------- MODULE Pairing -------------------------------
(***************************************************************************)
(* Runs of `webmcp login` and `webmcp up` on one config directory          *)
(* (src/src/main.rs, pair.rs, device_auth.rs, keys.rs).  A run loads what is*)
(* there, has the gateway register a fresh key - by a code at once, or by  *)
(* polling until the owner approved - then saves the key and the config,   *)
(* two files.  It may be killed anywhere, and two runs may overlap.        *)
(*                                                                         *)
(* The key of run p is p, and so is the device the gateway registers for   *)
(* it; 0 are those the directory began with.  Of a config the device is    *)
(* kept, and of what carries over from the one before only whether approval*)
(* is required.  Saving config.toml is one step here; ConfigFile has it by     *)
(* system calls.  A run's clock starts with the device code.               *)
(***************************************************************************)
EXTENDS Naturals, FiniteSets

CONSTANTS
    Runs,        \* bound: 1..Runs is every run of a command
    Expires,     \* expires_in of a device code, in ticks
    Interval,    \* interval of a device code
    SlowDownBy,  \* SLOW_DOWN_SECS
    Timeout      \* time limit of one HTTP request

ASSUME PairingAssumption ==
    /\ Runs \in Nat \ {0} /\ Expires \in Nat /\ Timeout \in Nat
    /\ Interval \in Nat \ {0} /\ SlowDownBy \in Nat \ {0}

Run == 1..Runs
NoDevice == Runs + 1    \* no config, no key
Empty == Runs + 2       \* a key file that was opened and not yet written
Key == 0..Runs
Inode == 1..(Runs + 1)

VARIABLES
    cfg,         \* the device config.toml names
    on,          \* require_approval in it
    names,       \* the inodes of device.key and device.key.tmp, 0 where absent
    data,        \* what the inodes hold
    step,        \* where each run is
    loaded,      \* the config it has in memory
    kept,        \* require_approval in that
    fd,          \* the inode it writes the key to
    consent,     \* the owner's answer, as the gateway knows it
    age,         \* ticks since the device code was issued
    wake,        \* when the next poll is due
    interval,
    polled,      \* when the last poll went out
    overlapped,  \* two runs were under way at once
    broken       \* a re-pair ended between its two files

files == <<cfg, on, names, data>>
flow == <<consent, age, wake, interval, polled>>
ghosts == <<overlapped, broken>>
mine == <<loaded, kept>>
vars == <<files, step, mine, fd, flow, ghosts>>

KeyFile == IF names.path = 0 THEN NoDevice ELSE data[names.path]
Ended == {"done", "failed", "killed"}
Active(p) == step[p] \notin Ended \cup {"new"}

Init ==
    /\ \/ cfg = NoDevice /\ on = FALSE /\ names = [path |-> 0, tmp |-> 0]
       \/ cfg = 0 /\ on \in BOOLEAN /\ names = [path |-> 1, tmp |-> 0]
    /\ data = [i \in Inode |-> IF i = 1 THEN 0 ELSE Empty]
    /\ step = [p \in Run |-> "new"] /\ loaded = [p \in Run |-> NoDevice] /\ kept = [p \in Run |-> FALSE]
    /\ fd = [p \in Run |-> 0]
    /\ consent = [p \in Run |-> "none"]
    /\ age = [p \in Run |-> 0] /\ wake = [p \in Run |-> 0] /\ polled = [p \in Run |-> 0]
    /\ interval = [p \in Run |-> Interval]
    /\ overlapped = FALSE /\ broken = FALSE

Go(p, s) == step' = [step EXCEPT ![p] = s]

-----------------------------------------------------------------------------
(* The commands.                                                           *)

\* A run begins by loading the config; the next begins after it in number.
Begin(p) ==
    /\ step[p] = "new" /\ (p > 1 => step[p - 1] # "new")
    /\ loaded' = [loaded EXCEPT ![p] = cfg] /\ kept' = [kept EXCEPT ![p] = on]
    /\ overlapped' = (overlapped \/ \E q \in Run : Active(q))

login(p, force) ==
    /\ Begin(p)
    /\ Go(p, IF cfg # NoDevice /\ ~force THEN "failed" ELSE "asking")
    /\ UNCHANGED <<files, fd, flow, broken>>

up(p) ==
    /\ Begin(p)
    /\ Go(p, "loaded")
    /\ UNCHANGED <<files, fd, flow, broken>>

\* `up` pairs "unless this machine already has both halves of an identity".
up_steps(p, force) ==
    /\ step[p] = "loaded"
    /\ Go(p, IF KeyFile = Empty THEN "failed"
             ELSE IF loaded[p] # NoDevice /\ KeyFile # NoDevice /\ ~force THEN "picking"
             ELSE "starting")
    /\ UNCHANGED <<files, mine, fd, flow, ghosts>>

\* The rest of `up`: servers are attached to the config in memory and saved.
Attach(p) ==
    /\ step[p] = "picking"
    /\ cfg' = loaded[p] /\ on' = kept[p]
    /\ UNCHANGED <<names, data, step, mine, fd, flow, ghosts>>

Finish(p) ==
    /\ step[p] = "picking"
    /\ Go(p, "done")
    /\ UNCHANGED <<files, mine, fd, flow, ghosts>>

-----------------------------------------------------------------------------
(* Registering the key.                                                    *)

\* login: the pair endpoint answers 201, or anything else, or not at all.
pair(p) ==
    /\ step[p] = "asking"
    /\ \E s \in {"paired", "failed"} : Go(p, s)
    /\ UNCHANGED <<files, mine, fd, flow, ghosts>>

Sleep_NewDeadline(p, i) ==                                      \* mutant
    /\ age' = [age EXCEPT ![p] = 0]
    /\ wake' = [wake EXCEPT ![p] = i]
    /\ IF i > Expires THEN Go(p, "failed") ELSE Go(p, "sleeping")

\* The head of wait's loop, with `i` for the interval.
Sleep(p, i) ==
    /\ IF age[p] + i > Expires
       THEN Go(p, "failed") /\ UNCHANGED wake
       ELSE Go(p, "sleeping") /\ wake' = [wake EXCEPT ![p] = age[p] + i]
    /\ UNCHANGED age

start(p) ==
    /\ step[p] = "starting"
    /\ \/ Sleep(p, Interval)
       \/ Go(p, "failed") /\ UNCHANGED <<age, wake>>
    /\ UNCHANGED <<files, mine, fd, consent, interval, polled, ghosts>>

Poll(p) ==
    /\ step[p] = "sleeping" /\ age[p] = wake[p]
    /\ Go(p, "polling")
    /\ polled' = [polled EXCEPT ![p] = age[p]]
    /\ UNCHANGED <<files, mine, fd, consent, age, wake, interval, ghosts>>

Approved(p) ==
    /\ step[p] = "polling" /\ consent[p] = "approved"
    /\ Go(p, "paired")
    /\ consent' = [consent EXCEPT ![p] = "redeemed"]
    /\ UNCHANGED <<files, mine, fd, age, wake, interval, polled, ghosts>>

Pending(p) ==
    /\ step[p] = "polling"
    /\ Sleep(p, interval[p])
    /\ UNCHANGED <<files, mine, fd, consent, interval, polled, ghosts>>

SlowDown_Later(p) ==                                            \* mutant
    /\ step[p] = "polling"
    /\ interval' = [interval EXCEPT ![p] = @ + SlowDownBy]
    /\ Sleep(p, interval[p])
    /\ UNCHANGED <<files, mine, fd, consent, polled, ghosts>>

SlowDown(p) ==
    /\ step[p] = "polling"
    /\ interval' = [interval EXCEPT ![p] = @ + SlowDownBy]
    /\ Sleep(p, interval'[p])
    /\ UNCHANGED <<files, mine, fd, consent, polled, ghosts>>

\* A transport error or a 5xx is retried; the answer that was lost may have been
\* the one that redeems the code.
Lost(p) ==
    /\ step[p] = "polling"
    /\ \/ UNCHANGED consent
       \/ consent[p] = "approved" /\ consent' = [consent EXCEPT ![p] = "redeemed"]
    /\ Sleep(p, interval[p])
    /\ UNCHANGED <<files, mine, fd, interval, polled, ghosts>>

\* Declined, expired at the gateway, no more devices, an answer nobody knows.
Refused(p) ==
    /\ step[p] = "polling"
    /\ Go(p, "failed")
    /\ UNCHANGED <<files, mine, fd, flow, ghosts>>

OwnerApproves(p) ==
    /\ step[p] \in {"sleeping", "polling"} /\ consent[p] = "none"
    /\ consent' = [consent EXCEPT ![p] = "approved"]
    /\ UNCHANGED <<files, step, mine, fd, age, wake, interval, polled, ghosts>>

\* A run's time passes while it sleeps and while it waits for an answer.
Tick(p) ==
    /\ \/ step[p] = "sleeping" /\ age[p] < wake[p]
       \/ step[p] = "polling" /\ age[p] < polled[p] + Timeout
    /\ age' = [age EXCEPT ![p] = @ + 1]
    /\ UNCHANGED <<files, step, mine, fd, consent, wake, interval, polled, ghosts>>

-----------------------------------------------------------------------------
(* persist: the key, through its temporary name, then the config.          *)

\* check_endpoints does not like where the answer points to.
Misdirected(p) ==
    /\ step[p] = "paired"
    /\ Go(p, "failed")
    /\ UNCHANGED <<files, mine, fd, flow, ghosts>>

Opened(p, config) ==
    /\ step[p] = "paired"
    /\ Go(p, "opened")
    /\ LET new == IF names.tmp # 0 THEN names.tmp
                  ELSE CHOOSE i \in Inode : /\ i # names.path
                                            /\ \A q \in Run : Active(q) => fd[q] # i
       IN /\ fd' = [fd EXCEPT ![p] = new]
          /\ names' = [names EXCEPT !.tmp = new]
          /\ data' = [data EXCEPT ![new] = Empty]
    /\ cfg' = config
    /\ UNCHANGED <<on, mine, flow, ghosts>>

OpenKey_ConfigFirst(p) == Opened(p, p)                          \* mutant

OpenKey(p) == Opened(p, cfg)

WriteKey(p) ==
    /\ step[p] = "opened"
    /\ Go(p, "written")
    /\ data' = [data EXCEPT ![fd[p]] = p]
    /\ UNCHANGED <<cfg, on, names, mine, fd, flow, ghosts>>

\* Another run may have renamed the temporary file: then there is none.
RenameKey(p) ==
    /\ step[p] = "written"
    /\ IF names.tmp = 0
       THEN Go(p, "failed") /\ UNCHANGED names
       ELSE Go(p, "keyed") /\ names' = [path |-> names.tmp, tmp |-> 0]
    /\ UNCHANGED <<cfg, on, data, mine, fd, flow, ghosts>>

\* login is done then; up, whose owner was asked, goes on.
SaveConfig(p) ==
    /\ step[p] = "keyed"
    /\ Go(p, IF consent[p] = "none" THEN "done" ELSE "picking")
    /\ cfg' = p /\ on' = kept[p]
    /\ loaded' = [loaded EXCEPT ![p] = p]
    /\ broken' = FALSE
    /\ UNCHANGED <<names, data, kept, fd, flow, overlapped>>

\* Killed, or a file cannot be written.
Stop(p) ==
    /\ Active(p)
    /\ Go(p, "killed")
    /\ broken' = (broken \/ (step[p] = "keyed" /\ cfg # NoDevice))
    /\ UNCHANGED <<files, mine, fd, flow, overlapped>>

-----------------------------------------------------------------------------
Answer(p) == Approved(p) \/ Pending(p) \/ SlowDown(p) \/ Lost(p) \/ Refused(p)

Persist(p) == Misdirected(p) \/ OpenKey(p) \/ WriteKey(p) \/ RenameKey(p) \/ SaveConfig(p)

RunStep(p) ==
    \/ (\E force \in BOOLEAN : login(p, force) \/ up_steps(p, force)) \/ up(p)
    \/ Attach(p) \/ Finish(p)
    \/ pair(p) \/ start(p) \/ Poll(p) \/ Answer(p) \/ OwnerApproves(p) \/ Tick(p)
    \/ Persist(p) \/ Stop(p)

\* `webmcp approvals on`, at any time.
ApprovalsOn ==
    /\ cfg # NoDevice /\ ~on
    /\ on' = TRUE
    /\ UNCHANGED <<cfg, names, data, step, mine, fd, flow, ghosts>>

Next == ApprovalsOn \/ \E p \in Run : RunStep(p)

Spec == Init /\ [][Next]_vars

\* Time goes on, a request ends by its time limit, and a process that is not killed
\* makes its next system call.
FairSpec ==
    /\ Spec
    /\ \A p \in Run : /\ WF_vars(Tick(p)) /\ WF_vars(Poll(p))
                      /\ WF_vars(step[p] = "polling" /\ age[p] = polled[p] + Timeout /\ Lost(p))
                      /\ WF_vars(Persist(p))

-----------------------------------------------------------------------------
(* Properties.                                                             *)

TypeOK ==
    /\ cfg \in Key \cup {NoDevice}
    /\ names \in [path : 0..(Runs + 1), tmp : 0..(Runs + 1)]
    /\ data \in [Inode -> Key \cup {Empty}]
    /\ step \in [Run -> Ended \cup {"new", "loaded", "asking", "starting", "sleeping", "polling",
                                    "paired", "opened", "written", "keyed", "picking"}]
    /\ on \in BOOLEAN /\ kept \in [Run -> BOOLEAN]
    /\ loaded \in [Run -> Key \cup {NoDevice}] /\ fd \in [Run -> 0..(Runs + 1)]
    /\ consent \in [Run -> {"none", "approved", "redeemed"}]
    /\ age \in [Run -> 0..(Expires + Timeout)] /\ wake \in [Run -> 0..Expires]
    /\ polled \in [Run -> 0..Expires] /\ interval \in [Run -> Nat]
    /\ overlapped \in BOOLEAN /\ broken \in BOOLEAN

\* A config never stands beside another device's key, or beside none, whichever run
\* was killed where - a first pairing at any point -, as long as runs do not overlap
\* and no re-pair ended between the two files ("the key first: a config without a
\* key is useless").
KeyMatchesDevice ==
    cfg # NoDevice /\ ~overlapped /\ ~broken /\ (\A p \in Run : step[p] # "keyed")
        => KeyFile = cfg

\* "Never polls faster than `interval` (plus 5 s per `slow_down`)", however long the
\* answers take, and not once the code has expired.
PollsKeepTheirDistance ==
    [][\A p \in Run : polled'[p] # polled[p] =>
        polled'[p] >= polled[p] + interval[p] /\ polled'[p] <= Expires]_vars

\* A run that waits for the owner stops waiting, even if the gateway never says that
\* the code expired and every answer is lost.
PairingEnds ==
    \A p \in Run : step[p] = "sleeping" ~> step[p] \in Ended \cup {"picking"}

\* The approval settings of the config a re-pair replaces "carry over, so pairing
\* again never turns local approval off": what persist saves says so if the file did.
PairingKeepsApproval ==
    [][on /\ (\E p \in Run : step[p] = "keyed" /\ step'[p] \in {"done", "picking"}) => on']_vars
=============================================================================
