----------------------------- MODULE ConfigFile ------------------------------
(***************************************************************************)
(* config.toml, the commands that edit it, and the running daemon that     *)
(* both follows it (reload.rs) and, when the dashboard asks, edits it      *)
(* (connect.rs, remote_detach).  Nothing is locked: an edit is load,       *)
(* change, and a save through one temporary name (config.rs,               *)
(* write_private), each system call a step of its own.                     *)
(*                                                                         *)
(* A file's bytes are the config they spell, or `Torn` if they spell none. *)
(* A config is its servers, each with its tool rule, and its approvals;    *)
(* every credential of Cred is in agents.json.                             *)
(***************************************************************************)
EXTENDS Naturals, FiniteSets

CONSTANTS
    Alias,       \* servers
    Cred,        \* credentials
    Cli,         \* command processes, each running one command after another
    Daemon,      \* the daemon's process
    Detached,    \* the servers the dashboard may ask the daemon to detach
    MaxEdits,    \* bound: edits begun
    MaxClock,    \* bound: the clock file times are taken from
    MaxErrors    \* bound: reads of the watcher that fail

ASSUME ConfigFileAssumption ==
    /\ Daemon \notin Cli /\ Detached \subseteq Alias
    /\ "required" \notin Alias \cup Cred /\ Alias \cap Cred = {}
    /\ MaxEdits \in Nat /\ MaxClock \in Nat \ {0} /\ MaxErrors \in Nat
    /\ IsFiniteSet(Cli) /\ IsFiniteSet(Alias) /\ IsFiniteSet(Cred)

VARIABLES
    names,       \* the file each name is bound to: config.toml and config.toml.tmp
    data,        \* the files
    now,         \* the clock
    op,          \* the edit each process is making
    edits,       \* how many were begun
    overlapped,  \* history: two edits were under way at once
    mixed,       \* history: a text was written over the longer one of another process
    last,        \* watcher: the stamp last seen
    retry,       \* watcher: the last look failed
    looking,     \* watcher: between stat and read
    errors,      \* how many of its reads failed
    view,        \* watcher: the config it serves
    said,        \* history: the value each field was last successfully given
    saved,       \* history: every config a process set out to save
    stamped      \* history: every stamp config.toml had, with the config it held

fileVars == <<names, data, now>>
watcherVars == <<last, retry, looking, errors, view>>
editVars == <<op, edits, overlapped, mixed>>
vars == <<fileVars, editVars, watcherVars, said, saved, stamped>>

Rules == {"all", "readonly"}
Configs == [servers : UNION {[A -> Rules] : A \in SUBSET Alias},
            required : BOOLEAN, approved : SUBSET Cred]
Torn == [torn |-> TRUE]
Files == 1..(Cardinality(Cli) + 3)
NoFile == 0
Never == [at |-> 0, len |-> 0]
Idle == [step |-> "idle"]
Gone == [cfg |-> Torn, len |-> 0, at |-> 0]

\* The lines of the text: names are taken to be of one length, and what is default
\* (no approvals, every tool) is not written.
Size(cfg) ==
    (IF cfg.required THEN 2 ELSE 1)
      + Cardinality(DOMAIN cfg.servers)
      + Cardinality({a \in DOMAIN cfg.servers : cfg.servers[a] # "all"})
      + Cardinality(cfg.approved)

Config == data[names.path].cfg
Stamp == [at |-> data[names.path].at, len |-> data[names.path].len]

-----------------------------------------------------------------------------
(* Fields.                                                                 *)

\* A field is a server, a credential's approval, or require_approval.
Fields == Alias \cup Cred \cup {"required"}

Value(f, cfg) ==
    CASE f \in Alias -> {<<a, cfg.servers[a]>> : a \in DOMAIN cfg.servers \cap {f}}
      [] f \in Cred -> cfg.approved \cap {f}
      [] f = "required" -> cfg.required

-----------------------------------------------------------------------------
Procs == Cli \cup {Daemon}

Init ==
    /\ names = [path |-> 1, tmp |-> NoFile]
    /\ now = 1
    /\ \E cfg \in Configs :
        /\ cfg.required \/ cfg.approved = {}
        /\ data = [i \in Files |-> IF i = 1 THEN [cfg |-> cfg, len |-> Size(cfg), at |-> 1]
                                   ELSE Gone]
        /\ view = cfg
        /\ said = [f \in Fields |-> {Value(f, cfg)}]
        /\ saved = {cfg}
        /\ stamped = {<<[at |-> 1, len |-> Size(cfg)], cfg>>}
    /\ op = [p \in Procs |-> Idle]
    /\ edits = 0 /\ overlapped = FALSE /\ mixed = FALSE
    /\ last = Never /\ retry = FALSE /\ looking = FALSE /\ errors = 0

ClockTick ==
    /\ now < MaxClock
    /\ now' = now + 1
    /\ UNCHANGED <<names, data, editVars, watcherVars, said, saved, stamped>>

\* What config.toml's bytes are after this step is noted.
NoteStamp == stamped' = stamped \cup {<<Stamp', Config'>>}

\* Load the file and change `fields` of it in memory, to `cfg`.  The daemon's task
\* does one thing at a time: not while its watcher is between stat and read.
Begin(p, fields, cfg) ==
    /\ op[p] = Idle
    /\ p = Daemon => ~looking
    /\ edits < MaxEdits
    /\ op' = [op EXCEPT ![p] = [step |-> "loaded", fields |-> fields, cfg |-> cfg, file |-> NoFile]]
    /\ edits' = edits + 1
    /\ overlapped' = (overlapped \/ \E q \in Procs : op[q] # Idle)
    /\ said' = [f \in Fields |-> IF f \in fields THEN {} ELSE said[f]]
    /\ saved' = saved \cup {cfg}
    /\ UNCHANGED <<fileVars, mixed, watcherVars, stamped>>

\* The edits.  Each reads the file whole; one that would change nothing, or is refused,
\* reports so and saves nothing.
attach(p, a) ==
    /\ Config # Torn /\ a \notin DOMAIN Config.servers
    /\ Begin(p, {a}, [Config EXCEPT !.servers =
                        [b \in DOMAIN @ \cup {a} |-> IF b = a THEN "all" ELSE @[b]]])

detach(p, a) ==
    /\ Config # Torn /\ a \in DOMAIN Config.servers
    /\ Begin(p, {a}, [Config EXCEPT !.servers = [b \in DOMAIN @ \ {a} |-> @[b]]])

tools_cmd(p, a, rule) ==
    /\ Config # Torn /\ a \in DOMAIN Config.servers /\ Config.servers[a] # rule
    /\ Begin(p, {a}, [Config EXCEPT !.servers[a] = rule])

turn_on(p, keep) ==
    /\ Config # Torn /\ ~Config.required
    /\ Begin(p, Cred \cup {"required"}, [Config EXCEPT !.required = TRUE, !.approved = keep])

turn_off(p) ==
    /\ Config # Torn /\ Config.required
    /\ Begin(p, Cred \cup {"required"}, [Config EXCEPT !.required = FALSE, !.approved = {}])

approve(p, c) ==
    /\ Config # Torn /\ Config.required /\ c \notin Config.approved
    /\ Begin(p, {c}, [Config EXCEPT !.approved = @ \cup {c}])

revoke(p, c) ==
    /\ Config # Torn /\ c \in Config.approved
    /\ Begin(p, {c}, [Config EXCEPT !.approved = @ \ {c}])

\* The owner removes a server on the dashboard.
remote_detach == \E a \in Detached : detach(Daemon, a)

Command(p) ==
    \/ \E a \in Alias : attach(p, a) \/ detach(p, a) \/ \E rule \in Rules : tools_cmd(p, a, rule)
    \/ \E keep \in SUBSET Cred : turn_on(p, keep)
    \/ turn_off(p)
    \/ \E c \in Cred : approve(p, c) \/ revoke(p, c)

Unused(i) ==
    /\ i \notin {names.path, names.tmp}
    /\ \A p \in Procs : op[p].step = "opened" => op[p].file # i

Open_OnPath(p) ==                                               \* mutant
    /\ op[p].step = "loaded"
    /\ names' = [names EXCEPT !.tmp = names.path]
    /\ op' = [op EXCEPT ![p].step = "opened", ![p].file = names'.tmp]
    /\ data' = [data EXCEPT ![names'.tmp] = [cfg |-> Torn, len |-> 0, at |-> now]]
    /\ UNCHANGED <<now, edits, overlapped, mixed, watcherVars, said, saved>>
    /\ NoteStamp

Open_KeepsOld(p) ==                                             \* mutant
    /\ op[p].step = "loaded"
    /\ names' = [names EXCEPT !.tmp = IF @ # NoFile THEN @ ELSE CHOOSE i \in Files : Unused(i)]
    /\ op' = [op EXCEPT ![p].step = "opened", ![p].file = names'.tmp]
    /\ data' = [data EXCEPT ![names'.tmp] = IF names.tmp = NoFile THEN [Gone EXCEPT !.at = now]
                                            ELSE @]
    /\ UNCHANGED <<now, edits, overlapped, mixed, watcherVars, said, saved, stamped>>

\* Open config.toml.tmp: truncate the file of that name, or create one.
Open(p) ==
    /\ op[p].step = "loaded"
    /\ names' = [names EXCEPT !.tmp = IF @ # NoFile THEN @ ELSE CHOOSE i \in Files : Unused(i)]
    /\ op' = [op EXCEPT ![p].step = "opened", ![p].file = names'.tmp]
    /\ data' = [data EXCEPT ![names'.tmp] = [cfg |-> Torn, len |-> 0, at |-> now]]
    /\ UNCHANGED <<now, edits, overlapped, mixed, watcherVars, said, saved, stamped>>

\* Write from the start of the file.  What another process wrote beyond the end of
\* this text stays, and the two together may spell anything.
Write(p) ==
    /\ op[p].step = "opened"
    /\ LET i == op[p].file
           size == Size(op[p].cfg)
       IN \/ /\ size >= data[i].len /\ UNCHANGED mixed
             /\ data' = [data EXCEPT ![i] = [cfg |-> op[p].cfg, len |-> size, at |-> now]]
          \/ /\ size < data[i].len /\ mixed' = TRUE
             /\ \E cfg \in Configs \cup {Torn} :
                  data' = [data EXCEPT ![i].cfg = cfg, ![i].at = now]
    /\ op' = [op EXCEPT ![p].step = "written", ![p].file = NoFile]
    /\ UNCHANGED <<names, now, edits, overlapped, watcherVars, said, saved>>
    /\ NoteStamp

\* Rename over config.toml, and report success.
Rename(p) ==
    /\ op[p].step = "written" /\ names.tmp # NoFile
    /\ names' = [path |-> names.tmp, tmp |-> NoFile]
    /\ op' = [op EXCEPT ![p] = Idle]
    /\ LET busy == UNION {op[q].fields : q \in {q \in Procs \ {p} : op[q] # Idle}}
       IN said' = [f \in Fields |-> IF f \in op[p].fields \ busy
                                    THEN {Value(f, op[p].cfg)} ELSE said[f]]
    /\ data' = [i \in Files |->
                  IF i = names.path /\ \A q \in Procs : op[q].step = "opened" => op[q].file # i
                  THEN Gone ELSE data[i]]
    /\ UNCHANGED <<now, edits, overlapped, mixed, watcherVars, saved>>
    /\ NoteStamp

\* Another process renamed the temporary file away: chmod or rename reports it.
RenameFails(p) ==
    /\ op[p].step = "written" /\ names.tmp = NoFile
    /\ op' = [op EXCEPT ![p] = Idle]
    /\ UNCHANGED <<fileVars, edits, overlapped, mixed, watcherVars, said, saved, stamped>>

\* The command is killed before it is done.
Crash(p) ==
    /\ op[p] # Idle
    /\ op' = [op EXCEPT ![p] = Idle]
    /\ UNCHANGED <<fileVars, edits, overlapped, mixed, watcherVars, said, saved, stamped>>

-----------------------------------------------------------------------------
(* The watcher, ConfigWatcher::poll.                                       *)

\* stat, and go on to read if it moved or the last look failed.
Stat ==
    /\ ~looking /\ op[Daemon] = Idle
    /\ last # Stamp \/ retry
    /\ last' = Stamp
    /\ looking' = TRUE
    /\ UNCHANGED <<fileVars, editVars, retry, errors, view, said, saved, stamped>>

Load_ServersOnly ==                                             \* mutant
    /\ looking /\ Config # Torn
    /\ looking' = FALSE /\ retry' = FALSE
    /\ view' = IF Config.servers = view.servers THEN view ELSE Config
    /\ UNCHANGED <<fileVars, editVars, last, errors, said, saved, stamped>>

\* Read and compare: a config with other servers or another admission is served.
Load ==
    /\ looking /\ Config # Torn
    /\ looking' = FALSE /\ retry' = FALSE
    /\ view' = Config
    /\ UNCHANGED <<fileVars, editVars, last, errors, said, saved, stamped>>

\* The file does not parse, or cannot be read.
LoadFails ==
    /\ looking
    /\ \/ Config = Torn /\ UNCHANGED errors
       \/ errors < MaxErrors /\ errors' = errors + 1
    /\ looking' = FALSE /\ retry' = TRUE
    /\ UNCHANGED <<fileVars, editVars, last, view, said, saved, stamped>>

Save(p) == Open(p) \/ Write(p) \/ Rename(p) \/ RenameFails(p)

Next ==
    \/ ClockTick
    \/ \E p \in Cli : Command(p) \/ Crash(p)
    \/ remote_detach
    \/ \E p \in Procs : Save(p)
    \/ Stat \/ Load \/ LoadFails

Spec == Init /\ [][Next]_vars

\* The poll goes on, and the commands do.
FairSpec ==
    /\ Spec
    /\ WF_vars(Stat) /\ WF_vars(Load \/ LoadFails)
    /\ \A p \in Procs : WF_vars(Save(p))
-----------------------------------------------------------------------------
(* Properties.                                                             *)

Contents == [cfg : Configs \cup {Torn}, len : Nat, at : 0..MaxClock]

TypeOK ==
    /\ names \in [path : Files, tmp : Files \cup {NoFile}]
    /\ DOMAIN data = Files /\ \A i \in Files : data[i] \in Contents
    /\ now \in 1..MaxClock /\ edits \in 0..MaxEdits /\ overlapped \in BOOLEAN
    /\ mixed \in BOOLEAN /\ errors \in 0..MaxErrors
    /\ DOMAIN op = Procs
    /\ \A p \in Procs : op[p] = Idle \/
          op[p] \in [step : {"loaded", "opened", "written"}, fields : SUBSET Fields,
                    cfg : Configs, file : Files \cup {NoFile}]
    /\ last \in [at : 0..MaxClock, len : Nat]
    /\ retry \in BOOLEAN /\ looking \in BOOLEAN
    /\ view \in Configs /\ saved \subseteq Configs
    /\ DOMAIN said = Fields

\* "Write to `dir/config.toml` atomically" (src/src/config.rs:321): whoever reads the
\* file at any moment, a command killed half-way included, finds a whole config.
\* (With edits that overlap it may not: they share the temporary file.)
ConfigIsWhole == ~overlapped => Config # Torn

\* An edit whose success was reported holds in the file until another edit of the
\* same server, credential or switch begins.  (Again, unless edits overlap.)
NoLostEdit ==
    ~overlapped => \A f \in Fields :
        said[f] # {} => Config # Torn /\ said[f] = {Value(f, Config)}

\* However saves overlap, the daemon serves a config that somebody set out to save,
\* until a text goes over the longer one of another process: what the two spell
\* together nobody may have meant.
ServedWasSaved == ~mixed => view \in saved

\* Two different contents of config.toml fall within one reading of the clock.
SameTick ==
    \E x, y \in stamped : x # y /\ x[1].at = Stamp.at /\ y[1].at = Stamp.at

\* Every edit reaches the daemon, unless edits came faster than the clock that file
\* times are taken from.
EditsAreSeen == []<>(view = Config \/ Config = Torn \/ SameTick)
=============================================================================
