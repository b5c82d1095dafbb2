---------------------------- MODULE ConfigFileProofs ----------------------------
(***************************************************************************)
(* What one save after another keeps of config.toml, and what a daemon     *)
(* serves when they overlap, for any number of processes, servers and      *)
(* credentials.                                                            *)
(***************************************************************************)
EXTENDS ConfigFile, FiniteSetTheorems, TLAPS

\* Every text about to be in a file is one that a process set out to save, and until
\* one goes over the longer one of another, so is every text in a file and the one served.
Meant ==
    /\ ~mixed => \A i \in Files : data[i].cfg \in saved \cup {Torn}
    /\ \A p \in Procs : op[p] # Idle => op[p].cfg \in saved
    /\ ~mixed => view \in saved

\* How far the only save under way is.
Progress(p) ==
    /\ op[p].step \in {"opened", "written"} => names.tmp \in Files
    /\ op[p].step = "opened" => op[p].file = names.tmp /\ data[names.tmp].len = 0
    /\ op[p].step = "written" => data[names.tmp].cfg = op[p].cfg

\* One edit at a time: it changes its own fields, and config.toml is not the file
\* that it writes.
Solo ==
    /\ \A p, q \in Procs : op[p] # Idle /\ op[q] # Idle => p = q
    /\ names.path # names.tmp
    /\ Config \in Configs
    /\ \A p \in Procs : op[p] # Idle =>
          /\ Progress(p)
          /\ \A f \in Fields \ op[p].fields : Value(f, op[p].cfg) = Value(f, Config)
    /\ \A f \in Fields : said[f] # {} => said[f] = {Value(f, Config)}

Inv == TypeOK /\ Meant /\ (~overlapped => Solo)

-----------------------------------------------------------------------------
(* The edits.                                                              *)

\* A text has a number of lines.
LEMMA SizeIsNat ==
    ASSUME NEW cfg \in Configs
    PROVE  Size(cfg) \in Nat
<1>1. DOMAIN cfg.servers \subseteq Alias /\ cfg.approved \subseteq Cred
  BY DEF Configs
<1>2. IsFiniteSet(DOMAIN cfg.servers) /\ IsFiniteSet(cfg.approved)
  BY <1>1, FS_Subset, ConfigFileAssumption
<1>3. IsFiniteSet({a \in DOMAIN cfg.servers : cfg.servers[a] # "all"})
  BY <1>2, FS_Subset
<1> QED
  BY <1>2, <1>3, FS_CardinalityType DEF Size

\* What every edit is: fields to change, and a config that differs in those alone.
Edit(p, fields, cfg) ==
    /\ Begin(p, fields, cfg)
    /\ \A f \in Fields \ fields : Value(f, cfg) = Value(f, Config)

\* A config is one if its parts are.
LEMMA ConfigParts ==
    ASSUME NEW servers, NEW required, NEW approved, NEW A \in SUBSET Alias,
           servers \in [A -> Rules], required \in BOOLEAN, approved \in SUBSET Cred
    PROVE  [servers |-> servers, required |-> required, approved |-> approved] \in Configs
<1>1. servers \in UNION {[B -> Rules] : B \in SUBSET Alias}
  OBVIOUS
<1> QED
  BY <1>1 DEF Configs

\* Another set of servers that differs in one changes that field alone.
LEMMA ServersEdit ==
    ASSUME NEW p, NEW a \in Alias, Config \in Configs, NEW A \in SUBSET Alias,
           NEW servers \in [A -> Rules],
           \A b \in Alias \ {a} : /\ b \in A <=> b \in DOMAIN Config.servers
                                  /\ b \in A => servers[b] = Config.servers[b],
           Begin(p, {a}, [Config EXCEPT !.servers = servers])
    PROVE  \E fields \in SUBSET Fields, cfg \in Configs : Edit(p, fields, cfg)
<1> DEFINE cfg == [servers |-> servers, required |-> Config.required,
                   approved |-> Config.approved]
<1>1. [Config EXCEPT !.servers = servers] = cfg
  BY DEF Configs
<1>2. cfg \in Configs
  <2>1. Config.required \in BOOLEAN /\ Config.approved \in SUBSET Cred
    BY DEF Configs
  <2> QED
    BY <2>1, ConfigParts
<1>3. ASSUME NEW f \in Fields \ {a} PROVE Value(f, cfg) = Value(f, Config)
  <2>1. CASE f \in Alias
    <3>1. Value(f, cfg) = {<<b, servers[b]>> : b \in DOMAIN servers \cap {f}}
      BY <2>1, ConfigFileAssumption DEF Value
    <3>2. Value(f, Config) = {<<b, Config.servers[b]>> : b \in DOMAIN Config.servers \cap {f}}
      BY <2>1, ConfigFileAssumption DEF Value
    <3>3. DOMAIN servers = A
      OBVIOUS
    <3> QED
      BY <3>1, <3>2, <3>3, <2>1
  <2>2. CASE f \in Cred
    BY <2>2, ConfigFileAssumption DEF Value
  <2>3. CASE f = "required"
    BY <2>3, ConfigFileAssumption DEF Value
  <2> QED
    BY <2>1, <2>2, <2>3 DEF Fields
<1>4. Edit(p, {a}, cfg)
  BY <1>1, <1>3 DEF Edit
<1> QED
  BY <1>2, <1>4 DEF Fields

\* Other approvals, or another switch, leave the servers alone.
LEMMA ApprovalsEdit ==
    ASSUME NEW p, Config \in Configs, NEW fields \in SUBSET (Cred \cup {"required"}),
           NEW required \in BOOLEAN, NEW approved \in SUBSET Cred,
           "required" \in fields \/ required = Config.required,
           \A c \in Cred \ fields : c \in approved <=> c \in Config.approved,
           Begin(p, fields, [servers |-> Config.servers, required |-> required,
                             approved |-> approved])
    PROVE  \E fs \in SUBSET Fields, cfg \in Configs : Edit(p, fs, cfg)
<1> DEFINE cfg == [servers |-> Config.servers, required |-> required, approved |-> approved]
<1>1. cfg \in Configs
  BY DEF Configs
<1>2. ASSUME NEW f \in Fields \ fields PROVE Value(f, cfg) = Value(f, Config)
  <2>1. CASE f \in Alias
    BY <2>1 DEF Value
  <2>2. CASE f \in Cred
    <3>1. approved \cap {f} = Config.approved \cap {f}
      BY <2>2
    <3> QED
      BY <2>2, <3>1, ConfigFileAssumption DEF Value
  <2>3. CASE f = "required"
    BY <2>3, ConfigFileAssumption DEF Value
  <2> QED
    BY <2>1, <2>2, <2>3 DEF Fields
<1>3. Edit(p, fields, cfg)
  BY <1>2 DEF Edit
<1> QED
  BY <1>1, <1>3 DEF Fields

\* A config has three fields.
LEMMA ConfigRecord ==
    ASSUME NEW cfg \in Configs, NEW required, NEW approved
    PROVE  /\ [cfg EXCEPT !.required = required, !.approved = approved]
                = [servers |-> cfg.servers, required |-> required, approved |-> approved]
           /\ [cfg EXCEPT !.approved = approved]
                = [servers |-> cfg.servers, required |-> cfg.required, approved |-> approved]
<1>1. cfg \in [servers : UNION {[A -> Rules] : A \in SUBSET Alias},
                required : BOOLEAN, approved : SUBSET Cred]
  BY Zenon DEF Configs
<1>2. [cfg EXCEPT !.approved = approved]
        = [servers |-> cfg.servers, required |-> cfg.required, approved |-> approved]
  BY <1>1
<1>3. [cfg EXCEPT !.required = required, !.approved = approved]
        = [servers |-> cfg.servers, required |-> required, approved |-> approved]
  <2> DEFINE on == [cfg EXCEPT !.required = required]
  <2>1. on = [servers |-> cfg.servers, required |-> required, approved |-> cfg.approved]
    BY <1>1
  <2>2. [cfg EXCEPT !.required = required, !.approved = approved]
          = [on EXCEPT !.approved = approved]
    OBVIOUS
  <2> HIDE DEF on
  <2>3. [on EXCEPT !.approved = approved]
          = [servers |-> cfg.servers, required |-> required, approved |-> approved]
    BY <2>1
  <2> QED
    BY <2>2, <2>3
<1> QED
  BY <1>2, <1>3

\* Each command, and the daemon's detach, is such an edit.
LEMMA EachEdit ==
    ASSUME Config # Torn => Config \in Configs,
           NEW p, Command(p) \/ \E a \in Alias : detach(p, a)
    PROVE  \E fields \in SUBSET Fields, cfg \in Configs : Edit(p, fields, cfg)
<1> DEFINE Goal == \E fields \in SUBSET Fields, cfg \in Configs : Edit(p, fields, cfg)
<1>1. ASSUME NEW a \in Alias, attach(p, a) PROVE Goal
  <2> DEFINE A == DOMAIN Config.servers \cup {a}
             servers == [b \in A |-> IF b = a THEN "all" ELSE Config.servers[b]]
  <2>1. Config \in Configs /\ Begin(p, {a}, [Config EXCEPT !.servers = servers])
    BY <1>1 DEF attach
  <2>2. A \in SUBSET Alias /\ servers \in [A -> Rules]
    BY <2>1 DEF Configs, Rules
  <2>3. \A b \in Alias \ {a} : /\ b \in A <=> b \in DOMAIN Config.servers
                               /\ b \in A => servers[b] = Config.servers[b]
    OBVIOUS
  <2> HIDE DEF A, servers
  <2> QED
    BY <2>1, <2>2, <2>3, ServersEdit
<1>2. ASSUME NEW a \in Alias, detach(p, a) PROVE Goal
  <2> DEFINE A == DOMAIN Config.servers \ {a}
             servers == [b \in A |-> Config.servers[b]]
  <2>1. Config \in Configs /\ Begin(p, {a}, [Config EXCEPT !.servers = servers])
    BY <1>2 DEF detach
  <2>2. A \in SUBSET Alias /\ servers \in [A -> Rules]
    BY <2>1 DEF Configs
  <2>3. \A b \in Alias \ {a} : /\ b \in A <=> b \in DOMAIN Config.servers
                               /\ b \in A => servers[b] = Config.servers[b]
    OBVIOUS
  <2> HIDE DEF A, servers
  <2> QED
    BY <2>1, <2>2, <2>3, ServersEdit
<1>3. ASSUME NEW a \in Alias, NEW rule \in Rules, tools_cmd(p, a, rule) PROVE Goal
  <2> DEFINE A == DOMAIN Config.servers
             servers == [Config.servers EXCEPT ![a] = rule]
  <2>1. Config \in Configs /\ Begin(p, {a}, [Config EXCEPT !.servers = servers])
    BY <1>3 DEF tools_cmd, Configs
  <2>2. A \in SUBSET Alias /\ servers \in [A -> Rules]
    BY <2>1 DEF Configs
  <2>3. \A b \in Alias \ {a} : b \in A => servers[b] = Config.servers[b]
    OBVIOUS
  <2> QED
    BY <2>1, <2>2, <2>3, ServersEdit
<1>4. ASSUME NEW keep \in SUBSET Cred, turn_on(p, keep) PROVE Goal
  <2>1. Config \in Configs
        /\ Begin(p, Cred \cup {"required"},
                 [servers |-> Config.servers, required |-> TRUE, approved |-> keep])
    BY <1>4, ConfigRecord DEF turn_on
  <2>2. \A c \in Cred \ (Cred \cup {"required"}) : c \in keep <=> c \in Config.approved
    OBVIOUS
  <2> QED
    BY <2>1, <2>2, ApprovalsEdit
<1>5. ASSUME turn_off(p) PROVE Goal
  <2>1. Config \in Configs
        /\ Begin(p, Cred \cup {"required"},
                 [servers |-> Config.servers, required |-> FALSE, approved |-> {}])
    BY <1>5, ConfigRecord DEF turn_off
  <2>2. \A c \in Cred \ (Cred \cup {"required"}) : c \in {} <=> c \in Config.approved
    OBVIOUS
  <2>3. {} \in SUBSET Cred
    OBVIOUS
  <2> QED
    BY <2>1, <2>2, <2>3, ApprovalsEdit
<1>6. ASSUME NEW c \in Cred, approve(p, c) PROVE Goal
  <2>1. Config \in Configs /\ Config.required
        /\ Begin(p, {c}, [servers |-> Config.servers, required |-> Config.required,
                          approved |-> Config.approved \cup {c}])
    BY <1>6, ConfigRecord DEF approve
  <2>2. Config.approved \cup {c} \in SUBSET Cred /\ Config.required \in BOOLEAN
    BY <2>1 DEF Configs
  <2>3. \A d \in Cred \ {c} : d \in Config.approved \cup {c} <=> d \in Config.approved
    OBVIOUS
  <2>4. {c} \in SUBSET (Cred \cup {"required"})
    OBVIOUS
  <2> QED
    BY <2>1, <2>2, <2>3, <2>4, ApprovalsEdit
<1>7. ASSUME NEW c \in Cred, revoke(p, c) PROVE Goal
  <2> DEFINE left == Config.approved \ {c}
  <2>1. Config \in Configs
        /\ Begin(p, {c}, [servers |-> Config.servers, required |-> Config.required,
                          approved |-> left])
    BY <1>7, ConfigRecord DEF revoke
  <2>2. left \in SUBSET Cred /\ Config.required \in BOOLEAN
    BY <2>1 DEF Configs
  <2>3. \A d \in Cred \ {c} : d \in left <=> d \in Config.approved
    OBVIOUS
  <2>4. {c} \in SUBSET (Cred \cup {"required"})
    OBVIOUS
  <2> HIDE DEF left
  <2> QED
    BY <2>1, <2>2, <2>3, <2>4, ApprovalsEdit
<1> QED
  BY <1>1, <1>2, <1>3, <1>4, <1>5, <1>6, <1>7 DEF Command

-----------------------------------------------------------------------------
(* Types.                                                                  *)

\* The steps, an edit of any kind being one of them.
Steps ==
    \/ \E p \in Procs : \/ \E fields \in SUBSET Fields, cfg \in Configs : Edit(p, fields, cfg)
                        \/ Open(p) \/ Write(p) \/ Rename(p) \/ RenameFails(p) \/ Crash(p)
    \/ ClockTick \/ Stat \/ Load \/ LoadFails

LEMMA NextSteps ==
    ASSUME TypeOK, Next
    PROVE  Steps
<1>1. Config # Torn => Config \in Configs
  BY DEF TypeOK, Contents, Config
<1>2. ASSUME NEW p \in Cli, Command(p) PROVE Steps
  BY <1>1, <1>2, EachEdit DEF Steps, Procs
<1>3. CASE remote_detach
  BY <1>1, <1>3, EachEdit, ConfigFileAssumption DEF Steps, Procs, remote_detach
<1> QED
  BY <1>2, <1>3 DEF Next, Save, Steps, Procs

\* While a save has yet to open its file, some file is neither bound to a name nor open.
LEMMA UnusedExists ==
    ASSUME TypeOK, NEW p \in Procs, op[p].step = "loaded", names.tmp = NoFile
    PROVE  \E i \in Files : Unused(i)
<1> DEFINE opened == {q \in Procs : op[q].step = "opened"}
           files == {op[q].file : q \in opened}
           f == [q \in opened |-> op[q].file]
           used == files \cup {names.path}
<1>1. IsFiniteSet(Procs \ {p}) /\ Cardinality(Procs \ {p}) = Cardinality(Cli)
      /\ Cardinality(Cli) \in Nat
  <2>1. IsFiniteSet(Procs) /\ Cardinality(Procs) = Cardinality(Cli) + 1
        /\ Cardinality(Cli) \in Nat
    BY FS_AddElement, FS_CardinalityType, ConfigFileAssumption DEF Procs
  <2>2. IsFiniteSet(Procs \ {p}) /\ Cardinality(Procs \ {p}) = Cardinality(Procs) - 1
    BY <2>1, FS_RemoveElement
  <2> QED
    BY <2>1, <2>2
<1>2. opened \in SUBSET (Procs \ {p})
  OBVIOUS
<1>3. IsFiniteSet(opened) /\ Cardinality(opened) <= Cardinality(Cli)
  BY <1>1, <1>2, FS_Subset
<1>4. f \in Surjection(opened, files)
  BY DEF Surjection
<1>5. IsFiniteSet(files) /\ Cardinality(files) <= Cardinality(opened)
  BY <1>3, <1>4, FS_Surjection
<1>6. IsFiniteSet(used) /\ Cardinality(used) <= Cardinality(Cli) + 1
  <2>1. Cardinality(files) \in Nat /\ Cardinality(opened) \in Nat
    BY <1>3, <1>5, FS_CardinalityType
  <2>2. IsFiniteSet(used) /\ (Cardinality(used) = Cardinality(files)
                                \/ Cardinality(used) = Cardinality(files) + 1)
    BY <1>5, FS_AddElement
  <2> QED
    BY <2>1, <2>2, <1>1, <1>3, <1>5
<1>7. IsFiniteSet(Files) /\ Cardinality(Files) = Cardinality(Cli) + 3
  BY <1>1, FS_Interval DEF Files
<1>8. ~(Files \subseteq used)
  <2>1. Files \subseteq used => Cardinality(Files) <= Cardinality(used)
    BY <1>6, FS_Subset
  <2>2. Cardinality(used) \in Nat
    BY <1>6, FS_CardinalityType
  <2> QED
    BY <2>1, <2>2, <1>1, <1>6, <1>7
<1>9. PICK i \in Files : i \notin used
  BY <1>8
<1>10. i # NoFile
  BY DEF Files, NoFile
<1> QED
  BY <1>9, <1>10 DEF Unused

\* What Open binds the temporary name to: a file, and never config.toml's unless both
\* names had it before.
LEMMA OpenedFile ==
    ASSUME TypeOK, NEW p \in Procs, Open(p)
    PROVE  /\ names'.tmp \in Files /\ names'.tmp # NoFile
           /\ names' = [path |-> names.path, tmp |-> names'.tmp]
           /\ names.path # names.tmp => names'.tmp # names.path
<1>1. names = [path |-> names.path, tmp |-> names.tmp]
  BY DEF TypeOK
<1>2. names' = [path |-> names.path,
                tmp |-> IF names.tmp # NoFile THEN names.tmp ELSE CHOOSE i \in Files : Unused(i)]
  BY <1>1 DEF Open
<1>3. CASE names.tmp # NoFile
  BY <1>2, <1>3 DEF TypeOK
<1>4. CASE names.tmp = NoFile
  <2>1. \E i \in Files : Unused(i)
    BY <1>4, UnusedExists DEF Open
  <2>2. names'.tmp \in Files /\ Unused(names'.tmp)
    BY <1>2, <1>4, <2>1
  <2>3. names'.tmp # names.path /\ names'.tmp # NoFile
    BY <2>2, <1>4 DEF Unused
  <2> QED
    BY <1>2, <2>2, <2>3
<1> QED
  BY <1>3, <1>4

\* A process that is not idle is making an edit.
Making == [step : {"loaded", "opened", "written"}, fields : SUBSET Fields,
           cfg : Configs, file : Files \cup {NoFile}]

LEMMA Busy ==
    ASSUME TypeOK, NEW p \in Procs
    PROVE  /\ op[p] # Idle => op[p] \in Making
           /\ op[p].step \in {"loaded", "opened", "written"} => op[p] \in Making
           /\ op[p] \in Making => op[p] # Idle
<1>1. Idle \notin Making /\ Idle.step = "idle"
  BY DEF Idle, Making
<1> QED
  BY <1>1 DEF TypeOK, Making

\* Every step keeps the types.
LEMMA StepTyped ==
    ASSUME TypeOK, [Next]_vars
    PROVE  TypeOK'
<1> DEFINE OpOK == DOMAIN op = Procs /\ \A p \in Procs : op[p] = Idle \/ op[p] \in Making
           DataOK == DOMAIN data = Files /\ \A i \in Files : data[i] \in Contents
           NamesOK == names \in [path : Files, tmp : Files \cup {NoFile}]
           WatchOK == /\ last \in [at : 0..MaxClock, len : Nat]
                      /\ retry \in BOOLEAN /\ looking \in BOOLEAN
                      /\ view \in Configs /\ errors \in 0..MaxErrors
           NowOK == now \in 1..MaxClock
           EditsOK == edits \in 0..MaxEdits /\ overlapped \in BOOLEAN /\ mixed \in BOOLEAN
           HistOK == saved \subseteq Configs /\ DOMAIN said = Fields
<1>0. TypeOK => OpOK /\ DataOK /\ NamesOK /\ WatchOK /\ NowOK /\ EditsOK /\ HistOK
  BY DEF TypeOK, Making
<1>00. OpOK' /\ DataOK' /\ NamesOK' /\ WatchOK' /\ NowOK' /\ EditsOK' /\ HistOK' => TypeOK'
  BY DEF TypeOK, Making
<1> HIDE DEF OpOK, DataOK, NamesOK, WatchOK, NowOK, EditsOK, HistOK
<1>1. CASE UNCHANGED vars
  BY <1>1 DEF vars, fileVars, watcherVars, editVars, TypeOK
<1>2. ASSUME NEW p \in Procs, NEW fields \in SUBSET Fields, NEW cfg \in Configs,
             Edit(p, fields, cfg)
      PROVE  TypeOK'
  <2> USE <1>2 DEF Edit, Begin, fileVars, watcherVars
  <2>1. OpOK'
    BY <1>0 DEF OpOK, Making, NoFile
  <2>2. DataOK' /\ NamesOK' /\ WatchOK' /\ NowOK'
    BY <1>0 DEF DataOK, NamesOK, WatchOK, NowOK
  <2>3. EditsOK'
    BY <1>0, ConfigFileAssumption DEF EditsOK
  <2>4. HistOK'
    BY <1>0 DEF HistOK
  <2> QED
    BY <1>00, <2>1, <2>2, <2>3, <2>4
<1>3. ASSUME NEW p \in Procs, Open(p) PROVE TypeOK'
  <2>0. names'.tmp \in Files /\ names' = [path |-> names.path, tmp |-> names'.tmp]
    BY <1>3, OpenedFile
  <2>1. OpOK'
    <3>1. op[p] \in Making
      BY <1>3, Busy DEF Open
    <3>2. op' = [op EXCEPT ![p].step = "opened", ![p].file = names'.tmp]
      BY <1>3 DEF Open
    <3> QED
      BY <1>0, <2>0, <3>1, <3>2 DEF OpOK, Making
  <2> USE <1>3 DEF Open, watcherVars
  <2>2. DataOK'
    BY <1>0 DEF DataOK, NowOK, Contents
  <2>3. NamesOK'
    BY <1>0, <2>0 DEF NamesOK
  <2>4. WatchOK' /\ NowOK' /\ EditsOK' /\ HistOK'
    BY <1>0 DEF WatchOK, NowOK, EditsOK, HistOK
  <2> QED
    BY <1>00, <2>1, <2>2, <2>3, <2>4
<1>4. ASSUME NEW p \in Procs, Write(p) PROVE TypeOK'
  <2>0. op[p] \in Making /\ Size(op[p].cfg) \in Nat /\ op[p].cfg \in Configs
    BY <1>4, Busy, SizeIsNat DEF Write, Making
  <2> USE <1>4 DEF Write, watcherVars
  <2>1. OpOK'
    BY <1>0, <2>0 DEF OpOK, Making, NoFile
  <2>2. DataOK'
    <3> DEFINE i == op[p].file
               size == Size(op[p].cfg)
    <3>1. \/ data' = [data EXCEPT ![i] = [cfg |-> op[p].cfg, len |-> size, at |-> now]]
          \/ \E cfg \in Configs \cup {Torn} : data' = [data EXCEPT ![i].cfg = cfg, ![i].at = now]
      OBVIOUS
    <3>2. \A k \in Files : data[k] \in Contents
      BY <1>0 DEF DataOK
    <3>3. ASSUME NEW k \in Files PROVE data'[k] \in Contents
      <4>1. now \in 0..MaxClock
        BY <1>0, ConfigFileAssumption DEF NowOK
      <4>2. DOMAIN data = Files /\ data[k] \in Contents
        BY <1>0, <3>2 DEF DataOK
      <4> HIDE DEF size
      <4>3. size \in Nat
        BY <2>0 DEF size
      <4>4. CASE data' = [data EXCEPT ![i] = [cfg |-> op[p].cfg, len |-> size, at |-> now]]
        BY ONLY <2>0, <4>1, <4>2, <4>3, <4>4, k \in Files DEF Contents
      <4>5. CASE \E cfg \in Configs \cup {Torn} : data' = [data EXCEPT ![i].cfg = cfg, ![i].at = now]
        <5>1. PICK cfg \in Configs \cup {Torn} : data' = [data EXCEPT ![i].cfg = cfg, ![i].at = now]
          BY <4>5
        <5> QED
          BY ONLY <4>1, <4>2, <5>1, k \in Files DEF Contents
      <4> QED
        BY <3>1, <4>4, <4>5
    <3> QED
      BY <1>0, <3>1, <3>3 DEF DataOK
  <2>3. NamesOK' /\ WatchOK' /\ NowOK' /\ EditsOK' /\ HistOK'
    BY <1>0 DEF NamesOK, WatchOK, NowOK, EditsOK, HistOK
  <2> QED
    BY <1>00, <2>1, <2>2, <2>3
<1>5. ASSUME NEW p \in Procs, Rename(p) PROVE TypeOK'
  <2> USE <1>5 DEF Rename, watcherVars
  <2>1. OpOK'
    BY <1>0 DEF OpOK
  <2>2. DataOK'
    BY <1>0, ConfigFileAssumption DEF DataOK, Contents, Gone
  <2>3. NamesOK'
    BY <1>0 DEF NamesOK
  <2>4. WatchOK' /\ NowOK' /\ EditsOK' /\ HistOK'
    BY <1>0 DEF WatchOK, NowOK, EditsOK, HistOK
  <2> QED
    BY <1>00, <2>1, <2>2, <2>3, <2>4
<1>6. ASSUME NEW p \in Procs, RenameFails(p) \/ Crash(p) PROVE TypeOK'
  <2> USE <1>6 DEF RenameFails, Crash, fileVars, watcherVars
  <2>1. OpOK'
    BY <1>0 DEF OpOK
  <2>2. DataOK' /\ NamesOK' /\ WatchOK' /\ NowOK' /\ EditsOK' /\ HistOK'
    BY <1>0 DEF DataOK, NamesOK, WatchOK, NowOK, EditsOK, HistOK
  <2> QED
    BY <1>00, <2>1, <2>2
<1>7. CASE ClockTick
  <2> USE <1>7 DEF ClockTick, watcherVars, editVars
  <2>1. NowOK'
    BY <1>0, ConfigFileAssumption DEF NowOK
  <2>2. OpOK' /\ DataOK' /\ NamesOK' /\ WatchOK' /\ EditsOK' /\ HistOK'
    BY <1>0 DEF OpOK, DataOK, NamesOK, WatchOK, EditsOK, HistOK
  <2> QED
    BY <1>00, <2>1, <2>2
<1>8. CASE Stat \/ Load \/ LoadFails
  <2>1. data[names.path] \in Contents
    BY <1>0 DEF DataOK, NamesOK
  <2>2. Stamp \in [at : 0..MaxClock, len : Nat] /\ (Config # Torn => Config \in Configs)
    BY <2>1 DEF Stamp, Config, Contents
  <2>3. WatchOK'
    <3>1. CASE Stat
      BY <3>1, <1>0, <2>2 DEF WatchOK, Stat
    <3>2. CASE Load
      BY <3>2, <1>0, <2>2 DEF WatchOK, Load
    <3>3. CASE LoadFails
      <4>1. errors' \in 0..MaxErrors
        BY <3>3, <1>0, ConfigFileAssumption DEF WatchOK, LoadFails
      <4>2. last' = last /\ view' = view /\ retry' \in BOOLEAN /\ looking' \in BOOLEAN
        BY <3>3 DEF LoadFails
      <4> QED
        BY <4>1, <4>2, <1>0 DEF WatchOK
    <3> QED
      BY <1>8, <3>1, <3>2, <3>3
  <2> USE <1>8 DEF Stat, Load, LoadFails, fileVars, editVars
  <2>4. OpOK' /\ DataOK' /\ NamesOK' /\ NowOK' /\ EditsOK' /\ HistOK'
    BY <1>0 DEF OpOK, DataOK, NamesOK, NowOK, EditsOK, HistOK
  <2> QED
    BY <1>00, <2>3, <2>4
<1> QED
  BY <1>1, <1>2, <1>3, <1>4, <1>5, <1>6, <1>7, <1>8, NextSteps DEF Steps

-----------------------------------------------------------------------------
(* What is in the files.                                                   *)

LEMMA StepMeant ==
    ASSUME TypeOK, Meant, [Next]_vars
    PROVE  Meant'
<1> DEFINE Text == ~mixed => \A i \in Files : data[i].cfg \in saved \cup {Torn}
           Seen == ~mixed => view \in saved
           Plan == \A p \in Procs : op[p] # Idle => op[p].cfg \in saved
<1>0. Text /\ Plan /\ Seen
      /\ (Text' /\ Plan' /\ Seen' => Meant')
      /\ DOMAIN op = Procs /\ DOMAIN data = Files /\ names.path \in Files
  BY DEF Meant, TypeOK
<1> HIDE DEF Text, Plan, Seen
<1>1. CASE UNCHANGED vars
  BY <1>1 DEF vars, fileVars, watcherVars, editVars, Meant
<1>2. ASSUME NEW p \in Procs, NEW fields \in SUBSET Fields, NEW cfg \in Configs,
             Edit(p, fields, cfg)
      PROVE  Meant'
  <2> USE <1>2 DEF Edit, Begin, fileVars, watcherVars
  <2>1. Text' /\ Seen'
    BY <1>0 DEF Text, Seen
  <2>2. Plan'
    BY <1>0 DEF Plan
  <2> QED
    BY <1>0, <2>1, <2>2
<1>3. ASSUME NEW p \in Procs, Open(p) PROVE Meant'
  <2>0. op[p] \in Making /\ op[p] # Idle
    BY <1>3, Busy DEF Open
  <2> USE <1>3 DEF Open, watcherVars
  <2>1. Text' /\ Seen'
    BY <1>0 DEF Text, Seen
  <2>2. Plan'
    BY <1>0, <2>0 DEF Plan, Making
  <2> QED
    BY <1>0, <2>1, <2>2
<1>4. ASSUME NEW p \in Procs, Write(p) PROVE Meant'
  <2>0. op[p] \in Making /\ op[p] # Idle /\ op[p].cfg \in saved
    BY <1>0, <1>4, Busy DEF Write, Plan
  <2>1. ~mixed => \A i \in Files : data[i].cfg \in saved \cup {Torn}
    BY <1>0 DEF Text
  <2> USE <1>4 DEF Write, watcherVars
  <2>2. Seen'
    BY <1>0 DEF Seen
  <2>3. Text'
    <3> SUFFICES ASSUME ~mixed' PROVE \A i \in Files : data'[i].cfg \in saved \cup {Torn}
      BY DEF Text
    <3>1. ~mixed /\ data' = [data EXCEPT ![op[p].file] = [cfg |-> op[p].cfg,
                                len |-> Size(op[p].cfg), at |-> now]]
      OBVIOUS
    <3> QED
      BY <1>0, <2>0, <2>1, <3>1
  <2>4. Plan'
    BY <1>0, <2>0 DEF Plan, Making
  <2> QED
    BY <1>0, <2>2, <2>3, <2>4
<1>5. ASSUME NEW p \in Procs, Rename(p) PROVE Meant'
  <2> USE <1>5 DEF Rename, watcherVars
  <2>1. Text' /\ Seen'
    BY <1>0 DEF Text, Seen, Gone
  <2>2. Plan'
    BY <1>0 DEF Plan
  <2> QED
    BY <1>0, <2>1, <2>2
<1>6. ASSUME NEW p \in Procs, RenameFails(p) \/ Crash(p) PROVE Meant'
  <2> USE <1>6 DEF RenameFails, Crash, fileVars, watcherVars
  <2>1. Text' /\ Plan' /\ Seen'
    BY <1>0 DEF Text, Plan, Seen
  <2> QED
    BY <1>0, <2>1
<1>7. CASE ClockTick \/ Stat \/ LoadFails
  <2>1. Text' /\ Plan' /\ Seen'
    BY <1>0, <1>7 DEF Text, Plan, Seen, ClockTick, Stat, LoadFails, fileVars, editVars, watcherVars
  <2> QED
    BY <1>0, <2>1
<1>8. CASE Load
  <2>1. Seen'
    BY <1>0, <1>8 DEF Load, Text, Seen, Config, editVars
  <2>2. Text' /\ Plan'
    BY <1>0, <1>8 DEF Text, Plan, Load, fileVars, editVars
  <2> QED
    BY <1>0, <2>1, <2>2
<1> QED
  BY <1>1, <1>2, <1>3, <1>4, <1>5, <1>6, <1>7, <1>8, NextSteps DEF Steps

-----------------------------------------------------------------------------
(* One save after another.                                                 *)

\* The fields of one config that are those of another.
Same(fields, x, y) == \A f \in fields : Value(f, x) = Value(f, y)

\* Solo, with what it says of a field by way of Same and of one config.
Kept(cfg) == \A f \in Fields : said[f] # {} => said[f] = {Value(f, cfg)}

LEMMA SoloParts ==
    /\ Solo <=> /\ \A p, q \in Procs : op[p] # Idle /\ op[q] # Idle => p = q
                /\ names.path # names.tmp
                /\ Config \in Configs
                /\ \A p \in Procs : op[p] # Idle =>
                      Progress(p) /\ Same(Fields \ op[p].fields, op[p].cfg, Config)
                /\ Kept(Config)
    /\ Solo' <=> /\ \A p, q \in Procs : op'[p] # Idle /\ op'[q] # Idle => p = q
                 /\ names'.path # names'.tmp
                 /\ Config' \in Configs
                 /\ \A p \in Procs : op'[p] # Idle =>
                       Progress(p)' /\ Same(Fields \ op'[p].fields, op'[p].cfg, Config')
                 /\ Kept(Config)'
BY DEF Solo, Same, Kept, Idle, Configs

\* A step of the one that saves which leaves config.toml as it is keeps Solo, once it
\* has made the progress it should.
LEMMA OnItsWay ==
    ASSUME TypeOK, Solo, NEW p \in Procs, op[p] # Idle,
           UNCHANGED <<Config, said>>,
           names'.path = names.path, names'.tmp # names.path,
           \A q \in Procs \ {p} : op'[q] = op[q],
           op'[p] = Idle \/ (/\ op'[p].fields = op[p].fields /\ op'[p].cfg = op[p].cfg
                             /\ Progress(p)')
    PROVE  Solo'
<1>1. \A q \in Procs : op'[q] # Idle => q = p
  BY SoloParts
<1>2. Kept(Config)'
  BY SoloParts DEF Kept
<1>3. op'[p] # Idle => Progress(p)' /\ Same(Fields \ op'[p].fields, op'[p].cfg, Config')
  BY SoloParts
<1> QED
  BY <1>1, <1>2, <1>3, SoloParts

LEMMA StepSolo ==
    ASSUME TypeOK, ~overlapped => Solo, [Next]_vars, ~overlapped'
    PROVE  Solo'
<1>0. DOMAIN op = Procs /\ DOMAIN data = Files /\ names.path \in Files
  BY DEF TypeOK
<1>1. CASE UNCHANGED vars
  <2>1. UNCHANGED Config /\ UNCHANGED <<names, op, data, said>> /\ Solo
    BY <1>1 DEF vars, fileVars, editVars, Config
  <2>2. Kept(Config)' /\ \A p \in Procs : Progress(p) => Progress(p)'
    BY <2>1, SoloParts DEF Kept, Progress
  <2> QED
    BY <2>1, <2>2, SoloParts
<1>2. ASSUME NEW p \in Procs, NEW fields \in SUBSET Fields, NEW cfg \in Configs,
             Edit(p, fields, cfg)
      PROVE  Solo'
  <2>1. ~overlapped /\ Solo /\ \A q \in Procs : op[q] = Idle
    BY <1>2 DEF Edit, Begin
  <2>2. UNCHANGED Config /\ UNCHANGED names
    BY <1>2 DEF Edit, Begin, fileVars, Config
  <2>3. Kept(Config)'
    BY <1>2, <2>1, <2>2, SoloParts DEF Edit, Begin, Kept
  <2>4. op'[p] = [step |-> "loaded", fields |-> fields, cfg |-> cfg, file |-> NoFile]
        /\ \A q \in Procs \ {p} : op'[q] = Idle
    BY <1>2, <1>0, <2>1 DEF Edit, Begin
  <2>5. Same(Fields \ op'[p].fields, op'[p].cfg, Config') /\ Progress(p)'
    BY <1>2, <2>2, <2>4 DEF Edit, Same, Progress
  <2> QED
    BY <2>1, <2>2, <2>3, <2>4, <2>5, SoloParts
<1>3. ASSUME NEW p \in Procs, Open(p) PROVE Solo'
  <2>1. Solo /\ op[p] \in Making /\ op[p] # Idle
    BY <1>3, Busy DEF Open
  <2>2. names'.tmp \in Files /\ names'.path = names.path /\ names'.tmp # names.path
    BY <1>3, <2>1, OpenedFile, SoloParts
  <2>3. data' = [data EXCEPT ![names'.tmp] = [cfg |-> Torn, len |-> 0, at |-> now]]
        /\ op' = [op EXCEPT ![p].step = "opened", ![p].file = names'.tmp] /\ said' = said
    BY <1>3 DEF Open
  <2>4. UNCHANGED Config
    BY <1>0, <2>2, <2>3 DEF Config
  <2>5. op'[p].step = "opened" /\ op'[p].file = names'.tmp
        /\ op'[p].fields = op[p].fields /\ op'[p].cfg = op[p].cfg
    BY <1>0, <2>1, <2>3 DEF Making
  <2>6. Progress(p)'
    BY <1>0, <2>2, <2>3, <2>5 DEF Progress
  <2>7. \A q \in Procs \ {p} : op'[q] = op[q]
    BY <2>3, <1>0
  <2> QED
    BY <2>1, <2>2, <2>3, <2>4, <2>5, <2>6, <2>7, OnItsWay
<1>4. ASSUME NEW p \in Procs, Write(p) PROVE Solo'
  <2>1. Solo /\ op[p] \in Making /\ op[p] # Idle /\ op[p].step = "opened"
    BY <1>4, Busy DEF Write
  <2>2. names.tmp \in Files /\ op[p].file = names.tmp /\ data[names.tmp].len = 0
        /\ names.path # names.tmp
    BY <2>1 DEF Solo, Progress
  <2>3. Size(op[p].cfg) \in Nat
    BY <2>1, SizeIsNat DEF Making
  <2>4. data' = [data EXCEPT ![names.tmp] = [cfg |-> op[p].cfg, len |-> Size(op[p].cfg), at |-> now]]
    BY <1>4, <2>2, <2>3 DEF Write
  <2>5. op' = [op EXCEPT ![p].step = "written", ![p].file = NoFile] /\ UNCHANGED <<names, said>>
    BY <1>4 DEF Write
  <2>6. UNCHANGED Config
    BY <1>0, <2>2, <2>4, <2>5 DEF Config
  <2>7. op'[p].step = "written" /\ op'[p].fields = op[p].fields /\ op'[p].cfg = op[p].cfg
    BY <1>0, <2>1, <2>5 DEF Making
  <2>8. Progress(p)'
    BY <1>0, <2>2, <2>4, <2>5, <2>7 DEF Progress
  <2>9. \A q \in Procs \ {p} : op'[q] = op[q]
    BY <2>5, <1>0
  <2> QED
    BY <2>1, <2>2, <2>5, <2>6, <2>7, <2>8, <2>9, OnItsWay
<1>5. ASSUME NEW p \in Procs, Rename(p) PROVE Solo'
  <2>1. Solo /\ op[p] \in Making /\ op[p] # Idle /\ op[p].step = "written"
    BY <1>5, Busy DEF Rename
  <2>2. names.tmp \in Files /\ data[names.tmp].cfg = op[p].cfg /\ names.path # names.tmp
    BY <2>1 DEF Solo, Progress
  <2>3. names' = [path |-> names.tmp, tmp |-> NoFile] /\ NoFile \notin Files
    BY <1>5 DEF Rename, NoFile, Files
  <2>4. \A q \in Procs : op'[q] = Idle
    BY <1>0, <1>5, <2>1, SoloParts DEF Rename
  <2>5. Config' = op[p].cfg /\ Config' \in Configs
    <3>1. data'[names.tmp] = data[names.tmp]
      BY <1>5, <2>2 DEF Rename
    <3> QED
      BY <2>1, <2>2, <2>3, <3>1 DEF Config, Making
  <2>6. said' = [f \in Fields |-> IF f \in op[p].fields THEN {Value(f, op[p].cfg)} ELSE said[f]]
    <3> DEFINE others == {q \in Procs \ {p} : op[q] # Idle}
               busy == UNION {op[q].fields : q \in others}
    <3>1. said' = [f \in Fields |-> IF f \in op[p].fields \ busy
                                    THEN {Value(f, op[p].cfg)} ELSE said[f]]
      BY <1>5 DEF Rename
    <3>2. others = {}
      BY <2>1, SoloParts
    <3> HIDE DEF others
    <3>3. busy = {}
      BY <3>2
    <3> HIDE DEF busy
    <3> QED
      BY <3>1, <3>3
  <2>7. Kept(Config)'
    <3>1. ASSUME NEW f \in Fields, said'[f] # {} PROVE said'[f] = {Value(f, op[p].cfg)}
      <4>1. CASE f \in op[p].fields
        BY <4>1, <2>6
      <4>2. CASE f \notin op[p].fields
        <5>1. said'[f] = said[f] /\ said[f] = {Value(f, Config)}
          BY <4>2, <2>6, <3>1, <2>1, SoloParts DEF Kept
        <5>2. Value(f, op[p].cfg) = Value(f, Config)
          BY <4>2, <2>1, SoloParts DEF Same
        <5> QED
          BY <5>1, <5>2
      <4> QED
        BY <4>1, <4>2
    <3> QED
      BY <3>1, <2>5 DEF Kept
  <2> QED
    BY <2>2, <2>3, <2>4, <2>5, <2>7, SoloParts
<1>6. ASSUME NEW p \in Procs, RenameFails(p) \/ Crash(p) PROVE Solo'
  <2>1. UNCHANGED <<names, data, overlapped, said>> /\ op' = [op EXCEPT ![p] = Idle]
        /\ UNCHANGED Config
    BY <1>6 DEF RenameFails, Crash, fileVars, Config
  <2>2. Solo /\ op[p] # Idle
    BY <1>6, <2>1, Busy DEF RenameFails, Crash
  <2>3. op'[p] = Idle /\ \A q \in Procs \ {p} : op'[q] = op[q]
    BY <2>1, <1>0
  <2>4. names'.tmp # names.path
    BY <2>1, <2>2, SoloParts
  <2> QED
    BY <2>1, <2>2, <2>3, <2>4, OnItsWay
<1>7. CASE ClockTick \/ Stat \/ Load \/ LoadFails
  <2>1. UNCHANGED <<names, op, data, said, overlapped>> /\ UNCHANGED Config /\ Solo
    BY <1>7 DEF ClockTick, Stat, Load, LoadFails, fileVars, editVars, Config
  <2>2. Kept(Config)' /\ \A p \in Procs : Progress(p) => Progress(p)'
    BY <2>1, SoloParts DEF Kept, Progress
  <2> QED
    BY <2>1, <2>2, SoloParts
<1> QED
  BY <1>1, <1>2, <1>3, <1>4, <1>5, <1>6, <1>7, NextSteps DEF Steps

-----------------------------------------------------------------------------
(* The theorems.                                                           *)

LEMMA InitInv == Init => Inv
<1> SUFFICES ASSUME Init PROVE Inv
  OBVIOUS
<1>1. PICK cfg \in Configs :
        /\ data = [i \in Files |-> IF i = 1 THEN [cfg |-> cfg, len |-> Size(cfg), at |-> 1]
                                   ELSE Gone]
        /\ view = cfg
        /\ said = [f \in Fields |-> {Value(f, cfg)}]
        /\ saved = {cfg}
  BY DEF Init
<1>2. Cardinality(Cli) \in Nat
  BY FS_CardinalityType, ConfigFileAssumption
<1>3. 1 \in Files /\ NoFile \notin Files /\ Size(cfg) \in Nat
  BY <1>2, SizeIsNat DEF Files, NoFile
<1>4. Config = cfg /\ names.path # names.tmp
  BY <1>1, <1>3 DEF Init, Config
<1>5. TypeOK
  <2>1. \A i \in Files : data[i] \in Contents
    BY <1>1, <1>3, ConfigFileAssumption DEF Contents, Gone
  <2>2. names \in [path : Files, tmp : Files \cup {NoFile}] /\ DOMAIN data = Files
    BY <1>1, <1>3 DEF Init
  <2>3. now \in 1..MaxClock /\ edits \in 0..MaxEdits /\ errors \in 0..MaxErrors
    BY ConfigFileAssumption DEF Init
  <2>4. last \in [at : 0..MaxClock, len : Nat]
    BY ConfigFileAssumption DEF Init, Never
  <2>5. DOMAIN op = Procs /\ \A p \in Procs : op[p] = Idle
    BY DEF Init
  <2>6. overlapped \in BOOLEAN /\ mixed \in BOOLEAN /\ retry \in BOOLEAN /\ looking \in BOOLEAN
    BY DEF Init
  <2>7. view \in Configs /\ saved \subseteq Configs /\ DOMAIN said = Fields
    BY <1>1
  <2> QED
    BY <2>1, <2>2, <2>3, <2>4, <2>5, <2>6, <2>7 DEF TypeOK
<1>6. Meant
  BY <1>1 DEF Init, Meant, Gone
<1>7. Solo
  <2>1. Kept(Config)
    BY <1>1, <1>4 DEF Kept
  <2>2. \A p \in Procs : op[p] = Idle
    BY DEF Init
  <2> QED
    BY <1>4, <2>1, <2>2, SoloParts
<1> QED
  BY <1>5, <1>6, <1>7 DEF Inv

LEMMA StepInv == Inv /\ [Next]_vars => Inv'
  BY StepTyped, StepMeant, StepSolo DEF Inv

LEMMA AlwaysInv == Spec => []Inv
  BY InitInv, StepInv, PTL DEF Spec

\* No value outside a type is reached by any number of commands, crashes and edits of
\* the daemon, overlapping or not (config.rs, write_private).
THEOREM TypeCorrect == Spec => []TypeOK
<1>1. Inv => TypeOK
  BY DEF Inv
<1> QED
  BY <1>1, AlwaysInv, PTL

\* config.toml is whole at every moment, for any number of commands that follow one
\* another or are killed half-way (config.rs, write_private).
THEOREM AlwaysWhole == Spec => []ConfigIsWhole
<1>1. Inv => ConfigIsWhole
  <2>1. Torn \notin Configs
    BY DEF Torn, Configs
  <2> QED
    BY <2>1 DEF Inv, Solo, ConfigIsWhole
<1> QED
  BY <1>1, AlwaysInv, PTL

\* No edit that reported success is undone by one that follows it, whoever makes them
\* (the commands of main.rs, connect.rs's remote_detach).
THEOREM NeverLost == Spec => []NoLostEdit
<1>1. Inv => NoLostEdit
  <2>1. Torn \notin Configs
    BY DEF Torn, Configs
  <2> QED
    BY <2>1 DEF Inv, Solo, NoLostEdit
<1> QED
  BY <1>1, AlwaysInv, PTL

\* However saves overlap and tear the file, the daemon serves a config that some
\* process meant to save, as long as no text went over the longer one of another
\* process (reload.rs, ConfigWatcher::poll; config.rs, write_private).
THEOREM AlwaysServedWasSaved == Spec => []ServedWasSaved
<1>1. Inv => ServedWasSaved
  BY DEF Inv, Meant, ServedWasSaved
<1> QED
  BY <1>1, AlwaysInv, PTL
=============================================================================
