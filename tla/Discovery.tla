----------------------------- MODULE Discovery -----------------------------
(***************************************************************************)
(* Servers that other tools are configured with (discover.rs) and the step  *)
(* of `webmcp up` that attaches them (main.rs): what is found gets a name    *)
(* that is free and valid, the user names or numbers some of it, and those  *)
(* are attached and saved one at a time.                                    *)
(*                                                                         *)
(* Abstracted: a file is its table, those that cannot be read or parsed     *)
(* have none; of a definition whether it is local; the client and path of a *)
(* source. The config changes under this step alone (see ConfigFile).       *)
(***************************************************************************)
EXTENDS Naturals, Sequences, FiniteSetsExt, SequencesExt

CONSTANTS
    Name,           \* names in the order of a table: sequences of characters
    Kept,           \* the alias character of a character that has one
    Number,         \* the numbers written out, by number
    Default,        \* the alias of a name that leaves nothing ("server")
    MaxAlias,       \* 32
    File,           \* the files, in order: the project directory or None
    Def, Local,     \* definitions; those the daemon could relay
    None,
    Tables,         \* the files there may be: definition or None by file and name
    Before,         \* servers that may be attached already
    MaxPicks,       \* bounds the names or numbers given
    MaxServers      \* bounds the servers attached when `up` is run again

DiscoveryAssumption ==
    /\ Name \in Seq(Seq(STRING)) /\ File \in Seq(Range(File))
    /\ Local \subseteq Def /\ None \notin Def
    /\ MaxAlias \in Nat /\ "-" \notin Range(Kept)
    /\ Default \in Seq(Range(Kept)) /\ Len(Default) \in 1 .. MaxAlias
    /\ Number \in Seq(Seq(Range(Kept))) /\ IsInjective(Number)
    /\ \A n \in DOMAIN Number : Len(Number[n]) + 2 <= MaxAlias
    /\ Len(File) * Len(Name) < Len(Number)     \* u32, without end for a list in memory
    /\ Tables \subseteq [DOMAIN File -> [DOMAIN Name -> Def \cup {None}]]
    /\ MaxServers \in Nat
    /\ \A b \in Before : b \in Seq(Range(b))

VARIABLES
    tables,         \* what each file has under each name, None if nothing
    found,          \* what the run discovered
    cfg,            \* the servers of config.toml: alias, definition, directory
    before,         \* account: those it had when the run began
    pc,             \* "start", "pick", "attach", "done"
    chosen,         \* account: what the user asked for
    picked          \* what is left to attach

vars == <<tables, found, cfg, before, pc, chosen, picked>>

Init ==
    /\ tables \in Tables
    /\ cfg \in Before /\ before = cfg
    /\ found = <<>> /\ pc = "start" /\ chosen = {} /\ picked = <<>>

-----------------------------------------------------------------------------
\* Aliases.

TrimEnd(s) == SubSeq(s, 1, Max({0} \cup {i \in DOMAIN s : s[i] # "-"}))

Cut(s, n) == SubSeq(s, 1, Min({n, Len(s)}))

\* What the i-th character of a name leaves: a run of others is one dash.
AliasChar(name, i) ==
    IF name[i] \in DOMAIN Kept THEN <<Kept[name[i]]>>
    ELSE IF i > 1 /\ name[i - 1] \in DOMAIN Kept THEN <<"-">> ELSE <<>>

sanitize_alias(name) ==
    LET out == TrimEnd(Cut(FlattenSeq([i \in DOMAIN name |-> AliasChar(name, i)]), MaxAlias))
    IN IF out = <<>> THEN Default ELSE out

\* The first number whose candidate nobody has.
FirstFree(candidate, taken) ==
    candidate[Min({n \in DOMAIN candidate \ {1} : candidate[n] \notin taken})]

\* mutant: as long as it gets
unique_alias_Whole(base, taken) ==
    IF base \notin taken THEN base
    ELSE FirstFree([n \in DOMAIN Number |-> base \o <<"-">> \o Number[n]], taken)

\* The base gives way to the suffix.
Candidate(base, n) ==
    TrimEnd(Cut(base, MaxAlias - 1 - Len(Number[n]))) \o <<"-">> \o Number[n]

unique_alias(base, taken) ==
    IF base \notin taken THEN base
    ELSE FirstFree([n \in DOMAIN Number |-> Candidate(base, n)], taken)

-----------------------------------------------------------------------------
\* discover.

\* What the table of a file says, in its order.
Finds ==
    LET entry(f, n) == [name |-> Name[n], def |-> tables[f][n], dir |-> File[f]]
    IN FlattenSeq([f \in DOMAIN File |-> FlattenSeq([n \in DOMAIN Name |->
           IF tables[f][n] = None THEN <<>> ELSE <<entry(f, n)>>])])

\* One server however many files repeat it; its directory is the first one's.
add(all) ==
    LET repeated(k) == \E j \in 1 .. k - 1 : all[j].name = all[k].name /\ all[j].def = all[k].def
    IN FlattenSeq([k \in DOMAIN all |-> IF repeated(k) THEN <<>> ELSE <<all[k]>>])

\* Aliases are given in the order of the list.
Named(list) ==
    LET aliased(d, taken) == [name |-> d.name, def |-> d.def, dir |-> d.dir,
                              alias |-> unique_alias(sanitize_alias(d.name), taken)]
        named[k \in 0 .. Len(list)] ==
          IF k = 0 THEN <<>>
          ELSE LET done == named[k - 1]
               IN Append(done, aliased(list[k], {e.alias : e \in Range(done)}))
    IN named[Len(list)]

discover ==
    /\ pc = "start" /\ pc' = "pick"
    /\ found' = Named(add(Finds))
    /\ UNCHANGED <<tables, cfg, before, chosen, picked>>

Attachable(d) == d.def \in Local

\* What `--attach wanted` means: a set of one, or nothing.
resolve_NameFirst(wanted) ==        \* mutant
    {d \in Range(found) : d.name = wanted /\ Attachable(d)}

resolve(wanted) ==
    LET aliased == {d \in Range(found) : d.alias = wanted}
        named == {d \in Range(found) : d.name = wanted /\ Attachable(d)}
    IN CASE aliased # {} -> {d \in aliased : Attachable(d)}
         [] aliased = {} /\ Cardinality(named) = 1 -> named
         [] OTHER -> {}

\* Each once, in the order of their first place.
Once(s) ==
    FlattenSeq([i \in DOMAIN s |-> IF \E j \in 1 .. i - 1 : s[j] = s[i] THEN <<>> ELSE <<s[i]>>])

\* Numbers from one; <<0>> stands for an answer that is refused.
parse_selection(numbers, count) ==
    IF \E i \in DOMAIN numbers : numbers[i] \notin 1 .. count THEN <<0>> ELSE Once(numbers)

-----------------------------------------------------------------------------
\* up, step 2.

Pick(servers, what) ==
    /\ picked' = servers /\ chosen' = what
    /\ pc' = "attach"
    /\ UNCHANGED <<tables, found, cfg, before>>

\* Everything is resolved before anything is attached.
PickNamed ==
    /\ pc = "pick"
    /\ \E wanted \in BoundedSeq({d.alias : d \in Range(found)} \cup Range(Name), MaxPicks) :
         /\ wanted # <<>>
         /\ \A i \in DOMAIN wanted : resolve(wanted[i]) # {}
         /\ LET each == [i \in DOMAIN wanted |-> CHOOSE d \in resolve(wanted[i]) : TRUE] IN
            Pick(Once(each), Range(wanted))

\* At a terminal and with nothing attached yet; a bad answer is asked again.
PickAsked ==
    /\ pc = "pick" /\ cfg = <<>>
    /\ LET offered == FlattenSeq([i \in DOMAIN found |->
                          IF Attachable(found[i]) THEN <<found[i]>> ELSE <<>>]) IN
       \E numbers \in BoundedSeq(0 .. Len(offered) + 1, MaxPicks) :
         LET numbered == parse_selection(numbers, Len(offered)) IN
         /\ numbered # <<0>>
         /\ Pick([i \in DOMAIN numbered |-> offered[numbered[i]]],
                 {offered[numbered[i]].alias : i \in DOMAIN numbered})

Entry(d) == [alias |-> d.alias, def |-> d.def, dir |-> d.dir]

AttachNext ==
    /\ pc = "attach" /\ picked # <<>>
    /\ picked' = Tail(picked)
    /\ cfg' = IF \E s \in Range(cfg) : s.alias = Head(picked).alias THEN cfg
              ELSE Append(cfg, Entry(Head(picked)))
    /\ UNCHANGED <<tables, found, before, pc, chosen>>

Finish ==
    /\ pc = "attach" /\ picked = <<>> /\ pc' = "done"
    /\ UNCHANGED <<tables, found, cfg, before, chosen, picked>>

\* The run fails, is killed or ends, and the user runs `up` again.
Again ==
    /\ pc # "start" /\ pc' = "start"
    /\ Len(cfg) <= MaxServers
    /\ before' = cfg /\ chosen' = {} /\ picked' = <<>> /\ found' = <<>>
    /\ UNCHANGED <<tables, cfg>>

\* Another tool changes its file, and a name or an alias may come to mean another
\* server. A run reads the files once: what changes later, changes for the next.
Edit ==
    /\ pc = "start"
    /\ \E f \in DOMAIN File, n \in DOMAIN Name, d \in Def \cup {None} :
         tables' = [tables EXCEPT ![f][n] = d]
    /\ tables' \in Tables
    /\ UNCHANGED <<found, cfg, before, pc, chosen, picked>>

Next == discover \/ PickNamed \/ PickAsked \/ AttachNext \/ Finish \/ Again \/ Edit

Spec == Init /\ [][Next]_vars

-----------------------------------------------------------------------------
\* Whatever other tools call their servers, every alias found is one that
\* attach accepts and no two are the same.
AliasesFit ==
    LET valid(a) ==
            /\ Len(a) \in 1 .. MaxAlias /\ a[1] \in Range(Kept)
            /\ Range(a) \subseteq Range(Kept) \cup {"-"}
    IN /\ \A d \in Range(found) : valid(d.alias)
       /\ \A i, j \in DOMAIN found : i # j => found[i].alias # found[j].alias

\* Nothing is attached that the user did not ask for by an alias or by a name
\* that means one server in the files as this run read them, nothing remote,
\* and nothing attached before gives way, though runs fail halfway and are
\* repeated over files that changed. A run that ends well has attached all of
\* it, save a server whose alias was in use before the run: it is left out,
\* whatever that alias stands for.
AttachesWhatWasAsked ==
    LET new == {cfg[i] : i \in Len(before) + 1 .. Len(cfg)}
        all == Range(found)
        means(w, d) == d.alias = w \/ (d.name = w /\ \A e \in all \ {d} :
                                          e.alias # w /\ (e.name = w => ~Attachable(e)))
    IN /\ IsPrefix(before, cfg)
       /\ \A i, j \in DOMAIN cfg : i # j /\ i > Len(before) => cfg[i].alias # cfg[j].alias
       /\ \A s \in new : \E d \in all, w \in chosen :
            Entry(d) = s /\ Attachable(d) /\ means(w, d)
       /\ pc = "done" => \A w \in chosen : \E d \in all :
            means(w, d) /\ (Entry(d) \in new \/ \E s \in Range(before) : s.alias = d.alias)

=============================================================================
