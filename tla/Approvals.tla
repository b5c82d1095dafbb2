----------------------------- MODULE Approvals -----------------------------
(***************************************************************************)
(* Local approval of agents: approvals.rs, with the commands of main.rs     *)
(* that read and change it.                                                 *)
(*                                                                         *)
(* config.toml holds the decision and the commands write it; agents.json    *)
(* holds what was seen and the daemon writes it. A prompt stands between    *)
(* what a command read and what it saves. Saves are whole (ConfigFile) and  *)
(* there is one daemon (Daemon).                                            *)
(*                                                                         *)
(* Abstracted: of a record its last_seen and whether it waits; a list a     *)
(* user picks from is a set; the other commands load and save in one step,  *)
(* which ConfigFile takes apart; showing a notification.                    *)
(***************************************************************************)
EXTENDS Naturals, FiniteSets

CONSTANTS
    Cred,           \* credential ids, ordered as agents.json is
    Nameless,       \* no credential, or an id that is not printable
    MaxAgents,      \* MAX_AGENTS
    NotifyEvery,    \* NOTIFY_EVERY
    Stamp,          \* times of the wall clock, which may be set
    MaxFaults       \* bounds failed reads and saves, and stops

ApprovalsAssumption ==
    /\ Cred \subseteq Nat /\ IsFiniteSet(Cred)
    /\ Nameless \in Nat \ Cred
    /\ MaxAgents \in Nat \ {0} /\ NotifyEvery \in Nat \ {0}
    /\ Stamp # {} /\ Stamp \subseteq Nat
    /\ MaxFaults \in Nat

VARIABLES
    required, approved,     \* config.toml
    agents,                 \* agents.json
    up, admission, mem,     \* the daemon: what it enforces, and its Recorder
    notified,               \* its age, of a notification
    cmd,                    \* the command that waits at its prompt
    hist, saved,            \* account: what the Recorder saw; what of it the last save had
    tried,                  \* account: who ever came to the approval check
    faults

configVars == <<required, approved>>
daemonVars == <<up, admission, mem, notified, hist, tried>>
fileVars == <<agents, saved>>
vars == <<configVars, fileVars, daemonVars, cmd, faults>>

Idle == [op |-> "none", ids |-> {}]

Blank == [out |-> [c \in Cred |-> "never"], last |-> Nameless]

Init ==
    /\ required \in BOOLEAN /\ approved = {}
    /\ agents = <<>> /\ mem = <<>> /\ notified = <<>>
    /\ up = TRUE /\ admission = [required |-> required, approved |-> approved]
    /\ cmd = Idle /\ faults = 0
    /\ hist = Blank /\ saved = Blank /\ tried = {}

-----------------------------------------------------------------------------
\* Admission, Agents.

Admits(c) == ~admission.required \/ c \in admission.approved

Without(m, c) == [d \in DOMAIN m \ {c} |-> m[d]]

Oldest_AnyOne(m, but) ==        \* mutant
    LET eldest == {c \in DOMAIN m : \A d \in DOMAIN m : m[c].seen <= m[d].seen}
    IN CHOOSE c \in eldest : \A d \in eldest : c <= d

\* The first of those seen longest ago.
Oldest(m, but) ==
    LET others == DOMAIN m \ {but}
        eldest == {c \in others : \A d \in others : m[c].seen <= m[d].seen}
    IN CHOOSE c \in eldest : \A d \in eldest : c <= d

observe(m, c, admitted, at) ==
    LET all == [d \in DOMAIN m \cup {c} |->
                    IF d = c THEN [seen |-> at, waiting |-> ~admitted] ELSE m[d]]
    IN IF Cardinality(DOMAIN all) > MaxAgents THEN Without(all, Oldest(all, c)) ELSE all

Waiting(m) == {c \in DOMAIN m : m[c].waiting /\ required /\ c \notin approved}

AlreadyConnected(m) == {c \in DOMAIN m : ~m[c].waiting}

-----------------------------------------------------------------------------
\* The daemon: Recorder.

Recent == {c \in DOMAIN notified : notified[c] < NotifyEvery}

due(c) == notified' = [d \in Recent \cup {c} |-> IF d \in Recent THEN notified[d] ELSE 0]

\* A session_open that reached the approval check. A save may fail.
seen(c, at) ==
    /\ up
    /\ c # Nameless
    /\ mem' = observe(mem, c, Admits(c), at)
    /\ hist' = [out |-> [hist.out EXCEPT ![c] = IF Admits(c) THEN "admitted" ELSE "refused"],
                last |-> c]
    /\ tried' = tried \cup {c}
    /\ \/ agents' = mem' /\ saved' = hist' /\ UNCHANGED faults
       \/ faults < MaxFaults /\ faults' = faults + 1 /\ UNCHANGED fileVars
    /\ IF Admits(c) THEN UNCHANGED notified ELSE due(c)
    /\ UNCHANGED <<configVars, up, admission, cmd>>

Reload ==
    /\ up
    /\ admission' = [required |-> required, approved |-> approved]
    /\ admission' # admission
    /\ UNCHANGED <<configVars, fileVars, up, mem, notified, hist, tried, cmd, faults>>

\* The daemon stops or crashes, and comes up with what the files say.
Stop ==
    /\ up /\ faults < MaxFaults /\ faults' = faults + 1
    /\ up' = FALSE
    /\ UNCHANGED <<configVars, fileVars, admission, mem, notified, hist, tried, cmd>>

\* agents.json cannot be read or parsed: what it said is lost with the next save.
Afresh ==
    /\ faults < MaxFaults /\ faults' = faults + 1
    /\ mem' = <<>> /\ hist' = Blank

Start ==
    /\ ~up /\ up' = TRUE
    /\ admission' = [required |-> required, approved |-> approved]
    /\ notified' = <<>>
    /\ \/ mem' = agents /\ hist' = saved /\ UNCHANGED faults
       \/ Afresh
    /\ UNCHANGED <<configVars, fileVars, tried, cmd>>

Tick ==
    /\ \E c \in DOMAIN notified : notified[c] < NotifyEvery
    /\ notified' = [c \in DOMAIN notified |->
                        IF notified[c] < NotifyEvery THEN notified[c] + 1 ELSE notified[c]]
    /\ UNCHANGED <<configVars, fileVars, up, admission, mem, hist, tried, cmd, faults>>

-----------------------------------------------------------------------------
\* The commands.

Aside == UNCHANGED <<fileVars, daemonVars, faults>>

\* approve: by name, --all, or picked at the prompt.
ChooseToApprove ==
    /\ cmd = Idle /\ required
    /\ \E ids \in SUBSET Cred \cup SUBSET Waiting(agents) :
         ids # {} /\ cmd' = [op |-> "approve", ids |-> ids]
    /\ Aside /\ UNCHANGED configVars

\* approvals on: keep those that connected already, or none.
ChooseToKeep ==
    /\ cmd = Idle /\ ~required
    /\ \E ids \in {AlreadyConnected(agents), {}} : cmd' = [op |-> "on", ids |-> ids]
    /\ Aside /\ UNCHANGED configVars

\* Each is approved already or was seen; nothing is written otherwise, or when
\* agents.json cannot be read.
add_approvals(list, ids) ==
    /\ ids \ list \subseteq DOMAIN agents
    /\ approved' = list \cup ids

approve ==
    /\ cmd.op = "approve" /\ cmd' = Idle
    /\ \/ required /\ add_approvals(approved, cmd.ids)
       \/ UNCHANGED approved
    /\ UNCHANGED required /\ Aside

turn_on ==
    /\ cmd.op = "on" /\ cmd' = Idle
    /\ \/ ~required /\ add_approvals({}, cmd.ids) /\ required' = TRUE
       \/ UNCHANGED configVars
    /\ Aside

turn_off ==
    /\ required /\ required' = FALSE /\ approved' = {}
    /\ UNCHANGED cmd /\ Aside

revoke ==
    /\ \E c \in approved : approved' = approved \ {c}
    /\ UNCHANGED <<required, cmd>> /\ Aside

-----------------------------------------------------------------------------
Next ==
    \/ \E c \in Cred \cup {Nameless}, at \in Stamp : seen(c, at)
    \/ Reload \/ Stop \/ Start \/ Tick
    \/ ChooseToApprove \/ ChooseToKeep \/ approve \/ turn_on \/ turn_off \/ revoke

Spec == Init /\ [][Next]_vars

-----------------------------------------------------------------------------
\* What `webmcp approvals` lists as waiting is exactly who was refused last,
\* as far as the file goes, and is not approved. Missing are at most those
\* that MaxAgents others pushed out, whatever the wall clock did, never the
\* one just refused, and those from before a start that could not read the
\* file (`saved` forgets them).
ListIsExact ==
    \A c \in Cred :
        LET refused == required /\ c \notin approved /\ saved.out[c] = "refused"
            others == {d \in Cred \ {c} : saved.out[d] # "never"}
        IN /\ c \in Waiting(agents) => refused
           /\ refused => c \in Waiting(agents) \/ Cardinality(others) >= MaxAgents
           /\ refused /\ saved.last = c => c \in Waiting(agents)

\* Whatever was seen, forgotten, revoked or turned off while a command waited
\* at its prompt, it approves only credentials that tried this machine.
ApprovedTried == approved \subseteq tried

=============================================================================
