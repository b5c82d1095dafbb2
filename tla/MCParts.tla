------------------------------ MODULE MCParts -------------------------------
(***************************************************************************)
(* Small instances for TLC of four parts that share no state: the policy of *)
(* a session, the approvals, the discovery of servers and the decoder of    *)
(* event streams. A behaviour runs one part and leaves the others as they   *)
(* begin, so the states are those of four runs.                             *)
(***************************************************************************)
EXTENDS Parts, Sequences, TLC

CONSTANTS read, long

MCPolicies == {All, ReadOnly, Allow({}), Allow({read})}

Symmetry == Permutations(Id)

-----------------------------------------------------------------------------
\* Approvals: the configuration gives two credentials and room for one.

approvalsVars ==
    <<required, approved, agents, up, admission, mem, notified, cmd, hist, saved, tried, faults>>

-----------------------------------------------------------------------------
\* Discovery: three names that collide once they are aliases of three
\* characters, in a file of the user and one of a project.

MCName == << <<"A">>, <<"a", "-", "2">>, <<".">> >>
MCKept == [c \in {"A", "a", "1", "2", "3", "4", "5", "6", "7", "s", "r"} |-> IF c = "A" THEN "a" ELSE c]
MCNumber == << <<"1">>, <<"2">>, <<"3">>, <<"4">>, <<"5">>, <<"6">>, <<"7">> >>
MCDefault == <<"s", "r", "r">>
MCFile == <<None, "project">>
MCTables == [DOMAIN File -> [DOMAIN Name -> Def \cup {None}]]
MCBefore == {<<>>, <<[alias |-> <<"a">>, def |-> "other", dir |-> None]>>}

discoveryVars ==
    <<tables, found, cfg, before, pc, chosen, picked>>

-----------------------------------------------------------------------------
\* Event streams: every kind of line, with either ending.

MCLine == { <<>>, <<"data", ":", " ", "x", ":">>, <<"data">>, <<":", "data">> }
MCEol == {<<"lf">>, <<"cr", "lf">>}

streamVars ==
    <<body, pos, line, data, hasData, events, done>>

-----------------------------------------------------------------------------
VARIABLE part

PartsInit ==
    /\ part \in {"policy", "approvals", "discovery", "stream"}
    /\ Init /\ (part # "policy" => tools = All /\ confirm = "never")
    /\ A!Init /\ (part # "approvals" => ~required)
    /\ D!Init /\ (part # "discovery" => cfg = <<>> /\ \A f \in DOMAIN tables :
                                            tables[f] = [n \in DOMAIN Name |-> None])
    /\ E!Init

PartsNext ==
    /\ UNCHANGED part
    /\ \/ part = "policy" /\ Next /\ UNCHANGED <<approvalsVars, discoveryVars, streamVars>>
       \/ part = "approvals" /\ A!Next /\ UNCHANGED <<vars, discoveryVars, streamVars>>
       \/ part = "discovery" /\ D!Next /\ UNCHANGED <<vars, approvalsVars, streamVars>>
       \/ part = "stream" /\ E!Next /\ UNCHANGED <<vars, approvalsVars, discoveryVars>>

PartsSpec == PartsInit /\ [][PartsNext]_<<part, vars, approvalsVars, discoveryVars, streamVars>>

=============================================================================
