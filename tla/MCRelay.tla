------------------------------- MODULE MCRelay -------------------------------
(***************************************************************************)
(* Small instances of Relay for TLC.                                       *)
(***************************************************************************)
EXTENDS Relay, TLC

Stdio(mode, max) == [transport |-> "stdio", mode |-> mode, max |-> max]
Http(max) == [transport |-> "http", mode |-> "per-session", max |-> max]

\* An alias whose definition and mode change, and a config without it.
MCChanges == { "fs" :> Stdio("per-session", Unset), "fs" :> Stdio("exclusive", 2), <<>> }
MCStdio == { "fs" :> Stdio("per-session", Unset) }
MCHttp == { "fs" :> Http(Unset) }
MCEither == MCStdio \cup MCHttp
MCMixed == MCEither \cup { "fs" :> Stdio("shared", Unset) }

MCOpen == { [required |-> FALSE, approved |-> {}] }
MCAdmissions ==
    { [required |-> FALSE, approved |-> {}], [required |-> TRUE, approved |-> {"alice"}] }

\* One config for the whole connection, any of Tables.
Steady == backends' = backends

\* The sids are interchangeable: no run distinguishes one.
Symmetry == Permutations(Sid)
SymmetryRids == Permutations(Rid)
=============================================================================
