------------------------------- MODULE Parts -------------------------------
(***************************************************************************)
(* Four parts of the daemon side by side, which share no state: the policy *)
(* of a session (Policy, whose names are taken as they are), the approvals *)
(* (Approvals, as `A`), the discovery of servers (Discovery, as `D`) and    *)
(* the decoder of event streams (EventStream, as `E`).  MCParts gives them *)
(* values for TLC, and PartsProofs proves about them for all.              *)
(***************************************************************************)
EXTENDS Policy

CONSTANTS Cred, Nameless, MaxAgents, NotifyEvery, Stamp, MaxFaults

VARIABLES required, approved, agents, up, admission, mem, notified, cmd, hist, saved, tried, faults

A == INSTANCE Approvals

ASSUME ApprovalsPart == A!ApprovalsAssumption

CONSTANTS Name, Kept, Number, Default, MaxAlias, File, Def, Local, None, Tables, Before, MaxPicks, MaxServers

VARIABLES tables, found, cfg, before, pc, chosen, picked

D == INSTANCE Discovery

ASSUME DiscoveryPart == D!DiscoveryAssumption

CONSTANTS Line, Eol, MaxLines, MaxChunk, MaxBuffered

VARIABLES body, pos, line, data, hasData, events, done

E == INSTANCE EventStream

ASSUME EventStreamPart == E!EventStreamAssumption

\* What `webmcp approvals` lists as waiting is who was refused last and is not
\* approved, whatever was saved, revoked or turned off in between (Approvals).
ListIsExact == A!ListIsExact

\* Aliases of what was found are valid and tell servers apart (Discovery).
AliasesFit == D!AliasesFit

\* `up` attaches what the user asked for and nothing else (Discovery).
AttachesWhatWasAsked == D!AttachesWhatWasAsked

\* Events are those written, wherever the chunks end (EventStream).
EventsAsWritten == E!EventsAsWritten
=============================================================================
