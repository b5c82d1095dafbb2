----------------------------- MODULE Connection ------------------------------
(***************************************************************************)
(* The daemon's connection to the gateway (connect.rs): dial, handshake,   *)
(* keep-alive, the verdicts that stop it for good and the wait before it   *)
(* dials again.  Several daemons hold the same device identity (the config *)
(* directory copied to another machine; on one machine lock.rs allows only *)
(* one), and the gateway keeps one socket per device.  The environment     *)
(*   - cuts a link, or goes silent on it so that neither side is told,     *)
(*   - resets a link the gateway has closed when the daemon writes to it,  *)
(*   - restarts the gateway, refuses a dial, lets the owner revoke the     *)
(*     device, and edits the config the daemon follows.                    *)
(* Some daemons may have been started with a key that is not the one the   *)
(* gateway holds (between the two files of a re-pair, see Pairing).        *)
(*                                                                         *)
(* Time is counted in ping intervals.  A handler of the keep-alive loop    *)
(* takes less than one, so the loop reads at least one message between two *)
(* ticks when there is one.  The frames of sessions, and what else of a    *)
(* session goes through the outbound queue, are Relay's.                   *)
(***************************************************************************)
EXTENDS Naturals, Sequences

CONSTANTS
    Daemon,       \* the processes that hold this device's key
    Once,         \* those started with --once
    OutCap,       \* OUTBOUND_QUEUE
    MaxMissed,    \* max_missed_pongs
    MaxAttempt,   \* the exponent at which the backoff has reached its cap
    Faults,       \* what the environment does: "cut", "hush", "reset", "restart", "refuse",
                  \* "revoke"
    MaxFaults,    \* bound: how often it does
    MaxEdits      \* bound: edits of the config

ASSUME ConnectionAssumption ==
    /\ Daemon # {}
    /\ Once \subseteq Daemon
    /\ OutCap \in Nat \ {0}
    /\ MaxMissed \in Nat \ {0, 1}
    /\ MaxAttempt \in Nat \ {0}
    /\ Faults \subseteq {"cut", "hush", "reset", "restart", "refuse", "revoke"}
    /\ MaxFaults \in Nat
    /\ MaxEdits \in Nat

VARIABLES
    phase,      \* where `run` and `connection` are
    task,       \* live: waiting in select!, or in a handler's send
    result,     \* why the last connection ended
    attempt,    \* the backoff exponent of the next wait
    awaiting,   \* awaiting_pong
    missed,     \* pongs missed in a row
    overdue,    \* a tick has passed over a message not read since
    out,        \* the outbound queue
    writer,     \* the writer task
    set,        \* the watcher's servers and admission, as the config's version
    config,     \* the config file's version
    link,       \* the daemon's socket, as the network has it
    inbox,      \* what is on its way to the daemon
    gw,         \* the gateway's end of it
    view,       \* the set the gateway was last told on this connection
    revoked,    \* the owner revoked the device
    strangers,  \* those whose key is not the one the gateway holds
    faults,     \* how many faults happened
    ousted      \* history: what became of the notice that this daemon was replaced

loop == <<task, awaiting, missed, overdue>>
sending == <<out, writer>>
gateway == <<gw, view, revoked, ousted>>
world == <<config, faults, strangers>>
vars == <<phase, loop, result, attempt, sending, set, link, inbox, gateway, world>>

Fatal == {"unauthorized", "revoked", "unknown_device", "replaced"}
Failures == {"restart", "eof", "dead", "refused", "timeout", "ws"}
\* What a close frame, or the end of the stream, is taken for (close_error, classify).
Closes == {"4401", "4403", "replaced", "restart", "eof"}
Frames == {"challenge", "welcome", "unauthorized", "pong"}
Servers(n) == [t |-> "servers", set |-> n]
Ping == [t |-> "ping"]
Close == [t |-> "close"]
Message == {Ping, Close} \cup {Servers(n) : n \in 0 .. MaxEdits}
Untold == MaxEdits + 1

Verdict_AnyRestartIsFinal(m) ==                                 \* mutant
    CASE m = "4401" -> "unauthorized" [] m = "4403" -> "revoked" [] m = "eof" -> "eof"
      [] m \in {"replaced", "restart"} -> "replaced"

\* close_error: 1012 is final only with the reason "replaced".
Verdict(m) ==
    CASE m = "4401" -> "unauthorized"
      [] m = "4403" -> "revoked"
      [] m = "replaced" -> "replaced"
      [] m = "restart" -> "restart"
      [] m = "eof" -> "eof"

\* Bytes go out to the daemon as long as its link stands.
Arrives(d, ms) == inbox' = [inbox EXCEPT ![d] = IF link[d] = "up" THEN @ \o ms ELSE @]

-----------------------------------------------------------------------------
(* How a connection ends, and what `run` makes of it.                      *)

WriterError(d) == IF writer[d] = "failed" THEN "ws" ELSE "eof"

\* keepalive returns; relay.shutdown comes next.
End(d, why) ==
    /\ phase' = [phase EXCEPT ![d] = "ending"]
    /\ result' = [result EXCEPT ![d] = why]
    /\ task' = [task EXCEPT ![d] = "select"]

Retry_ReplacedToo(d, why) ==                                    \* mutant
    /\ phase' = [phase EXCEPT ![d] = IF why \in Fatal \ {"replaced"} THEN "stopped" ELSE "waiting"]
    /\ attempt' = [attempt EXCEPT ![d] = IF @ < MaxAttempt THEN @ + 1 ELSE @]

\* The match in `run`: a fatal error stops, another one waits.
Retry(d, why) ==
    /\ phase' = [phase EXCEPT ![d] = IF why \in Fatal \/ (why = "ok" /\ d \in Once) THEN "stopped"
                                     ELSE "waiting"]
    /\ attempt' = [attempt EXCEPT ![d] = IF why \in Fatal THEN @
                                         ELSE IF why = "ok" THEN 1
                                         ELSE IF @ < MaxAttempt THEN @ + 1 ELSE @]

\* The socket is dropped, and what was on its way with it.
Hangup(d) ==
    /\ link' = [link EXCEPT ![d] = "none"]
    /\ inbox' = [inbox EXCEPT ![d] = <<>>]
    /\ gw' = [gw EXCEPT ![d] = "none"]
    /\ out' = [out EXCEPT ![d] = <<>>]
    /\ writer' = [writer EXCEPT ![d] = "none"]

\* A connection that never got past the handshake.
Fails(d, why) ==
    /\ Retry(d, why)
    /\ result' = [result EXCEPT ![d] = why]
    /\ Hangup(d)
    /\ UNCHANGED <<loop, set, view, revoked, ousted, world>>

-----------------------------------------------------------------------------
(* Dial and handshake.                                                     *)

\* Every wait over, and at the start: connect_async.
Dial(d) ==
    /\ phase[d] = "waiting"
    /\ phase' = [phase EXCEPT ![d] = "dialling"]
    /\ result' = [result EXCEPT ![d] = "none"]
    /\ view' = [view EXCEPT ![d] = Untold]
    /\ UNCHANGED <<loop, attempt, sending, set, link, inbox, gw, revoked, ousted, world>>

\* The upgrade is answered: 404 for a revoked device, 401 bad_signature for another key
\* if the gateway checks, a socket otherwise; hello is sent.
Dialled(d) ==
    /\ phase[d] = "dialling"
    /\ \/ /\ revoked
          /\ Fails(d, "unknown_device")
       \/ /\ ~revoked /\ d \in strangers
          /\ Fails(d, "unauthorized")
       \/ /\ ~revoked
          /\ phase' = [phase EXCEPT ![d] = "hello"]
          /\ link' = [link EXCEPT ![d] = "up"]
          /\ gw' = [gw EXCEPT ![d] = "hello"]
          /\ UNCHANGED <<loop, result, attempt, sending, set, inbox, view, revoked, ousted, world>>

\* The dial fails, or the gateway refuses it for now (clock skew, 5xx).
Refused(d) ==
    /\ "refuse" \in Faults
    /\ faults < MaxFaults
    /\ phase[d] = "dialling"
    /\ Retry(d, "refused")
    /\ result' = [result EXCEPT ![d] = "refused"]
    /\ faults' = faults + 1
    /\ UNCHANGED <<loop, sending, set, config, strangers, link, inbox, gateway>>

\* Welcomed: the socket is split, the writer starts, the watcher polls (not with
\* --once) and the servers frame is the first in the queue.  The loop's counters
\* start from zero, as Leave left them.
Start(d) ==
    LET now == IF d \in Once THEN set[d] ELSE config[d] IN
    /\ phase' = [phase EXCEPT ![d] = "live"]
    /\ set' = [set EXCEPT ![d] = now]
    /\ out' = [out EXCEPT ![d] = <<Servers(now)>>]
    /\ writer' = [writer EXCEPT ![d] = "running"]
    /\ inbox' = [inbox EXCEPT ![d] = Tail(@)]
    /\ UNCHANGED <<loop, result, attempt, link, gateway, world>>

\* One message of the handshake: `hello` waits for the challenge or a welcome,
\* `auth` for the welcome, `verdict` for the close that follows an error.  Frames the
\* daemon does not know only start the timeout of the step anew and are left out.
Handshake(d) ==
    /\ phase[d] \in {"hello", "auth", "verdict"}
    /\ inbox[d] # <<>>
    /\ LET m == Head(inbox[d]) IN
       \/ /\ phase[d] \in {"hello", "auth"}
          /\ m = "welcome"
          /\ Start(d)
       \/ /\ phase[d] = "hello"
          /\ m = "challenge"
          /\ phase' = [phase EXCEPT ![d] = "auth"]
          /\ inbox' = [inbox EXCEPT ![d] = Tail(@)]
          /\ gw' = [gw EXCEPT ![d] = IF @ = "challenged" /\ link[d] = "up" THEN "auth" ELSE @]
          /\ UNCHANGED <<loop, result, attempt, sending, set, link, view, revoked, ousted, world>>
       \/ /\ phase[d] \in {"hello", "auth"}
          /\ m = "unauthorized"
          /\ phase' = [phase EXCEPT ![d] = IF @ = "auth" THEN "verdict" ELSE @]
          /\ inbox' = [inbox EXCEPT ![d] = Tail(@)]
          /\ UNCHANGED <<loop, result, attempt, sending, set, link, gateway, world>>
       \/ /\ phase[d] \in {"hello", "auth"}
          /\ m \in Closes
          /\ Fails(d, Verdict(m))
       \/ /\ phase[d] = "verdict"
          /\ Fails(d, IF m \in Closes \ {"eof"} THEN Verdict(m) ELSE "unauthorized")

\* Nothing came within the handshake timeout of this step.
HandshakeTimeout(d) ==
    /\ phase[d] \in {"hello", "auth", "verdict"}
    /\ inbox[d] = <<>>
    /\ link[d] = "silent"
    /\ Fails(d, IF phase[d] = "verdict" THEN "unauthorized" ELSE "timeout")

-----------------------------------------------------------------------------
(* keepalive: one arm of the select! at a time.                            *)

Idle(d) == phase[d] = "live" /\ task[d] = "select"

\* Within one interval the loop reads a message that is there, and the writer gets a
\* ping out on a link that stands.
IntervalOver(d) ==
    /\ overdue[d] => inbox[d] = <<>>
    /\ link[d] = "up" => \A i \in 1 .. Len(out[d]) : out[d][i] # Ping

\* out.send(m).await: at once, or blocked in handler `where`, or the writer is gone.
Send(d, m, where) ==
    \/ /\ writer[d] = "running"
       /\ Len(out[d]) < OutCap
       /\ out' = [out EXCEPT ![d] = Append(@, m)]
       /\ task' = [task EXCEPT ![d] = "select"]
       /\ UNCHANGED <<phase, result>>
    \/ /\ writer[d] = "running"
       /\ Len(out[d]) >= OutCap
       /\ task' = [task EXCEPT ![d] = where]
       /\ UNCHANGED <<phase, result, out>>
    \/ /\ writer[d] # "running"
       /\ End(d, WriterError(d))
       /\ UNCHANGED out

Tick_StaleMisses(d) ==                                          \* mutant
    /\ Idle(d)
    /\ IntervalOver(d)
    /\ missed' = [missed EXCEPT ![d] = @ + 1]
    /\ overdue' = [overdue EXCEPT ![d] = inbox[d] # <<>>]
    /\ awaiting' = [awaiting EXCEPT ![d] = TRUE]
    /\ \/ /\ missed'[d] >= MaxMissed
          /\ End(d, "dead")
          /\ UNCHANGED out
       \/ /\ missed'[d] < MaxMissed
          /\ Send(d, Ping, "ping")
    /\ UNCHANGED <<attempt, writer, set, link, inbox, gateway, world>>

\* The ping ticker.
Tick(d) ==
    /\ Idle(d)
    /\ IntervalOver(d)
    /\ missed' = [missed EXCEPT ![d] = IF awaiting[d] THEN @ + 1 ELSE @]
    /\ overdue' = [overdue EXCEPT ![d] = inbox[d] # <<>>]
    /\ \/ /\ awaiting[d]
          /\ missed'[d] >= MaxMissed
          /\ End(d, "dead")
          /\ UNCHANGED <<out, awaiting>>
       \/ /\ ~awaiting[d] \/ missed'[d] < MaxMissed
          /\ Send(d, Ping, "ping")
          /\ awaiting' = [awaiting EXCEPT ![d] = TRUE]
    /\ UNCHANGED <<attempt, writer, set, link, inbox, gateway, world>>

Changed_Quietly(d) ==                                           \* mutant
    /\ Idle(d)
    /\ d \notin Once
    /\ set[d] # config[d]
    /\ set' = [set EXCEPT ![d] = config[d]]
    /\ UNCHANGED <<phase, loop, result, attempt, sending, link, inbox, gateway, world>>

\* watcher.changed: the relay is reconfigured, then the new set goes out.
Changed(d) ==
    /\ Idle(d)
    /\ d \notin Once
    /\ set[d] # config[d]
    /\ set' = [set EXCEPT ![d] = config[d]]
    /\ Send(d, Servers(config[d]), "advertise")
    /\ UNCHANGED <<attempt, awaiting, missed, overdue, writer, link, inbox, gateway, world>>

\* A handler that waited for room in the queue goes on.
Unblocked(d) ==
    /\ phase[d] = "live"
    /\ task[d] \in {"ping", "advertise"}
    /\ ~(writer[d] = "running" /\ Len(out[d]) >= OutCap)
    /\ Send(d, IF task[d] = "ping" THEN Ping ELSE Servers(set[d]), task[d])
    /\ UNCHANGED <<attempt, awaiting, missed, overdue, writer, set, link, inbox, gateway, world>>

\* The arm of the writer's JoinHandle.
WriterEnded(d) ==
    /\ Idle(d)
    /\ writer[d] # "running"
    /\ End(d, WriterError(d))
    /\ UNCHANGED <<awaiting, missed, overdue, attempt, sending, set, link, inbox, gateway, world>>

\* The arm of the stream.
Incoming(d) ==
    /\ Idle(d)
    /\ inbox[d] # <<>>
    /\ inbox' = [inbox EXCEPT ![d] = Tail(@)]
    /\ overdue' = [overdue EXCEPT ![d] = FALSE]
    /\ LET m == Head(inbox[d]) IN
       \/ /\ m = "pong"
          /\ awaiting' = [awaiting EXCEPT ![d] = FALSE]
          /\ missed' = [missed EXCEPT ![d] = 0]
          /\ IF d \in Once THEN End(d, "ok") ELSE UNCHANGED <<phase, result, task>>
       \/ /\ m \in Closes
          /\ End(d, Verdict(m))
          /\ UNCHANGED <<awaiting, missed>>
    /\ UNCHANGED <<attempt, sending, set, link, gateway, world>>

\* --once, after relay.shutdown: a close frame for the writer to send.
Goodbye(d) ==
    /\ phase[d] = "ending"
    /\ result[d] = "ok"
    /\ writer[d] = "running"
    /\ Len(out[d]) < OutCap
    /\ out' = [out EXCEPT ![d] = Append(@, Close)]
    /\ phase' = [phase EXCEPT ![d] = "closing"]
    /\ UNCHANGED <<loop, result, attempt, writer, set, link, inbox, gateway, world>>

\* After relay.shutdown, or once the goodbye went out or took too long.
Leave(d) ==
    /\ \/ phase[d] = "closing"
       \/ phase[d] = "ending" /\ ~(result[d] = "ok" /\ writer[d] = "running")
    /\ Retry(d, result[d])
    /\ Hangup(d)
    /\ awaiting' = [awaiting EXCEPT ![d] = FALSE]
    /\ missed' = [missed EXCEPT ![d] = 0]
    /\ overdue' = [overdue EXCEPT ![d] = FALSE]
    /\ UNCHANGED <<task, result, set, view, revoked, ousted, world>>

-----------------------------------------------------------------------------
(* The writer task and the gateway.                                        *)

\* write_loop.  On a link gone silent a write disappears, or stalls until it times out.
WriterSends(d) ==
    /\ writer[d] = "running"
    /\ out[d] # <<>>
    /\ \/ /\ link[d] # "up"
          /\ writer' = [writer EXCEPT ![d] = "failed"]
          /\ out' = [out EXCEPT ![d] = <<>>]
          /\ UNCHANGED <<inbox, view, gw>>
       \/ /\ link[d] # "cut"
          /\ writer' = [writer EXCEPT ![d] = IF Head(out[d]) = Close THEN "done" ELSE @]
          /\ out' = [out EXCEPT ![d] = Tail(@)]
          /\ LET m == Head(out[d])
                 heard == link[d] = "up" /\ gw[d] = "open"
             IN  /\ inbox' = [inbox EXCEPT ![d] = IF heard /\ m = Ping THEN Append(@, "pong") ELSE @]
                 /\ view' = [view EXCEPT ![d] = IF heard /\ m.t = "servers" THEN m.set ELSE @]
                 /\ gw' = [gw EXCEPT ![d] = IF heard /\ m = Close THEN "none" ELSE @]
    /\ UNCHANGED <<phase, loop, result, attempt, set, link, revoked, ousted, world>>

\* A gateway that did not check the signed upgrade challenges.
Challenge(d) ==
    /\ gw[d] = "hello"
    /\ gw' = [gw EXCEPT ![d] = "challenged"]
    /\ Arrives(d, <<"challenge">>)
    /\ UNCHANGED <<phase, loop, result, attempt, sending, set, link, view, revoked, ousted, world>>

\* The newest authenticated connection has the device's one socket.
Welcome(d) ==
    /\ gw[d] \in {"hello", "auth"}
    /\ ~revoked /\ d \notin strangers
    /\ LET old == {e \in Daemon \ {d} : gw[e] = "open"} IN
       /\ gw' = [e \in Daemon |-> IF e = d THEN "open" ELSE IF e \in old THEN "none" ELSE gw[e]]
       /\ inbox' = [e \in Daemon |->
                      IF link[e] # "up" THEN inbox[e]
                      ELSE IF e = d THEN Append(inbox[e], "welcome")
                      ELSE IF e \in old THEN Append(inbox[e], "replaced") ELSE inbox[e]]
       /\ ousted' = [e \in Daemon |-> IF e = d THEN "no"
                                      ELSE IF e \in old THEN (IF link[e] = "up" THEN "told" ELSE "lost")
                                      ELSE ousted[e]]
    /\ view' = [view EXCEPT ![d] = Untold]
    /\ UNCHANGED <<phase, loop, result, attempt, sending, set, link, revoked, world>>

\* A revoked device, or another key, does not get past the handshake.
Reject(d) ==
    /\ gw[d] \in {"hello", "auth"}
    /\ gw' = [gw EXCEPT ![d] = "none"]
    /\ \/ revoked /\ Arrives(d, <<"4403">>)
       \/ /\ revoked \/ d \in strangers
          /\ \E last \in {"4401", "eof"} : Arrives(d, <<"unauthorized", last>>)
    /\ UNCHANGED <<phase, loop, result, attempt, sending, set, link, view, revoked, ousted, world>>

-----------------------------------------------------------------------------
(* The environment.                                                        *)

Strikes(fault) == fault \in Faults /\ faults < MaxFaults /\ faults' = faults + 1

Connected(d) == phase[d] \in {"hello", "auth", "verdict", "live"} /\ link[d] \in {"up", "silent"}
Lost(d) == ousted' = [ousted EXCEPT ![d] = IF @ = "told" THEN "lost" ELSE @]

\* The link breaks and both ends learn of it; some of what was under way arrives.
Cut(d) ==
    /\ Strikes("cut")
    /\ Connected(d)
    /\ link' = [link EXCEPT ![d] = "cut"]
    /\ gw' = [gw EXCEPT ![d] = "none"]
    /\ \E k \in 0 .. Len(inbox[d]) : inbox' = [inbox EXCEPT ![d] = Append(SubSeq(@, 1, k), "eof")]
    /\ Lost(d)
    /\ UNCHANGED <<phase, loop, result, attempt, sending, set, config, strangers, view, revoked>>

\* The link breaks and nobody is told.
Hush(d) ==
    /\ Strikes("hush")
    /\ Connected(d)
    /\ link[d] = "up"
    /\ link' = [link EXCEPT ![d] = "silent"]
    /\ \E k \in 0 .. Len(inbox[d]) : inbox' = [inbox EXCEPT ![d] = SubSeq(@, 1, k)]
    /\ Lost(d)
    /\ UNCHANGED <<phase, loop, result, attempt, sending, set, config, strangers, gw, view, revoked>>

\* The gateway has closed its end, and a write to it fails: the writer's error may be
\* seen before the close frame is read, or in its place.
Reset(d) ==
    /\ Strikes("reset")
    /\ writer[d] = "running" /\ out[d] # <<>>
    /\ link[d] = "up" /\ gw[d] = "none"
    /\ writer' = [writer EXCEPT ![d] = "failed"]
    /\ out' = [out EXCEPT ![d] = <<>>]
    /\ Lost(d)
    /\ UNCHANGED <<phase, loop, result, attempt, set, config, strangers, link, inbox, gw, view, revoked>>

\* The gateway goes down for a moment and says so (1012 without the reason).
Restart(d) ==
    /\ Strikes("restart")
    /\ gw[d] # "none"
    /\ gw' = [gw EXCEPT ![d] = "none"]
    /\ Arrives(d, <<"restart">>)
    /\ UNCHANGED <<phase, loop, result, attempt, sending, set, config, strangers, link, view, revoked,
                   ousted>>

Revoke ==
    /\ "revoke" \in Faults
    /\ ~revoked
    /\ revoked' = TRUE
    /\ gw' = [d \in Daemon |-> IF gw[d] = "open" THEN "none" ELSE gw[d]]
    /\ inbox' = [d \in Daemon |-> IF gw[d] = "open" /\ link[d] = "up" THEN Append(inbox[d], "4403")
                                  ELSE inbox[d]]
    /\ UNCHANGED <<phase, loop, result, attempt, sending, set, link, view, ousted, world>>

Edit(d) ==
    /\ config[d] < MaxEdits
    /\ config' = [config EXCEPT ![d] = @ + 1]
    /\ UNCHANGED <<phase, loop, result, attempt, sending, set, link, inbox, gateway, faults, strangers>>

-----------------------------------------------------------------------------
Init ==
    /\ phase = [d \in Daemon |-> "dialling"]
    /\ task = [d \in Daemon |-> "select"]
    /\ result = [d \in Daemon |-> "none"]
    /\ attempt = [d \in Daemon |-> 0]
    /\ awaiting = [d \in Daemon |-> FALSE]
    /\ missed = [d \in Daemon |-> 0]
    /\ overdue = [d \in Daemon |-> FALSE]
    /\ out = [d \in Daemon |-> <<>>]
    /\ writer = [d \in Daemon |-> "none"]
    /\ set = [d \in Daemon |-> 0]
    /\ config = [d \in Daemon |-> 0]
    /\ link = [d \in Daemon |-> "none"]
    /\ inbox = [d \in Daemon |-> <<>>]
    /\ gw = [d \in Daemon |-> "none"]
    /\ view = [d \in Daemon |-> Untold]
    /\ revoked = FALSE
    /\ faults = 0
    /\ strangers \in SUBSET Daemon
    /\ ousted = [d \in Daemon |-> "no"]

Step(d) ==
    \/ Dial(d) \/ Dialled(d) \/ Handshake(d) \/ HandshakeTimeout(d)
    \/ Tick(d) \/ Changed(d) \/ Unblocked(d) \/ WriterEnded(d) \/ Incoming(d)
    \/ Goodbye(d) \/ Leave(d)

Gateway(d) == Challenge(d) \/ Welcome(d) \/ Reject(d)

Next ==
    \/ \E d \in Daemon :
        \/ Step(d) \/ Gateway(d) \/ WriterSends(d)
        \/ Refused(d) \/ Cut(d) \/ Hush(d) \/ Reset(d) \/ Restart(d) \/ Edit(d)
    \/ Revoke

Spec == Init /\ [][Next]_vars

\* The loop polls its arms in random order, so none that stays ready is passed over
\* for ever; a sender blocked on the queue has its turn before later ones.
Fairness ==
    \A d \in Daemon :
        /\ WF_vars(Dial(d) \/ Dialled(d) \/ Handshake(d) \/ HandshakeTimeout(d) \/ Leave(d))
        /\ WF_vars(Tick(d)) /\ WF_vars(WriterEnded(d)) /\ SF_vars(Incoming(d)) /\ SF_vars(Changed(d))
        /\ SF_vars(Unblocked(d)) /\ SF_vars(Goodbye(d))
        /\ WF_vars(Gateway(d)) /\ WF_vars(WriterSends(d))

FairSpec == Spec /\ Fairness

-----------------------------------------------------------------------------
(* Properties.                                                             *)

Results == {"none", "ok"} \cup Failures \cup Fatal
TypeOK ==
    /\ phase \in [Daemon -> {"waiting", "dialling", "hello", "auth", "verdict", "live", "ending",
                             "closing", "stopped"}]
    /\ task \in [Daemon -> {"select", "ping", "advertise"}]
    /\ result \in [Daemon -> Results]
    /\ attempt \in [Daemon -> 0 .. MaxAttempt]
    /\ awaiting \in [Daemon -> BOOLEAN]
    /\ missed \in [Daemon -> 0 .. MaxMissed]
    /\ overdue \in [Daemon -> BOOLEAN]
    /\ out \in [Daemon -> Seq(Message)]
    /\ \A d \in Daemon : Len(out[d]) <= OutCap
    /\ writer \in [Daemon -> {"none", "running", "failed", "done"}]
    /\ set \in [Daemon -> 0 .. MaxEdits]
    /\ config \in [Daemon -> 0 .. MaxEdits]
    /\ link \in [Daemon -> {"none", "up", "silent", "cut"}]
    /\ inbox \in [Daemon -> Seq(Frames \cup Closes)]
    /\ gw \in [Daemon -> {"none", "hello", "challenged", "auth", "open"}]
    /\ view \in [Daemon -> 0 .. Untold]
    /\ revoked \in BOOLEAN
    /\ faults \in 0 .. MaxFaults
    /\ strangers \in SUBSET Daemon
    /\ ousted \in [Daemon -> {"no", "told", "lost"}]

\* A daemon stops for good only for what the gateway decided: it was replaced by
\* another connection, its device was revoked, or its key is not the device's; a
\* restart of the gateway, a broken link or a timeout never stops it.
FatalIsEarned ==
    \A d \in Daemon : phase[d] = "stopped" =>
        /\ result[d] = "replaced" => ousted[d] # "no"
        /\ result[d] \in {"revoked", "unknown_device"} => revoked
        /\ result[d] = "unauthorized" => revoked \/ d \in strangers

\* However the copies of a device replace each other, they never all stop: somebody
\* is left to serve, unless the device is revoked, nobody has its key or a --once run
\* had the last word.
SomeoneStays ==
    (\A d \in Daemon : phase[d] = "stopped") =>
        revoked \/ strangers = Daemon \/ \E d \in Once : result[d] = "ok"

\* A daemon that was told it was replaced does not come back to replace the other
\* one: taking turns takes a notice that was lost, with the link that broke under it
\* or behind the error of a write to the end the gateway had closed.
TurnsNeedALostNotice ==
    [][\A d \in Daemon : gw[d] # "open" /\ gw'[d] = "open" => ousted[d] # "told"]_vars

\* "The daemon on the replaced connection exits instead of reconnecting, so two copies
\* never take turns evicting each other." (src/docs/PROTOCOL.md:195-196): who was
\* replaced does not get the socket back.
NeverTakeTurns ==
    [][\A d \in Daemon : gw[d] # "open" /\ gw'[d] = "open" => ousted[d] = "no"]_vars

\* Only a link that broke is given up as dead: a gateway that answers its pings in
\* time is kept, late reading and stale pongs included.
AliveIsKept ==
    \A d \in Daemon : phase[d] = "ending" /\ result[d] = "dead" => link[d] \in {"silent", "cut"}

\* Whenever nothing is on its way, the gateway has been told the set the relay serves,
\* and a --once run that succeeded did tell it.
GatewayKnowsTheSet ==
    \A d \in Daemon :
        \/ /\ Idle(d)
           /\ link[d] = "up"
           /\ gw[d] = "open"
           /\ \A i \in 1 .. Len(out[d]) : out[d][i].t # "servers"
        \/ d \in Once /\ result[d] = "ok"
        => view[d] = set[d]

Online(d) == phase[d] = "live" /\ link[d] = "up" /\ gw[d] = "open"

\* When the faults end, the device ends up online and stays so: no fight goes on, as
\* long as no write to a closed end hides one notice after another.
StaysOnline ==
    <>[](revoked \/ strangers = Daemon \/ (\E d \in Daemon : Online(d)) \/ \E d \in Once : phase[d] = "stopped" /\ result[d] = "ok")

=============================================================================
