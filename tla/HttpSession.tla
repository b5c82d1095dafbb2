----------------------------- MODULE HttpSession -----------------------------
(***************************************************************************)
(* One HTTP session (src/src/relay/http.rs, `run`): the daemon is a client *)
(* of an MCP endpoint.  The select loop turns every message into a POST in *)
(* a task of its own, except that it waits for the headers of the answer to*)
(* `initialize` before it reads on; when that exchange is over a GET opens *)
(* the listening stream.  At the end the tasks are shut down, then a DELETE*)
(* frees the upstream's session.                                           *)
(*                                                                         *)
(* The POST of message k and the listener that follows it are the exchanges*)
(* <<"POST", k>> and <<"GET", k>>.  A session id or a protocol version is  *)
(* the number of the message whose answer brought it, 0 is None.           *)
(***************************************************************************)
EXTENDS Session

MessageNo == 1..MaxSent
Exchange == {"POST", "GET"} \X MessageNo

VARIABLES
    messages,          \* what the gateway sent: is it initialize, and had the
                       \* agent seen an answer that names the version by then
    taken,             \* how many of them left the session's channel
    dropped,           \* the handle was dropped: tx and cancel with it
    relay_up,          \* frames can still be sent
    loop,              \* where `run` is
    reason,            \* why the loop ended; "none" is `None`
    session_id,
    protocol_version,
    task,              \* where each exchange is
    naming,            \* exchanges that are emitting an answer with a version
    in_flight,
    deadline,          \* ticks until the deadline
    idle_for,          \* ticks since last_activity (up to Idle)
    \* The account of the upstream and of the agent.
    asked,             \* the headers of every request the upstream got
    issued,            \* POSTs whose answer brought a session id
    told,              \* initializes whose version the agent has seen
    events,            \* how many messages were relayed
    silence            \* ticks since a message went either way (up to Idle)

gateway == <<messages, dropped, relay_up>>
upstream == <<session_id, protocol_version>>
timers == <<deadline, idle_for, silence>>
account == <<asked, issued, told, events>>
httpVars == <<gateway, taken, loop, reason, upstream, task, naming, in_flight, timers, account>>

Unsent == [sid |-> 0, version |-> 0, out |-> FALSE]
IsInit(e) == e[1] = "POST" /\ messages[e[2]].init
Running == {"ready", "waiting", "reading", "emitting"}
Finished == {"ended", "failed", "too_large"}
Looping == loop \in {"selecting", "initializing"}

\* The exchange whose headers the loop itself waits for.
Initialize == <<"POST", taken>>

HttpInit ==
    /\ messages = <<>> /\ dropped = FALSE /\ relay_up = TRUE
    /\ taken = 0 /\ loop = "selecting" /\ reason = "running"
    /\ session_id = 0 /\ protocol_version = 0
    /\ task = [e \in Exchange |-> "unborn"] /\ naming = {} /\ in_flight = 0
    /\ deadline = Idle /\ idle_for = 0 /\ silence = 0
    /\ asked = [e \in Exchange |-> Unsent] /\ issued = {} /\ told = {} /\ events = 0

-----------------------------------------------------------------------------
(* The gateway.                                                            *)

MessageArrives(init) ==
    /\ Len(messages) < MaxSent /\ ~dropped /\ Looping
    /\ messages' = Append(messages, [init |-> init, saw |-> told # {}])
    /\ UNCHANGED <<dropped, relay_up, taken, loop, reason, upstream, task, naming, in_flight,
                   timers, account>>

HandleDropped ==
    /\ ~dropped
    /\ dropped' = TRUE
    /\ UNCHANGED <<messages, relay_up, taken, loop, reason, upstream, task, naming, in_flight,
                   timers, account>>

ConnectionLost ==
    /\ relay_up
    /\ relay_up' = FALSE
    /\ UNCHANGED <<messages, dropped, taken, loop, reason, upstream, task, naming, in_flight,
                   timers, account>>

-----------------------------------------------------------------------------
(* The arms of the select loop.                                            *)

\* The loop is over for reason `w`; a send it was waiting for is dropped.  Its clock
\* and its counter are not read again.
Leave(w) ==
    /\ reason' = w
    /\ loop' = "shutting"
    /\ task' = IF loop = "initializing" THEN [task EXCEPT ![Initialize] = "gone"] ELSE task
    /\ in_flight' = 0 /\ deadline' = 0 /\ idle_for' = 0 /\ silence' = 0
    /\ UNCHANGED <<gateway, taken, upstream, naming, account>>

Cancelled == Looping /\ dropped /\ Leave("none")

Take_ReadsOn ==                                                 \* mutant
    /\ loop = "selecting" /\ taken < Len(messages)
    /\ taken' = taken + 1
    /\ task' = [task EXCEPT ![<<"POST", taken'>>] = "ready"]
    /\ in_flight' = in_flight + 1
    /\ idle_for' = 0 /\ silence' = 0
    /\ UNCHANGED <<gateway, loop, reason, upstream, naming, deadline, account>>

Take ==
    /\ loop = "selecting" /\ taken < Len(messages)
    /\ taken' = taken + 1
    /\ task' = [task EXCEPT ![<<"POST", taken'>>] = "ready"]
    /\ IF messages[taken'].init
       THEN loop' = "initializing" /\ UNCHANGED in_flight
       ELSE in_flight' = in_flight + 1 /\ UNCHANGED loop
    /\ idle_for' = 0 /\ silence' = 0
    /\ UNCHANGED <<gateway, reason, upstream, naming, deadline, account>>

\* tasks.join_next: Done::Post, Initialized, Listener or Fatal.
Join(e) ==
    /\ loop = "selecting" /\ task[e] \in Finished
    /\ \/ /\ task[e] = "ended"
          /\ in_flight' = IF e[1] = "POST" THEN in_flight - 1 ELSE in_flight
          /\ task' = [x \in Exchange |-> IF x = e THEN "gone"
                                         ELSE IF IsInit(e) /\ x = <<"GET", e[2]>> THEN "ready"
                                         ELSE task[x]]
          /\ UNCHANGED <<gateway, taken, loop, reason, upstream, naming, timers, account>>
       \/ task[e] = "failed" /\ Leave("server_exited")
       \/ task[e] = "too_large" /\ Leave("message_too_large")

DeadlinePasses_UnderRequests ==                                 \* mutant
    /\ loop = "selecting" /\ deadline = 0
    /\ IF idle_for = Idle
       THEN Leave("idle")
       ELSE /\ deadline' = Idle - idle_for
            /\ UNCHANGED <<gateway, taken, loop, reason, upstream, task, naming, in_flight,
                           idle_for, silence, account>>

DeadlinePasses ==
    /\ loop = "selecting" /\ deadline = 0
    /\ LET quiet_for == IF in_flight > 0 THEN 0 ELSE idle_for
       IN IF quiet_for = Idle
          THEN Leave("idle")
          ELSE /\ deadline' = Idle - quiet_for
               /\ UNCHANGED <<gateway, taken, loop, reason, upstream, task, naming, in_flight,
                              idle_for, silence, account>>

-----------------------------------------------------------------------------
(* The exchanges.                                                          *)

\* The request is built and goes out.
Ask(e) ==
    /\ task[e] = "ready"
    /\ asked' = [asked EXCEPT ![e] = [sid |-> session_id, version |-> protocol_version, out |-> TRUE]]
    /\ task' = [task EXCEPT ![e] = "waiting"]
    /\ UNCHANGED <<gateway, taken, loop, reason, upstream, naming, in_flight, timers,
                   issued, told, events>>

Headers_LastId(e) ==                                            \* mutant
    /\ task[e] = "waiting"
    /\ task' = [task EXCEPT ![e] = "reading"]
    /\ \/ UNCHANGED <<issued, session_id>>
       \/ /\ e[1] = "POST"
          /\ issued' = issued \cup {e[2]}
          /\ session_id' = e[2]
    /\ IF loop = "initializing" /\ e = Initialize
       THEN loop' = "selecting" /\ in_flight' = in_flight + 1
       ELSE UNCHANGED <<loop, in_flight>>
    /\ UNCHANGED <<gateway, taken, reason, protocol_version, naming, timers, asked, told, events>>

\* The headers of the answer are in, with a session id or without.
Headers(e) ==
    /\ task[e] = "waiting"
    /\ task' = [task EXCEPT ![e] = "reading"]
    /\ \/ UNCHANGED <<issued, session_id>>
       \/ /\ e[1] = "POST"
          /\ issued' = issued \cup {e[2]}
          /\ session_id' = IF session_id = 0 THEN e[2] ELSE session_id
    /\ IF loop = "initializing" /\ e = Initialize
       THEN loop' = "selecting" /\ in_flight' = in_flight + 1
       ELSE UNCHANGED <<loop, in_flight>>
    /\ UNCHANGED <<gateway, taken, reason, protocol_version, naming, timers, asked, told, events>>

\* emit: an answer of initialize may name the version, which is kept before the
\* message goes to the connection.
Emit(e) ==
    /\ task[e] = "reading" /\ events < MaxEvents
    /\ events' = events + 1
    /\ task' = [task EXCEPT ![e] = "emitting"]
    /\ \/ UNCHANGED <<protocol_version, naming>>
       \/ IsInit(e) /\ protocol_version' = e[2] /\ naming' = naming \cup {e}
    /\ idle_for' = 0 /\ silence' = 0
    /\ UNCHANGED <<gateway, taken, loop, reason, session_id, in_flight, deadline, asked, issued, told>>

Emitted(e) ==
    /\ task[e] = "emitting" /\ relay_up
    /\ task' = [task EXCEPT ![e] = "reading"]
    /\ told' = IF e \in naming THEN told \cup {e[2]} ELSE told
    /\ naming' = naming \ {e}
    /\ UNCHANGED <<gateway, taken, loop, reason, upstream, in_flight, timers, asked, issued, events>>

\* The body ends, or it was not one to relay (202, no listening stream).
Finish(e) ==
    /\ task[e] = "reading"
    /\ task' = [task EXCEPT ![e] = "ended"]
    /\ UNCHANGED <<gateway, taken, loop, reason, upstream, naming, in_flight, timers, account>>

\* The upstream does not answer, fails in the middle, sends too much, or the
\* connection is gone.  A listener keeps that to itself; the loop hears of a POST.
Fail(e) ==
    /\ task[e] \in {"waiting", "reading"} \/ (task[e] = "emitting" /\ ~relay_up)
    /\ \/ /\ loop = "initializing" /\ e = Initialize
          /\ Leave("server_exited")
       \/ /\ ~(loop = "initializing" /\ e = Initialize)
          /\ \E how \in (IF e[1] = "GET" THEN {"ended"}
                         ELSE IF task[e] = "reading" THEN {"failed", "too_large"} ELSE {"failed"}) :
                task' = [task EXCEPT ![e] = how]
          /\ naming' = naming \ {e}
          /\ UNCHANGED <<gateway, taken, loop, reason, upstream, in_flight, timers, account>>

-----------------------------------------------------------------------------
(* The end.                                                                *)

\* tasks.shutdown aborts the tasks; one that is running gets to its next await.
Abort(e) ==
    /\ loop = "shutting" /\ task[e] \in Running \cup Finished
    /\ task' = [task EXCEPT ![e] = "gone"]
    /\ naming' = naming \ {e}
    /\ UNCHANGED <<gateway, taken, loop, reason, upstream, in_flight, timers, account>>

Terminate_BeforeShutdown ==                                     \* mutant
    /\ loop = "shutting"
    /\ loop' = IF session_id = 0 THEN "over" ELSE "deleting"
    /\ UNCHANGED <<gateway, taken, reason, upstream, task, naming, in_flight, timers, account>>

Terminate ==
    /\ loop = "shutting" /\ \A e \in Exchange : task[e] \in {"unborn", "gone"}
    /\ loop' = IF session_id = 0 THEN "over" ELSE "deleting"
    /\ UNCHANGED <<gateway, taken, reason, upstream, task, naming, in_flight, timers, account>>

\* The DELETE is answered, fails or takes too long.
Deleted ==
    /\ loop = "deleting"
    /\ loop' = "over"
    /\ UNCHANGED <<gateway, taken, reason, upstream, task, naming, in_flight, timers, account>>

-----------------------------------------------------------------------------
\* The loop is quick: time passes while no arm is ready, or while it waits for
\* the headers of initialize.
HttpTick ==
    /\ \/ loop = "initializing"
       \/ /\ loop = "selecting" /\ ~dropped /\ taken = Len(messages) /\ deadline > 0
          /\ \A e \in Exchange : task[e] \notin Finished
    /\ deadline' = IF deadline > 0 THEN deadline - 1 ELSE 0
    /\ idle_for' = IF idle_for < Idle THEN idle_for + 1 ELSE Idle
    /\ silence' = IF silence < Idle THEN silence + 1 ELSE Idle
    /\ UNCHANGED <<gateway, taken, loop, reason, upstream, task, naming, in_flight, account>>

HttpOver == loop = "over" /\ UNCHANGED httpVars

ExchangeStep(e) ==
    \/ Ask(e) \/ Headers(e) \/ Emit(e) \/ Emitted(e) \/ Finish(e) \/ Fail(e) \/ Join(e) \/ Abort(e)

HttpNext ==
    \/ (\E init \in BOOLEAN : MessageArrives(init)) \/ HandleDropped \/ ConnectionLost
    \/ Cancelled \/ Take \/ DeadlinePasses
    \/ \E e \in Exchange : ExchangeStep(e)
    \/ Terminate \/ Deleted \/ HttpTick \/ HttpOver

HttpSpec == HttpInit /\ [][HttpNext]_httpVars

\* The runtime runs a task that can run, select! takes an arm that stays ready, an
\* abort takes effect and the DELETE has a time limit.  Nothing is assumed of the
\* upstream.
HttpFairSpec ==
    /\ HttpSpec
    /\ WF_httpVars(Cancelled) /\ WF_httpVars(Take) /\ WF_httpVars(Terminate) /\ WF_httpVars(Deleted)
    /\ WF_httpVars(\E e \in Exchange : Abort(e))
    /\ \A k \in MessageNo : WF_httpVars(Ask(<<"POST", k>>))

-----------------------------------------------------------------------------
(* Properties.                                                             *)

HttpTypeOK ==
    /\ messages \in Seq([init : BOOLEAN, saw : BOOLEAN]) /\ taken \in 0..Len(messages)
    /\ dropped \in BOOLEAN /\ relay_up \in BOOLEAN
    /\ loop \in {"selecting", "initializing", "shutting", "deleting", "over"}
    /\ reason \in {"running", "none", "server_exited", "message_too_large", "idle"}
    /\ session_id \in 0..MaxSent /\ protocol_version \in 0..MaxSent
    /\ task \in [Exchange -> {"unborn", "gone"} \cup Running \cup Finished]
    /\ naming \subseteq Exchange /\ in_flight \in 0..MaxSent
    /\ deadline \in 0..Idle /\ idle_for \in 0..Idle /\ silence \in 0..Idle
    /\ asked \in [Exchange -> [sid : 0..MaxSent, version : 0..MaxSent, out : BOOLEAN]]
    /\ issued \subseteq MessageNo /\ told \subseteq MessageNo /\ events \in 0..MaxEvents

\* "Later requests must carry the session id this one returns": a message behind
\* an initialize goes out with a session id if the answer to it brought one, and a
\* message the agent sent knowing the version goes out with the version; so does
\* the listener.  There is one session id, whatever later answers bring.
HeadersFollow ==
    \A e \in Exchange : asked[e].out =>
        /\ asked[e].sid \in {0, session_id}
        /\ (\E i \in issued : i <= taken /\ messages[i].init /\ (i < e[2] \/ e = <<"GET", i>>))
            => asked[e].sid # 0
        /\ (IF e[1] = "GET" THEN e[2] \in told ELSE messages[e[2]].saw) => asked[e].version # 0

\* A session is closed as idle only when no message went either way for the idle
\* time and none of its POSTs is still under way.
IdleIsQuiet ==
    [][reason' = "idle" /\ reason # "idle" =>
        /\ silence = Idle
        /\ \A k \in MessageNo : task[<<"POST", k>>] \notin Running]_httpVars

\* Once the DELETE may have gone out nothing else does, and the agent hears nothing.
DeleteIsLast == [][account' # account => loop \notin {"deleting", "over"}]_httpVars

\* What Delivery sees of a session.
Initialized == [k \in 1..Len(messages) |-> messages[k].init]
Went == {k \in MessageNo : asked[<<"POST", k>>].out}
Carried == [k \in Went |-> asked[<<"POST", k>>].sid]
Unanswered == IF loop = "initializing" /\ asked[Initialize].out THEN taken ELSE 0

Up == INSTANCE Delivery WITH Message <- MessageNo, put <- Initialized, out <- Carried,
                             sid <- session_id, waiting <- Unanswered,
                             over <- loop \in {"deleting", "over"}

\* "Wait for its headers before reading on" and "requests of one session run
\* concurrently": the POSTs may overtake each other, but none an initialize that was
\* not answered or given up; each has the session id there was; and one that may go
\* goes, while the session lasts.  A session that was cancelled comes to its end,
\* whatever the loop and the exchanges wait for.
HandsOver ==
    /\ Up!Spec
    /\ dropped ~> loop = "over"
=============================================================================
