-------------------------------- MODULE Relay --------------------------------
(***************************************************************************)
(* The session table of one gateway connection (src/src/relay/mod.rs): the *)
(* gateway opens sessions, one backend task runs each, and the connection's *)
(* single event loop (the "main loop") opens, feeds, fails, evicts and     *)
(* reconfigures them.  The main loop runs one handler at a time, but every *)
(* await in a handler lets the session tasks, the confirmation tasks and   *)
(* the socket writer run; each such point is a step boundary here.         *)
(*                                                                         *)
(* Abstracted: what a message says (a call is its JSON-RPC id and the      *)
(* verdict of the session policy on it, see Policy.tla), the backend       *)
(* behind a task (stdio.rs and http.rs, reduced to what the table sees of  *)
(* it), the clock (the 5 s of `stop`, the dialog's 60 s and the idle timer *)
(* may run out at any moment) and which idle session is the oldest.        *)
(***************************************************************************)
EXTENDS Integers, Sequences, FiniteSets

CONSTANTS
    Sid,            \* session ids the gateway hands out; it may reuse one
    Alias,          \* server aliases
    Cred,           \* agent credential ids
    NoCred,         \* a session without a credential (an older gateway)
    Rid,            \* JSON-RPC request ids a client uses
    Tables,         \* server tables the config file may hold: [aliases -> Entry]
    Admissions,     \* admission rules the config file may hold
    Unset,          \* an entry without a max_sessions of its own
    DefaultMax,     \* DEFAULT_MAX_SESSIONS
    QueueCap,       \* SESSION_QUEUE
    OutCap,         \* OUTBOUND_QUEUE
    MaxConfirm,     \* MAX_OPEN_CONFIRMATIONS
    MaxOpens,       \* bound: sessions spawned over the connection's life
    MaxStrays,      \* bound: messages of a backend that answer no call it holds
    Failures        \* bound: the failures explored, of "writer" (the socket's
                    \* writer dies), "ctrl-c" and "hang" (`stop` gives up)

Entry == [transport : {"stdio", "http"},
          mode      : {"per-session", "shared", "exclusive"},
          max       : Nat \cup {Unset}]

\* Admission: approvals are on only while `required`; then only `approved` get in.
Admission == [required : BOOLEAN, approved : SUBSET Cred]
Admits(adm, c) == adm.required => c \in adm.approved

ASSUME RelayAssumption ==
    /\ IsFiniteSet(Sid) /\ IsFiniteSet(Rid)
    /\ NoCred \notin Cred
    /\ Unset \notin Nat
    /\ \A T \in Tables : DOMAIN T \subseteq Alias /\ T \in [DOMAIN T -> Entry]
    /\ Admissions \subseteq Admission
    /\ DefaultMax \in Nat
    /\ QueueCap \in Nat \ {0} /\ OutCap \in Nat \ {0}
    /\ MaxConfirm \in Nat /\ MaxOpens \in Nat
    /\ MaxStrays \in Nat /\ Rid \cap Nat = {}

Ids == 1..MaxOpens
Strays == 1..MaxStrays
Session == [sid : Sid, alias : Alias, cred : Cred \cup {NoCred}, entry : Entry]
NoSession == [sid |-> "none"]

Why == {"duplicate_session", "evicted", "message_too_large", "overloaded",
        "detached", "reconfigured", "approval_required",
        "silent"}      \* no session_close: the gateway closed it, or is gone
RefusalWhy == {"unknown_server", "unknown_session", "approval_required",
               "unsupported_mode", "busy", "too_many_sessions",
               "message_too_large", "overloaded"}

\* Frames to the gateway.  `from` is the session a frame speaks for and whose
\* sid it carries (0: the frame answers for a sid without a session).
Frame == [tag : {"session_close", "mcp"}, from : Ids \cup {0},
          what : Why \cup RefusalWhy \cup {"ended", "answer", "refused", "declined"}]
CloseFrame(i, w) == [tag |-> "session_close", from |-> i, what |-> w]
McpFrame(i, w) == [tag |-> "mcp", from |-> i, what |-> w]
NoFrame == [tag |-> "none"]

Call(r) == [call |-> TRUE, rid |-> r]
Note == [call |-> FALSE]                   \* a notification or a response
Message == {Call(r) : r \in Rid} \cup {Note}
CallsIn(q) == {r \in Rid : \E k \in DOMAIN q : q[k] = Call(r)}

VARIABLES
    backends, admission,  \* Relay.backends, Relay.admission
    next_id,              \* Relay.next_id
    session,              \* what SessionHandle and SessionCtx say of each id
    table,                \* Relay.sessions: sid -> id, 0 when absent
    open_confirmations,   \* Relay.open_confirmations
    confirming,           \* sessions whose `confirming` flag is set
    in_flight,            \* Activity.in_flight per session
    queue,                \* the channel tx/rx of each session
    signalled,            \* sessions whose `cancel` sender was dropped
    task,                 \* where each session's task is
    self_ended,           \* tasks whose run returned Some(reason)
    at,                   \* calls the backend has and has not answered
    sending,              \* answers and strays noted by emit, waiting for room
    asks,                 \* confirmation tasks: [id, rid, phase]
    fate,                 \* handles taken out of the table: why they must end
    stopping,             \* the session `stop` is waiting for (0: none)
    reply,                \* the frame the main loop is sending
    opening,              \* an `open` waiting for its eviction to finish
    conn,                 \* "up", "closing" (in shutdown) or "closed"
    writer,               \* "up" or "down": the socket's writer task
    out,                  \* how many frames the outbound queue holds
    owed,                 \* environment: calls each session's client waits on
    told,                 \* sessions whose session_close was sent
    hung_up,              \* sessions the gateway closed itself
    strays                \* account: how many each session's backend sent

tableVars == <<backends, admission, next_id, session, table>>
askVars   == <<open_confirmations, confirming, asks>>
taskVars  == <<queue, signalled, task, self_ended, at, sending>>
mainVars  == <<fate, stopping, reply, opening>>
wireVars  == <<conn, writer, out>>
envVars == <<owed, told, hung_up, strays>>
vars == <<tableVars, askVars, taskVars, mainVars, wireVars, in_flight, envVars>>

InTable(i) == i # 0 /\ \E s \in Sid : table[s] = i
LiveOn(a) == {s \in Sid : table[s] # 0 /\ session[table[s]].alias = a}
Cap(e) == IF e.max = Unset THEN DefaultMax ELSE e.max
Unsupported(e) == e.transport = "stdio" /\ e.mode = "shared"
Exclusive(e) == e.transport = "stdio" /\ e.mode = "exclusive"

Doomed == {i \in Ids : fate[i] # "none"}
MainIdle == conn = "up" /\ Doomed = {} /\ reply = NoFrame /\ opening = NoFrame

\* `run` still owns the receiver of the queue until it returns.
Receiving(i) == task[i] \in {"running", "killing"}
ProcessAlive(i) == task[i] \in {"running", "killing", "aborted"}

Init ==
    /\ backends \in Tables /\ admission \in Admissions
    /\ next_id = 0
    /\ session = [i \in Ids |-> NoSession]
    /\ table = [s \in Sid |-> 0]
    /\ open_confirmations = 0 /\ confirming = {} /\ asks = {}
    /\ in_flight = [i \in Ids |-> 0]
    /\ queue = [i \in Ids |-> <<>>]
    /\ signalled = {} /\ self_ended = {}
    /\ task = [i \in Ids |-> "unborn"]
    /\ at = [i \in Ids |-> {}] /\ sending = [i \in Ids |-> {}]
    /\ fate = [i \in Ids |-> "none"] /\ stopping = 0
    /\ reply = NoFrame /\ opening = NoFrame
    /\ conn = "up" /\ writer = "up" /\ out = 0
    /\ owed = [i \in Ids |-> {}] /\ told = {} /\ hung_up = {}
    /\ strays = [i \in Ids |-> 0]

-----------------------------------------------------------------------------
(* Sending on `out` waits for room; once the writer is gone it fails at    *)
(* once and every sender but `emit` ignores that.                          *)

Put(f) ==
    /\ out < OutCap
    /\ out' = out + 1
    /\ told' = IF f.tag = "session_close" /\ f.from # 0
               THEN told \cup {f.from} ELSE told

SendFrame_WaitsForDeadWriter(f) == writer = "up" /\ Put(f)      \* mutant

SendFrame(f) ==
    \/ writer = "up" /\ Put(f)
    \/ writer = "down" /\ UNCHANGED <<out, told>>

Refuse(w) == reply' = CloseFrame(0, w)

\* Take the handle of sid s out of the table; the main loop will stop it and
\* report w.
Doom(s, w) ==
    /\ table' = [table EXCEPT ![s] = 0]
    /\ fate' = [fate EXCEPT ![table[s]] = w]

-----------------------------------------------------------------------------
(* session_open.                                                           *)

OpenDuplicate(s) ==
    /\ table[s] # 0
    /\ Doom(s, "duplicate_session")
    /\ UNCHANGED <<backends, admission, next_id, session, stopping, reply, opening>>

\* Why an open of alias a with credential c is refused outright, in the
\* order the code asks; "admitted" when it is not.
Refusal(a, c) ==
    IF a \notin DOMAIN backends THEN "unknown_server"
    ELSE IF ~Admits(admission, c) THEN "approval_required"
    ELSE IF Unsupported(backends[a]) THEN "unsupported_mode"
    ELSE IF Exclusive(backends[a]) /\ LiveOn(a) # {} THEN "busy"
    ELSE "admitted"

AtCap_OffByOne(a) == Cardinality(LiveOn(a)) > Cap(backends[a])  \* mutant
AtCap(a) == Cardinality(LiveOn(a)) >= Cap(backends[a])

\* Sessions on a that `evictable` may pick.
Evictable(a) == {s \in LiveOn(a) : in_flight[table[s]] = 0}

OpenRefused(s, a, c) ==
    /\ table[s] = 0
    /\ \/ /\ Refusal(a, c) # "admitted"
          /\ Refuse(Refusal(a, c))
       \/ /\ Refusal(a, c) = "admitted"
          /\ AtCap(a) /\ Evictable(a) = {}
          /\ Refuse("too_many_sessions")
    /\ UNCHANGED <<tableVars, fate, stopping, opening>>

OpenEvicting(s, a, c) ==
    /\ table[s] = 0
    /\ Refusal(a, c) = "admitted"
    /\ AtCap(a) /\ next_id < MaxOpens
    /\ \E victim \in Evictable(a) : Doom(victim, "evicted")
    /\ opening' = [sid |-> s, alias |-> a, cred |-> c, entry |-> backends[a]]
    /\ UNCHANGED <<backends, admission, next_id, session, stopping, reply>>

\* Spawn the task and insert its handle, under the table lock.
Spawn(x) ==
    /\ next_id < MaxOpens
    /\ next_id' = next_id + 1
    /\ session' = [session EXCEPT ![next_id'] = x]
    /\ table' = [table EXCEPT ![x.sid] = next_id']
    /\ task' = [task EXCEPT ![next_id'] = "running"]
    /\ UNCHANGED <<backends, admission, queue, signalled, self_ended, at, sending>>

OpenAdmitted(s, a, c) ==
    /\ table[s] = 0
    /\ Refusal(a, c) = "admitted"
    /\ ~AtCap(a)
    /\ Spawn([sid |-> s, alias |-> a, cred |-> c, entry |-> backends[a]])
    /\ UNCHANGED mainVars

open(s, a, c) ==
    /\ MainIdle
    /\ \/ OpenDuplicate(s) /\ UNCHANGED taskVars
       \/ OpenRefused(s, a, c) /\ UNCHANGED taskVars
       \/ OpenEvicting(s, a, c) /\ UNCHANGED taskVars
       \/ OpenAdmitted(s, a, c)
    /\ UNCHANGED <<askVars, wireVars, in_flight, envVars>>

\* The rest of an `open` that evicted: the victim is stopped and reported.
OpenAfterEviction ==
    /\ conn = "up" /\ Doomed = {} /\ reply = NoFrame
    /\ opening # NoFrame
    /\ Spawn(opening)
    /\ opening' = NoFrame
    /\ UNCHANGED <<askVars, wireVars, fate, stopping, reply, in_flight, envVars>>

-----------------------------------------------------------------------------
(* mcp from the gateway.                                                   *)

TrySend_DropsWhenFull(i, m) ==                                  \* mutant
    /\ IF Receiving(i) /\ Len(queue[i]) < QueueCap
       THEN queue' = [queue EXCEPT ![i] = Append(@, m)] ELSE UNCHANGED queue
    /\ UNCHANGED <<table, fate>>

\* try_send: the channel rejects when full, and when `run` has dropped rx.
TrySend(i, m) ==
    \/ /\ Receiving(i) /\ Len(queue[i]) < QueueCap
       /\ queue' = [queue EXCEPT ![i] = Append(@, m)]
       /\ UNCHANGED <<table, fate>>
    \/ /\ Receiving(i) /\ Len(queue[i]) = QueueCap
       /\ UNCHANGED queue
       /\ Doom(session[i].sid, "overloaded")
    \/ /\ ~Receiving(i)
       /\ UNCHANGED <<queue, table, fate>>

DeliverUnknown(s) ==
    /\ table[s] = 0
    /\ Refuse("unknown_session")
    /\ UNCHANGED <<table, fate, queue, in_flight, owed, askVars>>

\* A message the policy forwards.  note_to_backend counts calls only.
DeliverForward(i, m) ==
    /\ in_flight' = IF m.call THEN [in_flight EXCEPT ![i] = @ + 1] ELSE in_flight
    /\ owed' = IF m.call THEN [owed EXCEPT ![i] = @ \cup {m.rid}] ELSE owed
    /\ TrySend(i, m)
    /\ UNCHANGED <<reply, askVars>>

\* A call the policy refuses never reaches the backend; its client has the
\* refusal as soon as the frame is out.
DeliverRefused(i) ==
    /\ reply' = McpFrame(i, "refused")
    /\ UNCHANGED <<table, fate, queue, in_flight, owed, askVars>>

DeliverConfirm_CountsLater(i, r) ==                             \* mutant
    /\ i \notin confirming /\ open_confirmations < MaxConfirm
    /\ owed' = [owed EXCEPT ![i] = @ \cup {r}]
    /\ confirming' = confirming \cup {i}
    /\ open_confirmations' = open_confirmations + 1
    /\ asks' = asks \cup {[id |-> i, rid |-> r, phase |-> "open"]}
    /\ UNCHANGED <<table, fate, queue, reply, in_flight>>

\* A call the owner must confirm: in flight from now on, if a slot is free.
DeliverConfirm(i, r) ==
    /\ i \notin confirming /\ open_confirmations < MaxConfirm
    /\ in_flight' = [in_flight EXCEPT ![i] = @ + 1]
    /\ owed' = [owed EXCEPT ![i] = @ \cup {r}]
    /\ confirming' = confirming \cup {i}
    /\ open_confirmations' = open_confirmations + 1
    /\ asks' = asks \cup {[id |-> i, rid |-> r, phase |-> "open"]}
    /\ UNCHANGED <<table, fate, queue, reply>>

\* No slot: the flag is put back as it was, the count goes up and down again.
DeliverNoSlot(i) ==
    /\ i \in confirming \/ open_confirmations >= MaxConfirm
    /\ reply' = McpFrame(i, "refused")
    /\ UNCHANGED <<table, fate, queue, in_flight, owed, askVars>>

deliver(s, m) ==
    /\ MainIdle
    /\ m.call /\ table[s] # 0 => m.rid \notin owed[table[s]]   \* ids are fresh
    /\ \/ DeliverUnknown(s)
       \/ table[s] # 0 /\ DeliverForward(table[s], m)
       \/ table[s] # 0 /\ m.call /\ DeliverRefused(table[s])
       \/ table[s] # 0 /\ m.call /\ DeliverConfirm(table[s], m.rid)
       \/ table[s] # 0 /\ m.call /\ DeliverNoSlot(table[s])
    /\ UNCHANGED <<backends, admission, next_id, session, signalled, task, self_ended,
                   at, sending, stopping, opening, wireVars, told, hung_up, strays>>

-----------------------------------------------------------------------------
(* The other handlers of the main loop.                                    *)

\* An oversized frame: Relay::fail reports even a sid the table does not hold.
oversized(s) ==
    /\ MainIdle
    /\ \/ table[s] # 0 /\ Doom(s, "message_too_large") /\ UNCHANGED reply
       \/ table[s] = 0 /\ Refuse("message_too_large") /\ UNCHANGED <<table, fate>>
    /\ UNCHANGED <<backends, admission, next_id, session, askVars, taskVars,
                   stopping, opening, wireVars, in_flight, envVars>>

\* session_close from the gateway: never answered.
close(s) ==
    /\ MainIdle
    /\ table[s] # 0
    /\ Doom(s, "silent")
    /\ hung_up' = hung_up \cup {table[s]}
    /\ UNCHANGED <<backends, admission, next_id, session, askVars, taskVars,
                   stopping, reply, opening, wireVars, in_flight, owed, told, strays>>

ReloadFate_KeepsRevoked(x, next, adm) ==                        \* mutant
    IF x.alias \notin DOMAIN next THEN "detached"
    ELSE IF backends[x.alias] # next[x.alias] THEN "reconfigured"
    ELSE "none"

\* Why a reload to `next` and `adm` ends session x; "none" when it does not.
ReloadFate(x, next, adm) ==
    IF x.alias \notin DOMAIN next THEN "detached"
    ELSE IF backends[x.alias] # next[x.alias] THEN "reconfigured"
    ELSE IF ~Admits(adm, x.cred) THEN "approval_required"
    ELSE "none"

reconfigure(next, adm) ==
    /\ MainIdle
    /\ LET Ends(s) == table[s] # 0 /\ ReloadFate(session[table[s]], next, adm) # "none"
       IN /\ table' = [s \in Sid |-> IF Ends(s) THEN 0 ELSE table[s]]
          /\ fate' = [i \in Ids |-> IF \E s \in Sid : table[s] = i /\ Ends(s)
                                    THEN ReloadFate(session[i], next, adm)
                                    ELSE fate[i]]
    /\ backends' = next /\ admission' = adm
    /\ UNCHANGED <<next_id, session, askVars, taskVars, stopping, reply, opening,
                   wireVars, in_flight, envVars>>

\* The read half failed, the pings went unanswered, or the writer is gone.
shutdown ==
    /\ MainIdle
    /\ conn' = "closing"
    /\ table' = [s \in Sid |-> 0]
    /\ fate' = [i \in Ids |-> IF InTable(i) THEN "silent" ELSE fate[i]]
    /\ UNCHANGED <<backends, admission, next_id, session, askVars, taskVars, stopping,
                   reply, opening, writer, out, in_flight, envVars>>

-----------------------------------------------------------------------------
(* `stop`, one handle at a time, then the report.                          *)

BeginStop(i) ==
    /\ conn # "closed"
    /\ i \in Doomed /\ stopping = 0 /\ reply = NoFrame
    /\ stopping' = i
    /\ signalled' = signalled \cup {i}
    /\ UNCHANGED <<tableVars, askVars, queue, task, self_ended, at, sending, fate,
                   reply, opening, wireVars, in_flight, envVars>>

Stopped ==
    /\ fate' = [fate EXCEPT ![stopping] = "none"]
    /\ stopping' = 0
    /\ reply' = IF fate[stopping] = "silent" THEN reply
                ELSE CloseFrame(stopping, fate[stopping])
    /\ UNCHANGED <<tableVars, askVars, queue, signalled, self_ended, at, sending,
                   opening, wireVars, in_flight, envVars>>

EndStop_DoesNotWait == stopping # 0 /\ Stopped /\ UNCHANGED task  \* mutant

EndStop ==
    /\ stopping # 0 /\ task[stopping] \in {"over", "aborted"}
    /\ Stopped /\ UNCHANGED task

\* An abort takes effect where the task waits; its child lives until the runtime
\* has dropped it.  A task whose run returned waits for nothing before it has
\* looked for itself in the table.
AbortAt(where) == IF where = "ended" THEN "dying" ELSE "aborted"

\* Five seconds are over.
StopTimeout ==
    /\ "hang" \in Failures
    /\ stopping # 0 /\ task[stopping] \notin {"over", "aborted"}
    /\ task' = [task EXCEPT ![stopping] = AbortAt(@)]
    /\ Stopped

SendReply ==
    /\ conn # "closed"
    /\ reply # NoFrame
    /\ SendFrame(reply)
    /\ reply' = NoFrame
    /\ UNCHANGED <<tableVars, askVars, taskVars, fate, stopping, opening, conn, writer,
                   in_flight, owed, hung_up, strays>>

\* shutdown has stopped every session: the connection's state is dropped.
Closed ==
    /\ conn = "closing" /\ Doomed = {}
    /\ conn' = "closed" /\ writer' = "down" /\ out' = 0
    /\ UNCHANGED <<tableVars, askVars, taskVars, mainVars, in_flight, envVars>>

\* Ctrl-C: the connection's future is dropped wherever it stands.  Drop aborts
\* the tasks still in the table; a handle the main loop held just loses tx and
\* cancel.
Abandon ==
    /\ "ctrl-c" \in Failures
    /\ conn # "closed"
    /\ conn' = "closed" /\ writer' = "down" /\ out' = 0
    /\ task' = [i \in Ids |-> IF InTable(i) /\ task[i] # "over" THEN AbortAt(task[i]) ELSE task[i]]
    /\ signalled' = signalled \cup Doomed \cup {i \in Ids : InTable(i)}
    /\ table' = [s \in Sid |-> 0]
    /\ fate' = [i \in Ids |-> "none"]
    /\ stopping' = 0 /\ reply' = NoFrame /\ opening' = NoFrame
    /\ UNCHANGED <<backends, admission, next_id, session, askVars, queue, self_ended,
                   at, sending, in_flight, envVars>>

-----------------------------------------------------------------------------
(* A session's task.                                                       *)

\* A stdio task that waits for room in `out` does nothing else; an http task
\* answers from tasks of their own.
Busy(i) == session[i].entry.transport = "stdio" /\ sending[i] # {}

TakeMessage(i) ==
    /\ task[i] = "running" /\ ~Busy(i)
    /\ queue[i] # <<>>
    /\ queue' = [queue EXCEPT ![i] = Tail(@)]
    /\ LET m == Head(queue[i])
       IN at' = IF m.call THEN [at EXCEPT ![i] = @ \cup {m.rid}] ELSE at
    /\ UNCHANGED <<tableVars, askVars, signalled, task, self_ended, sending, mainVars,
                   wireVars, in_flight, envVars>>

\* note_from_backend: whatever has an id and no method settles one call.
Settle(i) == in_flight' = [in_flight EXCEPT ![i] = IF @ > 0 THEN @ - 1 ELSE 0]

\* SessionCtx::emit on an answer: counted first, then sent.
Answer(i, r) ==
    /\ task[i] = "running" /\ ~Busy(i)
    /\ r \in at[i]
    /\ at' = [at EXCEPT ![i] = @ \ {r}]
    /\ sending' = [sending EXCEPT ![i] = @ \cup {r}]
    /\ Settle(i)
    /\ UNCHANGED <<tableVars, askVars, queue, signalled, task, self_ended, mainVars,
                   wireVars, envVars>>

\* ... and on one that answers no call the backend holds: it answered before, or
\* the id is null or one nobody used.
Stray(i) ==
    /\ task[i] = "running" /\ ~Busy(i)
    /\ strays[i] < MaxStrays
    /\ strays' = [strays EXCEPT ![i] = @ + 1]
    /\ sending' = [sending EXCEPT ![i] = @ \cup {strays'[i]}]
    /\ Settle(i)
    /\ UNCHANGED <<tableVars, askVars, queue, signalled, task, self_ended, at, mainVars,
                   wireVars, owed, told, hung_up>>

EmitSent(i, r) ==
    /\ task[i] = "running" /\ r \in sending[i]
    /\ writer = "up" /\ Put(McpFrame(i, "answer"))
    /\ sending' = [sending EXCEPT ![i] = @ \ {r}]
    /\ owed' = [owed EXCEPT ![i] = @ \ {r}]
    /\ UNCHANGED <<tableVars, askVars, queue, signalled, task, self_ended, at, mainVars,
                   conn, writer, in_flight, hung_up, strays>>

\* `run` leaves its loop: with a reason of its own (the process exited, an
\* idle timeout, a line too long, a spawn or upstream failure) ...
Leave(i) ==
    /\ task[i] = "running"
    /\ task' = [task EXCEPT ![i] = "killing"]
    /\ sending' = [sending EXCEPT ![i] = {}]
    /\ at' = [at EXCEPT ![i] = {}]
    /\ UNCHANGED <<tableVars, askVars, queue, signalled, mainVars, wireVars, in_flight, envVars>>

EndItself(i) ==
    /\ Leave(i)
    /\ ~Busy(i)
    /\ self_ended' = self_ended \cup {i}

\* ... or without one, because it was told to stop, or because emit found the
\* writer gone.  (An http task reports the latter as a failed upstream.)
EndSilently(i) ==
    /\ Leave(i)
    /\ \/ i \in signalled /\ ~Busy(i)
       \/ writer = "down" /\ sending[i] # {}
    /\ self_ended' = IF i \in signalled \/ session[i].entry.transport = "stdio"
                     THEN self_ended ELSE self_ended \cup {i}

\* The child is killed and reaped (http: the upstream session deleted); `run`
\* returns and drops rx.
Killed(i) ==
    /\ task[i] = "killing"
    /\ task' = [task EXCEPT ![i] = IF i \in self_ended THEN "ended" ELSE "over"]
    /\ queue' = [queue EXCEPT ![i] = <<>>]
    /\ UNCHANGED <<tableVars, askVars, signalled, self_ended, at, sending, mainVars,
                   wireVars, in_flight, envVars>>

RemoveSelf_Unreported(i) ==                                     \* mutant
    /\ task[i] \in {"ended", "dying"}
    /\ task' = [task EXCEPT ![i] = "over"]
    /\ LET s == session[i].sid
       IN table' = IF table[s] = i THEN [table EXCEPT ![s] = 0] ELSE table
    /\ UNCHANGED <<backends, admission, next_id, session, askVars, queue, signalled,
                   self_ended, at, sending, mainVars, wireVars, in_flight, envVars>>

\* The handle found at the sid is dropped, and with it `cancel`.
RemoveSelf_AnyEntry(i) ==                                       \* mutant
    /\ task[i] \in {"ended", "dying"}
    /\ \/ task' = [task EXCEPT ![i] = "reporting"]
       \/ task[i] = "dying" /\ task' = [task EXCEPT ![i] = "dropped"]
    /\ table' = [table EXCEPT ![session[i].sid] = 0]
    /\ signalled' = signalled \cup ({table[session[i].sid]} \ {0, i})
    /\ UNCHANGED <<backends, admission, next_id, session, askVars, queue,
                   self_ended, at, sending, mainVars, wireVars, in_flight, envVars>>

\* The task takes its own entry, and only its own, out of the table.  Aborted, it
\* is dropped at the send that follows, if it has to wait there.
RemoveSelf(i) ==
    /\ task[i] \in {"ended", "dying"}
    /\ \/ task' = [task EXCEPT ![i] = "reporting"]
       \/ task[i] = "dying" /\ task' = [task EXCEPT ![i] = "dropped"]
    /\ LET s == session[i].sid
       IN table' = IF table[s] = i THEN [table EXCEPT ![s] = 0] ELSE table
    /\ UNCHANGED <<backends, admission, next_id, session, askVars, queue, signalled,
                   self_ended, at, sending, mainVars, wireVars, in_flight, envVars>>

Report(i) ==
    /\ task[i] = "reporting"
    /\ SendFrame(CloseFrame(i, "ended"))
    /\ task' = [task EXCEPT ![i] = "over"]
    /\ UNCHANGED <<tableVars, askVars, queue, signalled, self_ended, at, sending,
                   mainVars, conn, writer, in_flight, owed, hung_up, strays>>

\* An aborted task is dropped, and kill_on_drop takes its child.
Reap(i) ==
    /\ task[i] = "aborted"
    /\ task' = [task EXCEPT ![i] = "dropped"]
    /\ queue' = [queue EXCEPT ![i] = <<>>]
    /\ at' = [at EXCEPT ![i] = {}] /\ sending' = [sending EXCEPT ![i] = {}]
    /\ UNCHANGED <<tableVars, askVars, signalled, self_ended, mainVars, wireVars,
                   in_flight, envVars>>

-----------------------------------------------------------------------------
(* A confirmation task: the dialog, the two slots it gives back, then the  *)
(* call or the refusal.                                                    *)

Phase(k, p) == asks' = (asks \ {k}) \cup {[k EXCEPT !.phase = p]}

OwnerAnswers_KeepsCount(k) ==                                   \* mutant
    /\ k.phase = "open"
    /\ \E verdict \in {"allowed", "denied"} : Phase(k, verdict)
    /\ UNCHANGED <<open_confirmations, tableVars, confirming, taskVars, mainVars,
                   wireVars, in_flight, envVars>>

OwnerAnswers(k) ==
    /\ k.phase = "open"
    /\ \E verdict \in {"allowed", "denied"} : Phase(k, verdict)
    /\ open_confirmations' = open_confirmations - 1
    /\ UNCHANGED <<tableVars, confirming, taskVars, mainVars, wireVars, in_flight, envVars>>

ReleaseAllowed(k) ==
    /\ k.phase = "allowed"
    /\ confirming' = confirming \ {k.id}
    /\ Phase(k, "forward")
    /\ UNCHANGED <<tableVars, open_confirmations, taskVars, mainVars, wireVars,
                   in_flight, envVars>>

\* tx.send waits for room and gives up when rx is gone.
ForwardAllowed(k) ==
    /\ k.phase = "forward"
    /\ \/ /\ Receiving(k.id) /\ Len(queue[k.id]) < QueueCap
          /\ queue' = [queue EXCEPT ![k.id] = Append(@, Call(k.rid))]
       \/ task[k.id] \in {"ended", "dying", "reporting", "over", "dropped"} /\ UNCHANGED queue
    /\ asks' = asks \ {k}
    /\ UNCHANGED <<tableVars, open_confirmations, confirming, signalled, task,
                   self_ended, at, sending, mainVars, wireVars, in_flight, envVars>>

\* The refusal is counted like an answer of the backend, then sent.
ReleaseDenied(k) ==
    /\ k.phase = "denied"
    /\ confirming' = confirming \ {k.id}
    /\ Settle(k.id)
    /\ Phase(k, "reply")
    /\ UNCHANGED <<tableVars, open_confirmations, taskVars, mainVars, wireVars, envVars>>

ReplyDenied(k) ==
    /\ k.phase = "reply"
    /\ SendFrame(McpFrame(k.id, "declined"))
    /\ owed' = [owed EXCEPT ![k.id] = @ \ {k.rid}]
    /\ asks' = asks \ {k}
    /\ UNCHANGED <<tableVars, open_confirmations, confirming, taskVars, mainVars,
                   conn, writer, in_flight, hung_up, strays>>

-----------------------------------------------------------------------------
(* The writer task.                                                        *)

WriterSends ==
    /\ writer = "up" /\ out > 0
    /\ out' = out - 1
    /\ UNCHANGED <<tableVars, askVars, taskVars, mainVars, conn, writer, in_flight, envVars>>

\* A write failed or timed out.
WriterDies ==
    /\ "writer" \in Failures
    /\ writer = "up"
    /\ writer' = "down" /\ out' = 0
    /\ UNCHANGED <<tableVars, askVars, taskVars, mainVars, conn, in_flight, envVars>>

\* Nothing is left of the connection.
Terminated ==
    /\ conn = "closed" /\ asks = {}
    /\ \A i \in Ids : task[i] \in {"unborn", "over", "dropped"}
    /\ UNCHANGED vars

-----------------------------------------------------------------------------

Handler ==
    \/ \E s \in Sid, a \in Alias, c \in Cred \cup {NoCred} : open(s, a, c)
    \/ \E s \in Sid, m \in Message : deliver(s, m)
    \/ \E s \in Sid : oversized(s) \/ close(s)
    \/ \E next \in Tables, adm \in Admissions : reconfigure(next, adm)
    \/ shutdown

MainStep ==
    \/ OpenAfterEviction
    \/ \E i \in Ids : BeginStop(i)
    \/ EndStop \/ StopTimeout
    \/ SendReply \/ Closed

TaskStep(i) ==
    \/ TakeMessage(i)
    \/ \E r \in Rid \cup Strays : EmitSent(i, r)
    \/ EndSilently(i) \/ Killed(i) \/ RemoveSelf(i) \/ Report(i) \/ Reap(i)

BackendStep(i) == EndItself(i) \/ Stray(i) \/ \E r \in Rid : Answer(i, r)

AskStep(k) ==
    \/ OwnerAnswers(k)
    \/ ReleaseAllowed(k) \/ ForwardAllowed(k)
    \/ ReleaseDenied(k) \/ ReplyDenied(k)

Next ==
    \/ Handler \/ MainStep \/ Abandon
    \/ \E i \in Ids : TaskStep(i) \/ BackendStep(i)
    \/ \E k \in asks : AskStep(k)
    \/ WriterSends \/ WriterDies
    \/ Terminated

Spec == Init /\ [][Next]_vars

\* The runtime schedules every task that can run; a write to the socket ends
\* or times out; the channel `out` serves its waiting senders in turn (strong
\* fairness of Report); an owner's dialog closes by itself after 60 s; a killed
\* child dies.  Nothing is assumed of the gateway or of the backends.
Fairness ==
    /\ WF_vars(MainStep)
    /\ \A i \in Ids : WF_vars(TaskStep(i)) /\ SF_vars(Report(i))
    /\ \A i \in Ids : WF_vars(\E k \in asks : k.id = i /\ AskStep(k))
    /\ WF_vars(WriterSends)

FairSpec == Spec /\ Fairness

-----------------------------------------------------------------------------
(* Properties.                                                             *)

\* Every variable of the relay has its type.
TypeOK ==
    /\ backends \in Tables /\ admission \in Admissions
    /\ next_id \in 0..MaxOpens
    /\ session \in [Ids -> Session \cup {NoSession}]
    /\ table \in [Sid -> 0..MaxOpens]
    /\ open_confirmations \in Int
    /\ confirming \subseteq Ids
    /\ asks \subseteq [id : Ids, rid : Rid,
                      phase : {"open", "allowed", "denied", "forward", "reply"}]
    /\ in_flight \in [Ids -> Nat]
    /\ queue \in [Ids -> Seq(Message)]
    /\ signalled \subseteq Ids /\ self_ended \subseteq Ids
    /\ task \in [Ids -> {"unborn", "running", "killing", "ended", "dying", "reporting",
                         "over", "aborted", "dropped"}]
    /\ at \in [Ids -> SUBSET Rid] /\ sending \in [Ids -> SUBSET (Rid \cup Strays)]
    /\ fate \in [Ids -> Why \cup {"none"}]
    /\ stopping \in 0..MaxOpens
    /\ reply \in Frame \cup {NoFrame}
    /\ opening \in Session \cup {NoFrame}
    /\ conn \in {"up", "closing", "closed"} /\ writer \in {"up", "down"}
    /\ out \in 0..OutCap
    /\ owed \in [Ids -> SUBSET Rid] /\ told \subseteq Ids
    /\ hung_up \subseteq Ids
    /\ strays \in [Ids -> 0..MaxStrays]

\* A session the table holds is one the current config and approvals would
\* still admit, running the definition they hold: a reload and an open that
\* waits for an eviction never leave an older one behind (Relay::open,
\* Relay::reconfigure).
TableCurrent ==
    \A s \in Sid : table[s] # 0 =>
        LET x == session[table[s]]
        IN /\ x.sid = s
           /\ x.alias \in DOMAIN backends /\ x.entry = backends[x.alias]
           /\ Admits(admission, x.cred)

\* No alias has more sessions than its cap, and an exclusive stdio server has
\* one, although `open` awaits between counting and inserting.
WithinCap ==
    \A a \in DOMAIN backends :
        /\ Cardinality(LiveOn(a)) <= Cap(backends[a])
        /\ Exclusive(backends[a]) => Cardinality(LiveOn(a)) <= 1

\* While an open awaits the end of the session it evicted, what it checked
\* before stays true: the credential is approved (a refused agent evicts
\* nothing), the definition is the current one, its sid is free and there is
\* room.
OpeningStillFits ==
    opening # NoFrame =>
        /\ Admits(admission, opening.cred)
        /\ opening.alias \in DOMAIN backends
        /\ opening.entry = backends[opening.alias]
        /\ table[opening.sid] = 0
        /\ Cardinality(LiveOn(opening.alias)) < Cap(opening.entry)
        /\ Exclusive(opening.entry) => LiveOn(opening.alias) = {}

\* Session i is about to be reported: by the main loop, which stops it or has
\* the frame in hand, or by its own task.
ToBeReported(i) ==
    \/ i \in Doomed /\ fate[i] # "silent"
    \/ reply.tag = "session_close" /\ reply.from = i
    \/ task[i] = "reporting"

\* No session goes behind the gateway's back.  One it opened, did not close and
\* was not told the end of is in the table, or about to be reported - also when
\* an older task of its sid, one `stop` gave up on, removes itself late.
NoSilentEnd ==
    conn = "up" /\ writer = "up" =>
        \A i \in 1..next_id : i \in told \/ i \in hung_up \/ InTable(i) \/ ToBeReported(i)

\* Two processes of an exclusive server never run side by side: the next open
\* waits until the last process is gone (unless `stop` gave up on it).
ExclusiveProcess ==
    \A i, j \in 1..next_id :
        /\ i # j /\ session[i].alias = session[j].alias
        /\ Exclusive(session[j].entry)
        /\ task[i] # "aborted" /\ task[j] # "aborted"
        => ~(ProcessAlive(i) /\ ProcessAlive(j))

\* The counter is the number of open dialogs, at most MaxConfirm; a session has
\* at most one, and its flag is set exactly until that one's task has let go.
DialogsCounted ==
    /\ open_confirmations = Cardinality({k \in asks : k.phase = "open"})
    /\ open_confirmations <= MaxConfirm
    /\ LET Holding == {k \in asks : k.phase \in {"open", "allowed", "denied"}}
       IN /\ confirming = {k.id : k \in Holding}
          /\ Cardinality(Holding) = Cardinality(confirming)

\* Calls of session i that are queued, held for the owner or at the backend.
Unanswered(i) ==
    CallsIn(queue[i]) \cup at[i]
        \cup {k.rid : k \in {q \in asks : q.id = i /\ q.phase # "reply"}}
\* Calls of session i whose refusal is on its way.
Declined(i) == {k.rid : k \in {q \in asks : q.id = i /\ q.phase = "reply"}}
Live(i) == InTable(i) /\ task[i] = "running"

\* While a session lives, the count that decides evictions is the number of
\* its calls that are queued, held or at the backend - as long as the backend
\* answers only what it was asked.  Each stray makes it one too low at most,
\* and nothing makes it too high, or the session could never be evicted again.
CountFollowsCalls ==
    \A i \in Ids : Live(i) =>
        Cardinality(Unanswered(i)) \in in_flight[i] .. in_flight[i] + strays[i]

\* A live session loses no call: each one its client still waits on is queued,
\* held, at the backend, or about to be answered.
NoCallLost ==
    \A i \in Ids : Live(i) =>
        owed[i] = Unanswered(i) \cup (sending[i] \cap Rid) \cup Declined(i)

\* A live session chosen for eviction owes its client nothing but answers that
\* have been given and wait for room in `out` - and at most one call for each stray
\* of its backend.  What is queued, held for the owner or at the backend is spared.
EvictionSparesCalls ==
    [][\A i \in Ids : fate[i] = "none" /\ fate'[i] = "evicted" /\ task[i] = "running"
            => Cardinality(owed[i] \ (sending[i] \cup Declined(i))) <= strays[i]]_vars

HoldsSid(i) == table[session[i].sid] \in {0, i}

\* A session's close is its last word.  When the gateway is told that a stdio
\* session was evicted, every answer the session had has been sent before, unless
\* `stop` gave up on its task - but for one call of each stray at most.  After it
\* the gateway gets no answer of the backend, and no mcp frame ever speaks for an
\* old session on a sid that a new one holds.  The refusal of a call the owner was
\* still asked about is the one exception the code makes: its task outlives the
\* session.
CloseIsLast ==
    [][/\ \A i \in Ids : /\ told' = told \cup {i} /\ i \notin told /\ i \notin self_ended
                         /\ reply # NoFrame /\ reply.what = "evicted"
                         /\ session[i].entry.transport = "stdio"
                         /\ task[i] = "over" /\ writer = "up"
            => Cardinality(owed[i] \ Declined(i)) <= strays[i]
       /\ \A i \in Ids : \A r \in Rid \cup Strays : EmitSent(i, r) => i \notin told /\ HoldsSid(i)
       /\ SendReply /\ reply.tag = "mcp" => HoldsSid(reply.from)]_vars

\* A handler always ends: whatever the sessions do, the main loop is back to
\* reading the gateway, or the connection is being closed.
MainReturns == (conn = "up" /\ ~MainIdle) ~> (MainIdle \/ conn # "up")

\* A session that ended by itself is reported to the gateway, unless the gateway
\* closed it meanwhile or there is no gateway left to tell.
EndIsReported ==
    \A i \in Ids :
        (task[i] = "ended") ~> (i \in told \/ i \in hung_up \/ writer = "down")
=============================================================================
