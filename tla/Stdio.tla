-------------------------------- MODULE Stdio --------------------------------
(***************************************************************************)
(* One stdio session (src/src/relay/stdio.rs, `run`): a select loop between*)
(* the session's message channel, the child's stdin and stdout, its exit,  *)
(* the close signal and one deadline that serves the idle limit and, once  *)
(* the child is gone, the drain of what it left in the pipe.               *)
(*                                                                         *)
(* stdout is a stream of bytes ("b") and newlines ("n"), read in chunks;   *)
(* a message is MsgBytes bytes, written in pieces.  Time passes in ticks.  *)
(* A process the child started may hold its stdin and stdout open after    *)
(* the child is gone (`held`), as launchers like npx do.                   *)
(***************************************************************************)
EXTENDS Session

CONSTANTS
    Drain,       \* EXIT_DRAIN in ticks
    MaxLine,     \* MAX_BACKEND_MESSAGE_BYTES
    MsgBytes,    \* bytes of a message to the child, its newline included
    InCap,       \* what the stdin pipe holds
    MaxWritten   \* bound: bytes and newlines the child writes

ASSUME StdioAssumption ==
    /\ Drain \in Nat /\ 0 < Drain /\ Drain < Idle
    /\ MaxLine \in Nat /\ MsgBytes \in Nat \ {0} /\ InCap \in Nat \ {0}
    /\ MaxWritten \in Nat

VARIABLES
    sent,        \* how many messages the gateway has sent: message k is the k-th
    rx,          \* messages in the session's channel
    cancelled,   \* the handle was dropped: tx and cancel with it
    pending,     \* the message being written and how much of it went out
    stdin,       \* bytes in the stdin pipe
    fed,         \* every byte ever written to stdin, as <<message, byte>>
    alive,       \* the child runs
    held,        \* another process holds its pipes
    closed,      \* the child has closed its stdout
    written,     \* everything ever written to stdout
    ends,        \* account: where the lines in it end
    pipe,        \* what of it is still in the pipe
    line,        \* bytes of the line read so far
    emitting,    \* a complete line is being sent on
    handled,     \* the lines sent on, by their length
    exited,      \* child.wait has returned
    left,        \* ticks until the deadline
    quiet,       \* ticks since the last line or message (up to Idle)
    why          \* "running", then why the loop ended; "none" is `None`

inVars == <<sent, rx, pending, stdin, fed>>
outVars == <<written, ends, pipe, line, emitting, handled>>
childVars == <<alive, held, closed>>
clock == <<left, quiet>>
vars == <<inVars, cancelled, childVars, outVars, exited, clock, why>>

None == [msg |-> 0]
Message(k) == [j \in 1..MsgBytes |-> <<k, j>>]

StdoutOpen == (alive /\ ~closed) \/ held
StdinOpen == alive \/ held

Init ==
    /\ sent = 0 /\ rx = <<>> /\ cancelled = FALSE
    /\ pending = None /\ stdin = 0 /\ fed = <<>>
    /\ alive = TRUE /\ held \in BOOLEAN /\ closed = FALSE
    /\ written = <<>> /\ ends = <<>> /\ pipe = <<>> /\ line = 0 /\ emitting = FALSE /\ handled = <<>>
    /\ exited = FALSE /\ left = Idle /\ quiet = 0
    /\ why = "running"

-----------------------------------------------------------------------------
(* The gateway and the child.                                              *)

GatewaySends ==
    /\ sent < MaxSent /\ ~cancelled
    /\ sent' = sent + 1
    /\ rx' = Append(rx, sent')
    /\ UNCHANGED <<cancelled, pending, stdin, fed, childVars, outVars, exited, clock, why>>

Cancel ==
    /\ ~cancelled
    /\ cancelled' = TRUE
    /\ UNCHANGED <<inVars, childVars, outVars, exited, clock, why>>

ChildReads ==
    /\ StdinOpen /\ stdin > 0
    /\ stdin' = 0
    /\ UNCHANGED <<sent, rx, cancelled, pending, fed, childVars, outVars, exited, clock, why>>

ChildWrites(x) ==
    /\ StdoutOpen /\ Len(written) < MaxWritten
    /\ written' = Append(written, x)
    /\ ends' = IF x = "n" THEN Append(ends, Len(written')) ELSE ends
    /\ pipe' = Append(pipe, x)
    /\ UNCHANGED <<inVars, cancelled, childVars, line, emitting, handled, exited, clock, why>>

ChildExits ==
    /\ alive
    /\ alive' = FALSE
    /\ UNCHANGED <<inVars, cancelled, held, closed, outVars, exited, clock, why>>

ChildClosesStdout ==
    /\ alive /\ ~closed
    /\ closed' = TRUE
    /\ UNCHANGED <<inVars, cancelled, alive, held, outVars, exited, clock, why>>

-----------------------------------------------------------------------------
(* The arms of the select loop.  Whichever of the ready arms wins, the     *)
(* others keep their progress in `pending` and `line`.                     *)

Selecting == why = "running" /\ ~emitting

End(w) ==
    /\ why' = w
    /\ UNCHANGED <<inVars, cancelled, childVars, outVars, exited, clock>>

Closed == Selecting /\ cancelled /\ End("none")

Recv ==
    /\ Selecting /\ pending = None /\ rx # <<>>
    /\ pending' = [msg |-> Head(rx), off |-> 0]
    /\ rx' = Tail(rx)
    /\ left' = Idle /\ quiet' = 0
    /\ UNCHANGED <<sent, stdin, fed, cancelled, childVars, outVars, exited, why>>

Write_ForgetsOffset ==                                          \* mutant
    /\ Selecting /\ pending # None /\ StdinOpen
    /\ \E n \in 1..(MsgBytes - pending.off) :
        /\ stdin + n <= InCap
        /\ stdin' = stdin + n
        /\ fed' = fed \o SubSeq(Message(pending.msg), pending.off + 1, pending.off + n)
        /\ pending' = IF n = MsgBytes THEN None ELSE [pending EXCEPT !.off = n]
    /\ UNCHANGED <<sent, rx, cancelled, childVars, outVars, exited, clock, why>>

Write ==
    /\ Selecting /\ pending # None /\ StdinOpen
    /\ \E n \in 1..(MsgBytes - pending.off) :
        /\ stdin + n <= InCap
        /\ stdin' = stdin + n
        /\ fed' = fed \o SubSeq(Message(pending.msg), pending.off + 1, pending.off + n)
        /\ pending' = IF pending.off + n = MsgBytes THEN None
                      ELSE [pending EXCEPT !.off = @ + n]
    /\ UNCHANGED <<sent, rx, cancelled, childVars, outVars, exited, clock, why>>

WriteFails ==
    /\ Selecting /\ pending # None /\ ~StdinOpen
    /\ End("server_exited")

Gather_LimitReached(n) ==                                       \* mutant
    /\ line' = line + n
    /\ why' = IF line' >= MaxLine THEN "message_too_large" ELSE why

\* `n` more bytes of the line, which is given up past MaxLine.
Gather(n) ==
    /\ line' = line + n
    /\ why' = IF line' > MaxLine THEN "message_too_large" ELSE why

\* read_line_bounded on the first `n` bytes of the pipe: all of them, or those up to
\* the first newline among them.
TakeLine(n) ==
    \/ /\ \A i \in 1..n : pipe[i] # "n"
       /\ Gather(n)
       /\ pipe' = SubSeq(pipe, n + 1, Len(pipe))
       /\ UNCHANGED <<emitting, clock>>
    \/ \E k \in 1..n :
       /\ pipe[k] = "n" /\ \A i \in 1..(k - 1) : pipe[i] # "n"
       /\ Gather(k - 1)
       /\ pipe' = SubSeq(pipe, k + 1, Len(pipe))
       /\ \/ why' = "running" /\ emitting' = TRUE /\ left' = Idle /\ quiet' = 0
          \/ why' # "running" /\ UNCHANGED <<emitting, clock>>

Read_BetweenWrites ==                                           \* mutant
    /\ Selecting /\ pipe # <<>> /\ pending = None
    /\ \E n \in 1..Len(pipe) : TakeLine(n)
    /\ UNCHANGED <<inVars, cancelled, childVars, written, ends, handled, exited>>

Read ==
    /\ Selecting /\ pipe # <<>>
    /\ \E n \in 1..Len(pipe) : TakeLine(n)
    /\ UNCHANGED <<inVars, cancelled, childVars, written, ends, handled, exited>>

ReadEof == Selecting /\ pipe = <<>> /\ ~StdoutOpen /\ End("server_exited")

\* `forward` has the line out, or finds the connection gone.
Forward ==
    /\ why = "running" /\ emitting
    /\ handled' = Append(handled, line)
    /\ line' = 0 /\ emitting' = FALSE
    /\ UNCHANGED <<inVars, cancelled, childVars, written, ends, pipe, exited, clock, why>>

ForwardFails ==
    /\ why = "running" /\ emitting
    /\ End("none")

Wait ==
    /\ Selecting /\ ~alive /\ ~exited
    /\ exited' = TRUE
    /\ left' = Drain
    /\ UNCHANGED <<inVars, cancelled, childVars, outVars, quiet, why>>

Expire ==
    /\ Selecting /\ left = 0
    /\ End(IF exited THEN "server_exited" ELSE "idle")

\* The loop is over: the child is killed and reaped.
Kill ==
    /\ why # "running" /\ alive
    /\ alive' = FALSE
    /\ UNCHANGED <<inVars, cancelled, held, closed, outVars, exited, clock, why>>

Arm ==
    \/ Closed \/ Recv \/ Write \/ WriteFails \/ Read \/ ReadEof \/ Wait \/ Expire

\* The loop is quick: time passes only when no arm is ready, or while `forward`
\* waits for room on the connection.
Tick ==
    /\ why = "running"
    /\ emitting \/ ~ENABLED Arm
    /\ left' = IF left > 0 THEN left - 1 ELSE 0
    /\ quiet' = IF quiet < Idle THEN quiet + 1 ELSE quiet
    /\ UNCHANGED <<inVars, cancelled, childVars, outVars, exited, why>>

Over ==
    /\ why # "running" /\ ~alive
    /\ UNCHANGED vars

Next ==
    \/ GatewaySends \/ Cancel
    \/ ChildReads \/ (\E x \in {"b", "n"} : ChildWrites(x)) \/ ChildExits \/ ChildClosesStdout
    \/ Arm \/ Forward \/ ForwardFails \/ Kill
    \/ Tick \/ Over

Spec == Init /\ [][Next]_vars

\* select! polls its arms in random order, so one that stays ready is taken; the
\* connection's writer makes room or fails.
FairSpec ==
    /\ Spec
    /\ WF_vars(Read) /\ WF_vars(Arm) /\ WF_vars(Forward \/ ForwardFails) /\ WF_vars(Kill)

-----------------------------------------------------------------------------
(* Properties.                                                             *)

TypeOK ==
    /\ sent \in 0..MaxSent /\ rx \in Seq(1..MaxSent)
    /\ pending \in [msg : 1..MaxSent, off : 0..(MsgBytes - 1)] \cup {None}
    /\ stdin \in 0..InCap /\ fed \in Seq((1..MaxSent) \X (1..MsgBytes))
    /\ {cancelled, alive, held, closed, emitting, exited} \subseteq BOOLEAN
    /\ written \in Seq({"b", "n"}) /\ ends \in Seq(1..MaxWritten) /\ pipe \in Seq({"b", "n"})
    /\ line \in 0..MaxWritten /\ handled \in Seq(0..MaxLine)
    /\ {left, quiet} \subseteq 0..Idle
    /\ why \in {"running", "none", "server_exited", "message_too_large", "idle"}

\* Where line `k` ends, and the lengths of the lines the child has completed.
Break(k) == IF k = 0 THEN 0 ELSE ends[k]
Lines == [k \in 1..Len(ends) |-> ends[k] - Break(k - 1) - 1]

\* Every line the child writes is handled once, whole and in order, however the
\* chunks fall and whichever arms win in between, until the session ends; and a
\* line that waits is handled, unless the session ends, even while a child that stops
\* reading keeps a message from going out (read_line_bounded, forward).
Out == INSTANCE Fifo WITH Item <- 0..MaxWritten, put <- Lines, got <- handled,
                          over <- (why # "running")
LinesArrive == Out!Spec

\* The child never sees a torn, missing or repeated byte: what it was fed is the first
\* byte of the first message and then always the next one, up to where the message
\* being written is.
After(b) == IF b[2] < MsgBytes THEN <<b[1], b[2] + 1>> ELSE <<b[1] + 1, 1>>

LastOut ==
    LET taken == sent - Len(rx)
    IN CASE pending = None -> <<taken, MsgBytes>>
         [] pending # None /\ pending.off = 0 -> <<taken - 1, MsgBytes>>
         [] pending # None /\ pending.off # 0 -> <<taken, pending.off>>

StdinWhole ==
    /\ fed = <<>> => LastOut[1] = 0
    /\ fed # <<>> => fed[1] = <<1, 1>> /\ fed[Len(fed)] = LastOut
    /\ \A i \in 1..(Len(fed) - 1) : fed[i + 1] = After(fed[i])

\* The reason the gateway is told is the truth: idle is a whole idle time without a
\* line or a message; a line of MaxLine bytes goes through and only one byte more is
\* message_too_large.
EndIsEarned ==
    /\ why = "idle" => quiet = Idle /\ ~exited
    /\ \A k \in DOMAIN handled : handled[k] <= MaxLine
    /\ why = "message_too_large" =>
        \E k \in DOMAIN written :
            /\ k > MaxLine
            /\ \A j \in (k - MaxLine)..k : written[j] = "b"

=============================================================================
