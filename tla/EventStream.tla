---------------------------- MODULE EventStream ----------------------------
(***************************************************************************)
(* The Server-Sent Events decoder (relay/sse.rs), fed by stream in          *)
(* relay/http.rs: a body comes in chunks that end anywhere, in the middle   *)
(* of a line or of a line ending, and what is buffered between chunks is    *)
(* limited.                                                                 *)
(*                                                                         *)
(* Abstracted: a byte is a token and a field's name is one, so a body is a  *)
(* sequence of tokens; lossy UTF-8. The messages go to emit (HttpSession).  *)
(***************************************************************************)
EXTENDS Naturals, Sequences, FiniteSets, SequencesExt

CONSTANTS
    Line,           \* lines the server writes: sequences of tokens
    Eol,            \* how it ends them
    MaxLines,       \* bounds the body
    MaxChunk,       \* bounds a chunk
    MaxBuffered     \* MAX_BACKEND_MESSAGE_BYTES, in tokens

\* A line ends where its ending does, and nowhere before.
EventStreamAssumption ==
    /\ \A l \in Line : l \in Seq(STRING) /\ ~Contains(l, "lf") /\ (l # <<>> => Last(l) # "cr")
    /\ Eol \subseteq {<<"lf">>, <<"cr", "lf">>}
    /\ {MaxLines, MaxChunk, MaxBuffered} \subseteq Nat

VARIABLES
    body,           \* the lines the server has written: text and ending
    pos,            \* tokens of it that were read
    line, data, hasData,    \* SseParser
    events,         \* data of the events relayed
    done            \* "no", "end", "too_large"

vars == <<body, pos, line, data, hasData, events, done>>
Parser == [line |-> line, data |-> data, has |-> hasData, out |-> <<>>]

Sent == FlattenSeq([i \in DOMAIN body |-> body[i].text \o body[i].eol])

Init ==
    /\ body = <<>> /\ pos = 0
    /\ line = <<>> /\ data = <<>> /\ hasData = FALSE
    /\ events = <<>> /\ done = "no"

-----------------------------------------------------------------------------
\* SseParser::push.

Chomp(l) == IF l # <<>> /\ Last(l) = "cr" THEN Front(l) ELSE l

Field(l) == IF Contains(l, ":") THEN SubSeq(l, 1, SelectInSeq(l, LAMBDA t : t = ":") - 1) ELSE l

Value(l) ==
    LET rest == IF Contains(l, ":") THEN SubSeq(l, SelectInSeq(l, LAMBDA t : t = ":") + 1, Len(l))
                ELSE <<>>
    IN IF rest # <<>> /\ Head(rest) = " " THEN Tail(rest) ELSE rest

Dispatch_Joins(p) ==        \* mutant: the data stays
    [p EXCEPT !.line = <<>>, !.has = FALSE, !.out = IF p.has THEN Append(@, p.data) ELSE @]

Dispatch(p) ==
    IF p.has THEN [line |-> <<>>, data |-> <<>>, has |-> FALSE, out |-> Append(p.out, p.data)]
             ELSE [p EXCEPT !.line = <<>>]

TakeLine(p, l) ==
    CASE l = <<>> -> Dispatch(p)
      [] l # <<>> /\ Field(l) = <<"data">> ->
           [p EXCEPT !.line = <<>>, !.has = TRUE,
                     !.data = (IF p.has THEN Append(@, "lf") ELSE @) \o Value(l)]
      [] OTHER -> [p EXCEPT !.line = <<>>]

Byte(p, t) == IF t # "lf" THEN [p EXCEPT !.line = Append(@, t)] ELSE TakeLine(p, Chomp(p.line))

push(chunk) ==
    LET after[i \in 0 .. Len(chunk)] == IF i = 0 THEN Parser ELSE Byte(after[i - 1], chunk[i])
    IN after[Len(chunk)]

buffered(p) == Len(p.line) + Len(p.data)

-----------------------------------------------------------------------------
\* stream. The server (external) writes lines whenever it likes.

Write ==
    /\ done = "no" /\ Len(body) < MaxLines
    /\ \E l \in Line, e \in Eol : body' = Append(body, [text |-> l, eol |-> e])
    /\ UNCHANGED <<pos, line, data, hasData, events, done>>

Chunk(n) ==
    /\ done = "no" /\ pos + n <= Len(Sent)
    /\ pos' = pos + n
    /\ LET p == push(SubSeq(Sent, pos + 1, pos + n)) IN
       /\ line' = p.line /\ data' = p.data /\ hasData' = p.has
       /\ events' = events \o p.out
       /\ done' = IF buffered(p) > MaxBuffered THEN "too_large" ELSE "no"
    /\ UNCHANGED body

\* The body ends, or the transfer fails: what is buffered is dropped.
End ==
    /\ done = "no" /\ done' = "end"
    /\ UNCHANGED <<body, pos, line, data, hasData, events>>

Next == Write \/ End \/ \E n \in 1 .. MaxChunk : Chunk(n)

Spec == Init /\ [][Next]_vars

-----------------------------------------------------------------------------
\* What the event stream format says, of the lines and not of the bytes: an
\* event is the data lines between two blank lines, if there is one.

Ends(k) == Len(FlattenSeq([i \in 1 .. k |-> body[i].text \o body[i].eol]))
WholeLines == Cardinality({k \in DOMAIN body : Ends(k) <= pos})

\* The data of lines up to the k-th, of those after the last blank one, each after a
\* line feed.
Blanks(k) == {j \in 1 .. k : body[j].text = <<>>}
Payload(k) ==
    LET says(l) == IF Field(l) = <<"data">> THEN <<"lf">> \o Value(l) ELSE <<>>
    IN FlattenSeq([j \in 1 .. k |-> IF \E b \in Blanks(k) : j <= b THEN <<>> ELSE says(body[j].text)])

Expected ==
    FlattenSeq([k \in 1 .. WholeLines |->
        IF k \in Blanks(k) /\ Payload(k - 1) # <<>> THEN <<Tail(Payload(k - 1))>> ELSE <<>>])

\* Wherever the chunks end, the events relayed are those of the lines read
\* so far, each once, whole and in order; the stream is given up only with
\* an unfinished event past the limit.
EventsAsWritten ==
    /\ events = Expected
    /\ done = "too_large" => Len(line) + Len(data) > MaxBuffered

=============================================================================
