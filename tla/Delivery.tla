------------------------------ MODULE Delivery -------------------------------
(***************************************************************************)
(* What an HTTP session promises of the messages the gateway sends: each   *)
(* goes to the endpoint, unless the session ends first, with the session   *)
(* id the endpoint had given by then.  Messages may overtake each other,   *)
(* but none an initialize that was not answered.                           *)
(***************************************************************************)
EXTENDS Naturals, Sequences

CONSTANT Message    \* the numbers of messages

VARIABLES
    put,        \* what was sent, in order: is it initialize
    out,        \* of each message that went out, the session id it had
    sid,        \* the message whose answer brought the session id, 0 if none
    waiting,    \* the initialize that is out and not answered, or 0
    over        \* the session has ended

vars == <<put, out, sid, waiting, over>>

Init == put = <<>> /\ out = <<>> /\ sid = 0 /\ waiting = 0 /\ over = FALSE

Put(init) ==
    /\ ~over
    /\ put' = Append(put, init)
    /\ UNCHANGED <<out, sid, waiting, over>>

\* Message k may go: every initialize before it went and was answered.
MayGo(k) ==
    /\ ~over /\ k \in DOMAIN put \ DOMAIN out
    /\ \A i \in 1..(k - 1) : put[i] => i \in DOMAIN out /\ i # waiting

Go(k) ==
    /\ MayGo(k)
    /\ out' = [j \in DOMAIN out \cup {k} |-> IF j = k THEN sid ELSE out[j]]
    /\ waiting' = IF put[k] THEN k ELSE waiting
    /\ UNCHANGED <<put, sid, over>>

\* The first session id stays.
Learn(k) == sid = 0 /\ sid' = k

\* An initialize is answered, with a session id or without, or given up.
Answer ==
    /\ ~over /\ waiting # 0
    /\ waiting' = 0
    /\ Learn(waiting) \/ UNCHANGED sid
    /\ UNCHANGED <<put, out, over>>

\* The answer to another message brings the session id.
AnswerLate(k) ==
    /\ ~over /\ k \in DOMAIN out \ {waiting}
    /\ Learn(k)
    /\ UNCHANGED <<put, out, waiting, over>>

End ==
    /\ over' = TRUE
    /\ UNCHANGED <<put, out, sid, waiting>>

Next ==
    \/ \E init \in BOOLEAN : Put(init)
    \/ \E k \in Message : Go(k) \/ AnswerLate(k)
    \/ Answer \/ End

Safety == Init /\ [][Next]_vars

\* A message that may go goes, unless the session ends first.
Spec == Safety /\ \A k \in Message : WF_vars(Go(k))
=============================================================================
